---------------------------- MODULE DesktopProofs ----------------------------
(***************************************************************************)
(* The desktop and its event queue, for any number of windows, buttons,     *)
(* keys and slots of the ring, and any number of interrupts in a frame.     *)
(*                                                                          *)
(* WinInv is what the handlers keep of the windows, whatever the events     *)
(* say; MenuInv adds that the menu's window is seen, so that it can be the  *)
(* one in front.  PlaceInv is what is known of the ring at each place of    *)
(* the reader: in particular it is not empty between the copy of a slot and *)
(* the move of the tail.  GripInv follows the left button through the       *)
(* queue: a press is followed by the release that belongs to it, unless the *)
(* button is still down as far as the events have told, or a release has    *)
(* been lost.  GripEnds alone says nothing of the presses still in the      *)
(* queue, which take hold of a window later.  Delay is a measure that ends  *)
(* with the answer to a question.                                           *)
(***************************************************************************)
EXTENDS Desktop, Iteration, TLAPS

-----------------------------------------------------------------------------
(* The order of the windows: taking one out, putting one on top, and which  *)
(* is in front.                                                             *)
LEMMA OthersProps ==
  ASSUME wins \in Seq(Ids), IsInjective(wins), NEW w
  PROVE  /\ Others(w) \in Seq(Ids) /\ IsInjective(Others(w))
         /\ ToSet(Others(w)) = Open \ {w}
<1>1. CASE w \notin Open
  BY <1>1 DEF Others, Open
<1>2. CASE w \in Open
  <2> DEFINE i == CHOOSE j \in DOMAIN wins : wins[j] = w
             L == Len(wins)
             s == Others(w)
  <2>1. i \in 1 .. L /\ wins[i] = w /\ L \in Nat /\ DOMAIN wins = 1 .. L
    BY <1>2 DEF Open, ToSet
  <2>2. s = SubSeq(wins, 1, i - 1) \o SubSeq(wins, i + 1, Len(wins))
    BY <1>2 DEF Others, RemoveAt
  <2> HIDE DEF i
  <2>3. /\ SubSeq(wins, 1, i - 1) \in Seq(Ids) /\ SubSeq(wins, i + 1, L) \in Seq(Ids)
        /\ Len(SubSeq(wins, 1, i - 1)) = i - 1 /\ Len(SubSeq(wins, i + 1, L)) = L - i
        /\ \A j \in 1 .. i - 1 : SubSeq(wins, 1, i - 1)[j] = wins[j]
        /\ \A j \in 1 .. L - i : SubSeq(wins, i + 1, L)[j] = wins[i + j]
    <3>1. /\ SubSeq(wins, 1, i - 1) \in Seq(Ids) /\ Len(SubSeq(wins, 1, i - 1)) = i - 1
          /\ \A j \in 1 .. i - 1 : SubSeq(wins, 1, i - 1)[j] = wins[j]
      BY <2>1
    <3>2. /\ SubSeq(wins, i + 1, L) \in Seq(Ids) /\ Len(SubSeq(wins, i + 1, L)) = L - i
          /\ \A j \in 1 .. L - i : SubSeq(wins, i + 1, L)[j] = wins[i + j]
      <4>1. i + 1 \in 1 .. L + 1 /\ i \in Nat
        BY <2>1
      <4>2. \A j \in 1 .. L - i : (i + 1) + j - 1 = i + j
        BY <4>1
      <4> DEFINE k == i + 1
      <4>5. k \in Nat /\ k >= 1 /\ k <= L + 1 /\ L \in Nat /\ wins \in Seq(Ids)
        BY <2>1, <4>1
      <4> HIDE DEF k, i
      <4>6. SubSeq(wins, k, L) \in Seq(Ids)
        BY <4>5
      <4>7. Len(SubSeq(wins, k, L)) = IF k <= L THEN L - k + 1 ELSE 0
        BY <4>5
      <4>8. (IF k <= L THEN L - k + 1 ELSE 0) = L - i
        <5> HIDE DEF L
        <5>1. i \in Nat /\ L \in Nat /\ i <= L /\ k = i + 1
          BY <2>1 DEF k
        <5> QED BY <5>1
      <4>3. SubSeq(wins, i + 1, L) \in Seq(Ids) /\ Len(SubSeq(wins, i + 1, L)) = L - i
        BY <4>6, <4>7, <4>8 DEF k
      <4>4. \A j \in 1 .. L - i : SubSeq(wins, i + 1, L)[j] = wins[(i + 1) + j - 1]
        BY <2>1, <4>1
      <4> QED BY <4>2, <4>3, <4>4
    <3> QED BY <3>1, <3>2
  <2> DEFINE a == SubSeq(wins, 1, i - 1)  b == SubSeq(wins, i + 1, L)
  <2>4. /\ a \in Seq(Ids) /\ b \in Seq(Ids) /\ Len(a) = i - 1 /\ Len(b) = L - i
        /\ \A j \in 1 .. i - 1 : a[j] = wins[j]
        /\ \A j \in 1 .. L - i : b[j] = wins[i + j]
        /\ s = a \o b
    BY <2>2, <2>3
  <2> HIDE DEF a, b, s, L
  <2>5. s \in Seq(Ids) /\ Len(s) = L - 1
    <3>0. a \in Seq(Ids) /\ b \in Seq(Ids) /\ s = a \o b
      BY <2>4
    <3>1. s \in Seq(Ids) /\ Len(s) = Len(a) + Len(b)
      BY <3>0
    <3>2. (i - 1) + (L - i) = L - 1
      BY <2>1
    <3>3. Len(a) = i - 1 /\ Len(b) = L - i
      BY <2>4
    <3> QED BY <3>1, <3>2, <3>3
  <2>6. /\ \A j \in 1 .. i - 1 : s[j] = wins[j]
        /\ \A j \in i .. L - 1 : s[j] = wins[j + 1]
    <3>1. ASSUME NEW j \in 1 .. i - 1 PROVE s[j] = wins[j]
      BY <2>1, <2>4
    <3>2. ASSUME NEW j \in i .. L - 1 PROVE s[j] = wins[j + 1]
      <4>1. j - (i - 1) \in 1 .. L - i /\ i + (j - (i - 1)) = j + 1
        BY <2>1
      <4>2. s[j] = b[j - (i - 1)]
        BY <2>1, <2>4, <4>1
      <4> QED BY <2>4, <4>1, <4>2
    <3> QED BY <3>1, <3>2
  <2>7. DOMAIN s = 1 .. L - 1
    BY <2>5
  <2>8. \A j \in 1 .. L - 1 : (j < i => s[j] = wins[j]) /\ (j >= i => s[j] = wins[j + 1])
    BY <2>1, <2>6
  <2>9. IsInjective(s)
    <3> SUFFICES ASSUME NEW j \in 1 .. L - 1, NEW k \in 1 .. L - 1, s[j] = s[k] PROVE j = k
      BY <2>7 DEF IsInjective
    <3> DEFINE at1(n) == IF n < i THEN n ELSE n + 1
    <3>1. at1(j) \in 1 .. L /\ at1(k) \in 1 .. L /\ (at1(j) = at1(k) => j = k)
      BY <2>1
    <3>2. s[j] = wins[at1(j)] /\ s[k] = wins[at1(k)]
      BY <2>1, <2>8
    <3> HIDE DEF at1
    <3> QED BY <2>1, <3>1, <3>2 DEF IsInjective
  <2>10. ToSet(s) = Open \ {w}
    <3>1. ASSUME NEW j \in 1 .. L - 1 PROVE s[j] \in Open \ {w}
      <4>1. CASE j < i
        <5>1. s[j] = wins[j] /\ j \in 1 .. L /\ j # i
          BY <2>1, <2>8, <4>1
        <5> QED BY <2>1, <5>1 DEF IsInjective, Open, ToSet
      <4>2. CASE ~(j < i)
        <5>1. s[j] = wins[j + 1] /\ j + 1 \in 1 .. L /\ j + 1 # i
          BY <2>1, <2>8, <4>2
        <5> QED BY <2>1, <5>1 DEF IsInjective, Open, ToSet
      <4> QED BY <4>1, <4>2
    <3>2. ASSUME NEW v \in Open \ {w} PROVE \E j \in 1 .. L - 1 : s[j] = v
      <4>1. PICK k \in 1 .. L : wins[k] = v
        BY <2>1 DEF Open, ToSet
      <4>2. k # i
        BY <2>1, <4>1
      <4>3. CASE k < i
        <5>1. k \in 1 .. L - 1 /\ s[k] = wins[k]
          BY <2>1, <2>8, <4>3
        <5> QED BY <4>1, <5>1
      <4>4. CASE ~(k < i)
        <5>1. k - 1 \in 1 .. L - 1 /\ k - 1 >= i /\ (k - 1) + 1 = k
          BY <2>1, <4>2, <4>4
        <5>2. s[k - 1] = wins[k]
          BY <2>8, <5>1
        <5> QED BY <4>1, <5>1, <5>2
      <4> QED BY <4>3, <4>4
    <3> QED BY <2>7, <3>1, <3>2 DEF ToSet
  <2> QED BY <2>5, <2>9, <2>10 DEF s
<1> QED BY <1>1, <1>2

LEMMA AppendProps ==
  ASSUME NEW s \in Seq(Ids), IsInjective(s), NEW w \in Ids, w \notin ToSet(s)
  PROVE  /\ Append(s, w) \in Seq(Ids) /\ IsInjective(Append(s, w))
         /\ ToSet(Append(s, w)) = ToSet(s) \cup {w}
         /\ Append(s, w)[Len(Append(s, w))] = w
<1> DEFINE t == Append(s, w)  L == Len(s)
<1>1. /\ t \in Seq(Ids) /\ DOMAIN t = 1 .. L + 1 /\ DOMAIN s = 1 .. L /\ L \in Nat
      /\ \A j \in 1 .. L : t[j] = s[j]
      /\ t[L + 1] = w /\ Len(t) = L + 1
  OBVIOUS
<1> HIDE DEF t, L
<1>2. IsInjective(t)
  <2> SUFFICES ASSUME NEW j \in 1 .. L + 1, NEW k \in 1 .. L + 1, t[j] = t[k] PROVE j = k
    BY <1>1 DEF IsInjective
  <2>1. CASE j \in 1 .. L /\ k \in 1 .. L
    BY <1>1, <2>1 DEF IsInjective
  <2>2. CASE j = L + 1 /\ k \in 1 .. L
    BY <1>1, <2>2 DEF ToSet
  <2>3. CASE j \in 1 .. L /\ k = L + 1
    BY <1>1, <2>3 DEF ToSet
  <2> QED BY <1>1, <2>1, <2>2, <2>3
<1>3. ToSet(t) = ToSet(s) \cup {w}
  <2>1. \A j \in 1 .. L + 1 : j \in 1 .. L \/ j = L + 1
    BY <1>1
  <2>2. \A j \in 1 .. L : j \in 1 .. L + 1
    BY <1>1
  <2>3. L + 1 \in 1 .. L + 1
    BY <1>1
  <2> QED BY <1>1, <2>1, <2>2, <2>3 DEF ToSet
<1> QED BY <1>1, <1>2, <1>3 DEF t

LEMMA RaisedProps ==
  ASSUME wins \in Seq(Ids), IsInjective(wins), NEW w \in Open
  PROVE  /\ Raised(w) \in Seq(Ids) /\ IsInjective(Raised(w)) /\ ToSet(Raised(w)) = Open
         /\ Raised(w)[Len(Raised(w))] = w
<1>1. w \in Ids
  BY DEF Open, ToSet
<1>2. /\ Others(w) \in Seq(Ids) /\ IsInjective(Others(w))
      /\ ToSet(Others(w)) = Open \ {w}
  BY OthersProps
<1> DEFINE o == Others(w)
<1> HIDE DEF o
<1>3. o \in Seq(Ids) /\ IsInjective(o) /\ ToSet(o) = Open \ {w} /\ w \notin ToSet(o)
  BY <1>2 DEF o
<1>4. /\ Append(o, w) \in Seq(Ids) /\ IsInjective(Append(o, w))
      /\ ToSet(Append(o, w)) = ToSet(o) \cup {w}
      /\ Append(o, w)[Len(Append(o, w))] = w
  BY <1>1, <1>3, AppendProps
<1>5. Raised(w) = Append(o, w)
  BY DEF Raised, o
<1> QED BY <1>3, <1>4, <1>5

(* The window in front: the last one that is seen.                          *)
Frontmost(order, seen) ==
  IF seen = {} THEN None ELSE order[Max({i \in DOMAIN order : order[i] \in seen})]

LEMMA FocusedIsFront == get_focused = Frontmost(wins, Visible)
BY DEF get_focused, Frontmost

LEMMA FrontProps ==
  ASSUME NEW s \in Seq(Ids), NEW seen \in SUBSET ToSet(s), seen # {}
  PROVE  /\ Frontmost(s, seen) \in seen
         /\ s[Len(s)] \in seen => Frontmost(s, seen) = s[Len(s)]
<1> DEFINE S == {i \in DOMAIN s : s[i] \in seen}  L == Len(s)
<1>1. L \in Nat /\ DOMAIN s = 1 .. L
  OBVIOUS
<1>2. S # {} /\ S \subseteq 1 .. L
  BY DEF ToSet
<1> HIDE DEF L
<1>3. PICK m \in S : \A i \in S : m >= i
  <2> DEFINE T == {L - i : i \in S}
  <2>1. T \in SUBSET Nat /\ T # {}
    BY <1>1, <1>2
  <2>2. PICK x \in T : \A y \in T : x <= y
    <3> HIDE DEF T
    <3> QED BY <2>1, LeastElement
  <2>3. PICK m \in S : x = L - m
    OBVIOUS
  <2>4. ASSUME NEW i \in S PROVE m >= i
    <3>1. L - i \in T
      OBVIOUS
    <3>2. L - m <= L - i
      BY <2>2, <2>3, <3>1
    <3> HIDE DEF S
    <3> QED BY <1>1, <1>2, <2>3, <3>2
  <2> QED BY <2>4
<1>4. Max(S) \in S /\ \A i \in S : Max(S) >= i
  <2> HIDE DEF S
  <2> QED BY <1>3 DEF Max
<1>5. Frontmost(s, seen) = s[Max(S)]
  BY DEF Frontmost
<1> DEFINE k == Max(S)
<1> HIDE DEF k
<1>6. k \in S /\ \A i \in S : k >= i
  BY <1>4 DEF k
<1>7. s[L] \in seen => k = L
  <2> SUFFICES ASSUME s[L] \in seen PROVE k = L
    OBVIOUS
  <2>1. L \in 1 .. L
    BY <1>1, <1>2
  <2>2. L \in S
    BY <1>1, <2>1
  <2> HIDE DEF S
  <2> QED BY <1>1, <1>2, <1>6, <2>2
<1> QED BY <1>5, <1>6, <1>7 DEF k, L
-----------------------------------------------------------------------------
(* The windows.  What is dragged is visible, there is one window of chat at *)
(* most, and nothing hidden or waiting is closed.                           *)
OneChat == \A v, w \in Open \cap Chats : v = w
WinInv ==
  /\ wins \in Seq(Ids) /\ IsInjective(wins) /\ OneChat
  /\ hidden \subseteq Open /\ waiting \subseteq Open \cap Chats
  /\ {drag, resize} \subseteq Ids \cup {None} /\ run \in BOOLEAN
  /\ DragIsOpen

MenuInv ==
  /\ ctx_menu \in [kind : {"none", "window", "other"}, win : Ids \cup {None}]
  /\ ctx_menu.kind = "window" => ctx_menu.win \in Visible /\ ctx_menu.win = get_focused

LEMMA NothingKeeps ==
  ASSUME WinInv, UNCHANGED << wins, hidden, waiting, drag, resize, run >>
  PROVE  WinInv'
BY DEF WinInv, OneChat, Open, DragIsOpen, Visible

LEMMA CloseKeeps ==
  ASSUME WinInv, NEW w, Close(w)
  PROVE  WinInv'
<1>1. /\ wins' \in Seq(Ids) /\ IsInjective(wins') /\ Open' = Open \ {w}
  BY OthersProps DEF WinInv, Close, Open
<1>2. /\ hidden' = hidden \ {w} /\ waiting' = waiting \ {w}
      /\ drag' = (IF drag = w THEN None ELSE drag)
      /\ UNCHANGED << resize, run >>
  BY DEF Close, Released
<1>3. Visible' = Open' \ hidden'
  BY DEF Visible
<1>4. drag # None => drag \in Open \ hidden
  BY DEF WinInv, DragIsOpen, Visible
<1>5. DragIsOpen'
  BY <1>1, <1>2, <1>3, <1>4 DEF DragIsOpen
<1> QED BY <1>1, <1>2, <1>5 DEF WinInv, OneChat

(* The order changes, and one window may be shown or hidden.                *)
LEMMA SameWindowsKeep ==
  ASSUME WinInv, wins' \in Seq(Ids), IsInjective(wins'), Open' = Open,
         hidden' \subseteq Open, waiting' \subseteq Open \cap Chats, run' \in BOOLEAN,
         {drag', resize'} \subseteq Ids \cup {None},
         drag' # None => drag' \in Open \ hidden'
  PROVE  WinInv'
BY DEF WinInv, OneChat, DragIsOpen, Visible

LEMMA MinimizeKeeps ==
  ASSUME WinInv, NEW w \in Open, Minimize(w), UNCHANGED wins \/ Focus(w)
  PROVE  WinInv'
<1>1. wins' \in Seq(Ids) /\ IsInjective(wins') /\ Open' = Open
  BY RaisedProps DEF WinInv, Focus, Open
<1>2. /\ hidden' = hidden \cup {w}
      /\ drag' = (IF drag = w THEN None ELSE drag)
      /\ UNCHANGED << waiting, resize, run >>
  BY DEF Minimize, Released
<1>3. drag # None => drag \in Open \ hidden
  BY DEF WinInv, DragIsOpen, Visible
<1>4. /\ hidden' \subseteq Open /\ waiting' \subseteq Open \cap Chats /\ run' \in BOOLEAN
      /\ {drag', resize'} \subseteq Ids \cup {None}
      /\ drag' # None => drag' \in Open \ hidden'
  BY <1>2, <1>3 DEF WinInv
<1> QED BY <1>1, <1>4, SameWindowsKeep

LEMMA OpenNewKeeps ==
  ASSUME WinInv, NEW order, NEW kind, OpenNew(order, kind),
         order \in Seq(Ids), IsInjective(order), ToSet(order) = Open,
         kind \subseteq Ids, kind \cap Chats = {} \/ Open \cap Chats = {}
  PROVE  WinInv'
<1> DEFINE w == CHOOSE v \in Fresh \cap kind : TRUE
<1>1. w \in Fresh \cap kind
  BY DEF OpenNew
<1>2. wins' = Append(order, w) /\ UNCHANGED << hidden, waiting, drag, resize, run >>
  BY DEF OpenNew
<1> HIDE DEF w
<1>3. w \in Ids /\ w \notin ToSet(order)
  BY <1>1 DEF Fresh
<1>4. wins' \in Seq(Ids) /\ IsInjective(wins') /\ Open' = Open \cup {w}
  BY <1>2, <1>3, AppendProps DEF Open
<1>5. OneChat'
  <2>1. CASE kind \cap Chats = {}
    <3>1. Open' \cap Chats = Open \cap Chats
      BY <1>1, <1>4, <2>1
    <3> QED BY <3>1 DEF OneChat, WinInv
  <2>2. CASE Open \cap Chats = {}
    <3>1. Open' \cap Chats \subseteq {w}
      BY <1>4, <2>2
    <3> QED BY <3>1 DEF OneChat
  <2> QED BY <2>1, <2>2
<1>6. DragIsOpen'
  BY <1>2, <1>4 DEF WinInv, DragIsOpen, Visible
<1> QED BY <1>2, <1>4, <1>5, <1>6 DEF WinInv

LEMMA OpenAppKeeps ==
  ASSUME WinInv, OpenApp
  PROVE  WinInv'
<1>1. ASSUME NEW w \in Open, hidden' = hidden \ {w}, Focus(w),
             UNCHANGED << waiting, drag, resize, run >>
      PROVE  WinInv'
  <2>1. wins' \in Seq(Ids) /\ IsInjective(wins') /\ Open' = Open
    BY <1>1, RaisedProps DEF WinInv, Focus, Open
  <2>2. /\ hidden' \subseteq Open /\ waiting' \subseteq Open \cap Chats /\ run' \in BOOLEAN
        /\ {drag', resize'} \subseteq Ids \cup {None}
        /\ drag' # None => drag' \in Open \ hidden'
    BY <1>1 DEF WinInv, DragIsOpen, Visible
  <2> QED BY <2>1, <2>2, SameWindowsKeep
<1>2. wins \in Seq(Ids) /\ IsInjective(wins) /\ ToSet(wins) = Open
  BY DEF WinInv, Open
<1>3. CASE OpenNew(wins, Ids \ Chats)
  <2> DEFINE kind == Ids \ Chats
  <2>1. kind \cap Chats = {} /\ kind \subseteq Ids /\ OpenNew(wins, kind)
    BY <1>3
  <2> HIDE DEF kind
  <2> QED BY <1>2, <2>1, OpenNewKeeps
<1>4. CASE Open \cap Chats = {} /\ OpenNew(wins, Chats)
  BY <1>2, <1>4, OpenNewKeeps, DesktopAssumption
<1>5. CASE \E w \in Open : /\ hidden' = hidden \ {w}
                           /\ Focus(w)
                           /\ UNCHANGED << waiting, drag, resize, run >>
  <2>1. PICK w \in Open : /\ hidden' = hidden \ {w}
                          /\ Focus(w)
                          /\ UNCHANGED << waiting, drag, resize, run >>
    BY <1>5
  <2> QED BY <1>1, <2>1
<1> QED BY <1>3, <1>4, <1>5 DEF OpenApp
-----------------------------------------------------------------------------
(* The handlers.  A menu stays about a window only while the order and what *)
(* is seen of it stay as they are.                                          *)
LEMMA MenuStays ==
  ASSUME MenuInv, UNCHANGED << wins, hidden, ctx_menu >>
  PROVE  MenuInv'
BY DEF MenuInv, Visible, Open, get_focused

LEMMA NoMenuIsFine ==
  ASSUME ctx_menu' = NoMenu \/ ctx_menu' = [kind |-> "other", win |-> None]
  PROVE  MenuInv'
BY DEF MenuInv, NoMenu

LEMMA ClickMenuKeeps ==
  ASSUME WinInv, MenuInv, ClickMenu
  PROVE  WinInv' /\ MenuInv'
<1>1. MenuInv'
  BY NoMenuIsFine DEF ClickMenu
<1> SUFFICES WinInv'
  BY <1>1
<1>2. CASE Nothing
  BY <1>2, NothingKeeps DEF Nothing
<1>3. CASE Close(ctx_menu.win)
  BY <1>3, CloseKeeps
<1>4. CASE ctx_menu.kind = "window" /\ Minimize(ctx_menu.win) /\ UNCHANGED wins
  <2>1. ctx_menu.win \in Open
    BY <1>4 DEF MenuInv, Visible
  <2> QED BY <1>4, <2>1, MinimizeKeeps
<1>5. CASE OpenApp
  BY <1>5, OpenAppKeeps
<1>6. CASE run' = FALSE /\ UNCHANGED << wins, hidden, waiting, drag, resize >>
  BY <1>6 DEF WinInv, OneChat, Open, DragIsOpen, Visible
<1> QED BY <1>2, <1>3, <1>4, <1>5, <1>6 DEF ClickMenu

LEMMA RightClickKeeps ==
  ASSUME WinInv, MenuInv, RightClick
  PROVE  WinInv' /\ MenuInv'
<1>1. UNCHANGED << hidden, waiting, drag, resize, run >>
  BY DEF RightClick
<1>2. CASE UNCHANGED wins /\ ctx_menu' = [kind |-> "other", win |-> None]
  <2>1. WinInv'
    BY <1>1, <1>2, NothingKeeps
  <2>2. MenuInv'
    BY <1>2, NoMenuIsFine
  <2> QED BY <2>1, <2>2
<1>3. CASE \E w \in Visible : wins' = ToFront(w) /\ ctx_menu' = [kind |-> "window", win |-> w]
  <2>1. PICK w \in Visible : wins' = ToFront(w) /\ ctx_menu' = [kind |-> "window", win |-> w]
    BY <1>3
  <2>2. w \in Open /\ wins \in Seq(Ids) /\ IsInjective(wins) /\ wins' = Raised(w)
    BY <2>1 DEF Visible, WinInv, ToFront
  <2>3. /\ wins' \in Seq(Ids) /\ IsInjective(wins') /\ ToSet(wins') = Open
        /\ wins'[Len(wins')] = w
    BY <2>2, RaisedProps
  <2>4. Open' = Open /\ Visible' = Visible
    BY <1>1, <2>3 DEF Open, Visible
  <2>5. WinInv'
    BY <1>1, <2>3, <2>4 DEF WinInv, OneChat, DragIsOpen
  <2>6. get_focused' = Frontmost(wins', Visible')
    BY DEF get_focused, Frontmost
  <2>7. Frontmost(wins', Visible) = w
    <3> DEFINE s == wins'
    <3>1. s \in Seq(Ids) /\ Visible \in SUBSET ToSet(s) /\ Visible # {} /\ s[Len(s)] = w
      BY <2>1, <2>3 DEF Visible
    <3> HIDE DEF s
    <3>2. s[Len(s)] \in Visible => Frontmost(s, Visible) = s[Len(s)]
      BY <3>1, FrontProps
    <3> QED BY <2>1, <3>1, <3>2 DEF s
  <2>8. MenuInv'
    <3>1. w \in Ids
      BY <2>2 DEF Open, ToSet
    <3> QED BY <2>1, <2>4, <2>6, <2>7, <3>1 DEF MenuInv
  <2> QED BY <2>5, <2>8
<1> QED BY <1>2, <1>3 DEF RightClick

(* Away from the menu: there is none, so nothing is asked of it.            *)
LEMMA ClickElsewhereKeeps ==
  ASSUME WinInv, MenuInv, ClickElsewhere
  PROVE  WinInv' /\ MenuInv'
<1>1. MenuInv'
  BY NoMenuIsFine DEF ClickElsewhere, LeftClick
<1> SUFFICES WinInv'
  BY <1>1
<1>2. CASE Nothing
  BY <1>2, NothingKeeps DEF Nothing
<1>3. CASE OpenApp
  BY <1>3, OpenAppKeeps
<1> QED BY <1>2, <1>3 DEF ClickElsewhere

LEMMA ClickWindowKeeps ==
  ASSUME WinInv, MenuInv, ClickWindow
  PROVE  WinInv' /\ MenuInv'
<1>1. MenuInv'
  BY NoMenuIsFine DEF ClickWindow, LeftClick
<1> SUFFICES WinInv'
  BY <1>1
<1>2. PICK w \in Visible :
       \/ Close(w)
       \/ Focus(w) /\ Minimize(w)
       \/ w \notin Chats /\ OpenNew(Raised(w), Ids \ Chats)
       \/ /\ Focus(w)
          /\ \/ resize' = w /\ UNCHANGED << drag, waiting >>
             \/ drag' = w /\ UNCHANGED << resize, waiting >>
             \/ /\ waiting' \in {waiting, waiting \cup ({w} \cap Chats)}
                /\ UNCHANGED << drag, resize >>
          /\ UNCHANGED << hidden, run >>
  BY DEF ClickWindow
<1>3. /\ w \in Open /\ w \in Ids /\ w \notin hidden
      /\ Raised(w) \in Seq(Ids) /\ IsInjective(Raised(w)) /\ ToSet(Raised(w)) = Open
  <2>1. w \in Open /\ w \notin hidden /\ wins \in Seq(Ids) /\ IsInjective(wins)
    BY DEF Visible, WinInv
  <2>2. w \in Ids
    BY <2>1 DEF Open, ToSet
  <2>3. Raised(w) \in Seq(Ids) /\ IsInjective(Raised(w)) /\ ToSet(Raised(w)) = Open
    BY <2>1, RaisedProps
  <2> QED BY <2>1, <2>2, <2>3
<1>4. CASE Close(w)
  BY <1>4, CloseKeeps
<1>5. CASE Focus(w) /\ Minimize(w)
  BY <1>3, <1>5, MinimizeKeeps
<1>6. CASE w \notin Chats /\ OpenNew(Raised(w), Ids \ Chats)
  <2> DEFINE kind == Ids \ Chats  order == Raised(w)
  <2>1. kind \cap Chats = {} /\ kind \subseteq Ids /\ OpenNew(order, kind)
    BY <1>6
  <2>2. order \in Seq(Ids) /\ IsInjective(order) /\ ToSet(order) = Open
    BY <1>3
  <2> HIDE DEF kind, order
  <2> QED BY <2>1, <2>2, OpenNewKeeps
<1>7. CASE /\ Focus(w)
           /\ \/ resize' = w /\ UNCHANGED << drag, waiting >>
              \/ drag' = w /\ UNCHANGED << resize, waiting >>
              \/ /\ waiting' \in {waiting, waiting \cup ({w} \cap Chats)}
                 /\ UNCHANGED << drag, resize >>
           /\ UNCHANGED << hidden, run >>
  <2>1. wins' \in Seq(Ids) /\ IsInjective(wins') /\ Open' = Open
    BY <1>3, <1>7 DEF Focus, Open
  <2>2. drag # None => drag \in Open \ hidden
    BY DEF WinInv, DragIsOpen, Visible
  <2>3. /\ hidden' \subseteq Open /\ waiting' \subseteq Open \cap Chats /\ run' \in BOOLEAN
        /\ {drag', resize'} \subseteq Ids \cup {None}
        /\ drag' # None => drag' \in Open \ hidden'
    BY <1>3, <1>7, <2>2 DEF WinInv
  <2> QED BY <2>1, <2>3, SameWindowsKeep
<1> QED BY <1>2, <1>4, <1>5, <1>6, <1>7

LEMMA KeyDownKeeps ==
  ASSUME WinInv, MenuInv, KeyDown
  PROVE  WinInv' /\ MenuInv'
<1>1. MenuInv'
  BY NoMenuIsFine DEF KeyDown
<1> SUFFICES WinInv'
  BY <1>1
<1>2. CASE Nothing
  BY <1>2, NothingKeeps DEF Nothing
<1>3. CASE Close(get_focused)
  BY <1>3, CloseKeeps
<1>4. CASE run' = FALSE /\ UNCHANGED << wins, hidden, waiting, drag, resize >>
  BY <1>4 DEF WinInv, OneChat, Open, DragIsOpen, Visible
<1>5. CASE /\ waiting' \in {waiting, waiting \cup ({get_focused} \cap Chats)}
           /\ UNCHANGED << wins, hidden, drag, resize, run >>
  <2>1. wins \in Seq(Ids) /\ Visible \in SUBSET ToSet(wins) /\ Open = ToSet(wins)
    BY DEF WinInv, Visible, Open
  <2>2. Visible # {} => Frontmost(wins, Visible) \in Visible
    BY <2>1, FrontProps
  <2>3. get_focused \in Open \cup {None}
    BY <2>1, <2>2, FocusedIsFront DEF Frontmost
  <2>4. {get_focused} \cap Chats \subseteq Open \cap Chats
    BY <2>3, DesktopAssumption
  <2> QED BY <1>5, <2>4 DEF WinInv, OneChat, Open, DragIsOpen, Visible
<1> QED BY <1>2, <1>3, <1>4, <1>5 DEF KeyDown

LEMMA DesktopKeeps ==
  ASSUME WinInv, MenuInv, [Next]_vars
  PROVE  WinInv' /\ MenuInv'
<1>1. ASSUME UNCHANGED << wins, hidden, waiting, drag, resize, run >>, UNCHANGED ctx_menu
      PROVE  WinInv' /\ MenuInv'
  BY <1>1, NothingKeeps, MenuStays
<1>2. CASE UNCHANGED vars
  BY <1>1, <1>2 DEF vars, desktop
<1>3. CASE Config \/ StartGui
  BY <1>1, <1>3 DEF Config, StartGui, desktop
<1>4. CASE \/ PollCopy \/ PollAdvance \/ ClickIgnored \/ NoEffect
           \/ Ask \/ NextFrame \/ LeaveLoop
  BY <1>1, <1>4 DEF PollCopy, PollAdvance, ClickIgnored, NoEffect, Ask, NextFrame, LeaveLoop,
                    desktop
<1>5. CASE InterruptDesktop
  BY <1>1, <1>5 DEF InterruptDesktop, desktop
<1>6. CASE ClickMenu
  BY <1>6, ClickMenuKeeps
<1>7. CASE RightClick
  BY <1>7, RightClickKeeps
<1>8. CASE ClickElsewhere
  BY <1>8, ClickElsewhereKeeps
<1>9. CASE ClickWindow
  BY <1>9, ClickWindowKeeps
<1>10. CASE KeyDown
  BY <1>10, KeyDownKeeps
<1>11. CASE MouseUp
  <2>1. WinInv'
    BY <1>11 DEF MouseUp, WinInv, OneChat, Open, DragIsOpen, Visible
  <2> QED BY <1>11, <2>1, MenuStays DEF MouseUp
<1>12. CASE Answered \/ SetUp
  <2>1. UNCHANGED << wins, hidden, drag, resize, run, ctx_menu >> /\ waiting' \subseteq waiting
    BY <1>12 DEF Answered, SetUp, Back
  <2>2. WinInv'
    BY <2>1 DEF WinInv, OneChat, Open, DragIsOpen, Visible
  <2> QED BY <2>1, <2>2, MenuStays
<1>13. CASE EndGui
  <2>1. /\ wins' = << >> /\ hidden' = {} /\ waiting' = {} /\ drag' = None /\ resize' = None
        /\ run' = TRUE /\ ctx_menu' = NoMenu
    BY <1>13 DEF EndGui
  <2>2. wins' \in Seq(Ids) /\ IsInjective(wins') /\ Open' = {}
    BY <2>1 DEF Open, ToSet, IsInjective
  <2>3. WinInv'
    BY <2>1, <2>2 DEF WinInv, OneChat, DragIsOpen
  <2> QED BY <2>1, <2>3, NoMenuIsFine
<1> QED BY <1>2, <1>3, <1>4, <1>5, <1>6, <1>7, <1>8, <1>9, <1>10, <1>11, <1>12, <1>13
        DEF Next, Loop, HandleEvent
-----------------------------------------------------------------------------
(* The ring, for any number of slots: the i-th event that waits is in slot  *)
(* At(q_tail, i).                                                           *)
At(t, i) == (t + i - 1) % EVENT_QUEUE_SIZE
Count(h, t) == (h + EVENT_QUEUE_SIZE - t) % EVENT_QUEUE_SIZE

LEMMA SizeFacts == EVENT_QUEUE_SIZE \in Nat /\ EVENT_QUEUE_SIZE >= 2
BY InputAssumption

LEMMA WrapCases ==
  ASSUME NEW n \in Nat \ {0}, NEW x \in Nat, x < 2 * n
  PROVE  x % n = IF x < n THEN x ELSE x - n
OBVIOUS

LEMMA AtCases ==
  ASSUME NEW t \in Slots, NEW i \in 1 .. EVENT_QUEUE_SIZE
  PROVE  /\ At(t, i) = IF t + i - 1 < EVENT_QUEUE_SIZE THEN t + i - 1
                       ELSE t + i - 1 - EVENT_QUEUE_SIZE
         /\ At(t, i) \in Slots
<1> DEFINE x == t + i - 1  n == EVENT_QUEUE_SIZE
<1>1. n \in Nat \ {0} /\ x \in Nat /\ x < 2 * n /\ x = t + i - 1 /\ t < n /\ i <= n
  BY SizeFacts DEF Slots
<1>2. At(t, i) = x % n
  BY DEF At
<1> HIDE DEF x, n
<1>3. x % n = IF x < n THEN x ELSE x - n
  BY <1>1, WrapCases
<1>4. (IF x < n THEN x ELSE x - n) \in 0 .. n - 1
  BY <1>1
<1> QED BY <1>1, <1>2, <1>3, <1>4 DEF x, n, Slots

LEMMA CountCases ==
  ASSUME NEW h \in Slots, NEW t \in Slots
  PROVE  /\ Count(h, t) = IF h >= t THEN h - t ELSE h + EVENT_QUEUE_SIZE - t
         /\ Count(h, t) \in 0 .. EVENT_QUEUE_SIZE - 1
<1> DEFINE n == EVENT_QUEUE_SIZE  x == h + n - t
<1>1. n \in Nat \ {0} /\ x \in Nat /\ x < 2 * n /\ x = h + n - t
      /\ t \in Nat /\ h \in Nat /\ t < n /\ h < n
  BY SizeFacts DEF Slots
<1>2. Count(h, t) = x % n
  BY DEF Count
<1> HIDE DEF x, n
<1>3. x % n = IF x < n THEN x ELSE x - n
  BY <1>1, WrapCases
<1>4. (IF x < n THEN x ELSE x - n) = IF h >= t THEN h - t ELSE h + n - t
  BY <1>1
<1>5. (IF h >= t THEN h - t ELSE h + n - t) \in 0 .. n - 1
  BY <1>1
<1> QED BY <1>2, <1>3, <1>4, <1>5 DEF n

LEMMA BehindCases ==
  ASSUME NEW i \in Slots
  PROVE  /\ Behind(i) = IF i + 1 = EVENT_QUEUE_SIZE THEN 0 ELSE i + 1
         /\ Behind(i) \in Slots
<1> DEFINE n == EVENT_QUEUE_SIZE  x == i + 1
<1>1. n \in Nat \ {0} /\ x \in Nat /\ x < 2 * n /\ x = i + 1 /\ x <= n /\ n >= 2
  BY SizeFacts DEF Slots
<1>2. Behind(i) = x % n
  BY DEF Behind
<1> HIDE DEF x, n
<1>3. x % n = IF x < n THEN x ELSE x - n
  BY <1>1, WrapCases
<1>4. (IF x < n THEN x ELSE x - n) = IF i + 1 = n THEN 0 ELSE i + 1
  BY <1>1
<1>5. (IF i + 1 = n THEN 0 ELSE i + 1) \in 0 .. n - 1
  BY <1>1
<1> QED BY <1>2, <1>3, <1>4, <1>5 DEF n, Slots

(* Putting in at the head moves nothing, and taking at the tail moves all   *)
(* by one.                                                                  *)
LEMMA PutMoves ==
  ASSUME NEW h \in Slots, NEW t \in Slots, Behind(h) # t
  PROVE  /\ Count(Behind(h), t) = Count(h, t) + 1
         /\ At(t, Count(h, t) + 1) = h
         /\ \A i \in 1 .. Count(h, t) : At(t, i) # h
<1>0. EVENT_QUEUE_SIZE \in Nat /\ EVENT_QUEUE_SIZE >= 2
  BY SizeFacts
<1>1. Behind(h) \in Slots /\ Behind(h) = IF h + 1 = EVENT_QUEUE_SIZE THEN 0 ELSE h + 1
  BY BehindCases
<1>2. /\ Count(h, t) = IF h >= t THEN h - t ELSE h + EVENT_QUEUE_SIZE - t
      /\ Count(h, t) \in 0 .. EVENT_QUEUE_SIZE - 1
  BY CountCases
<1>3. /\ Count(Behind(h), t) = IF Behind(h) >= t THEN Behind(h) - t
                                ELSE Behind(h) + EVENT_QUEUE_SIZE - t
  BY <1>1, CountCases
<1>4. \A i \in 1 .. EVENT_QUEUE_SIZE :
        At(t, i) = IF t + i - 1 < EVENT_QUEUE_SIZE THEN t + i - 1
                   ELSE t + i - 1 - EVENT_QUEUE_SIZE
  BY AtCases
<1> DEFINE c == Count(h, t)  b == Behind(h)  d == Count(b, t)  n == EVENT_QUEUE_SIZE
<1>5. /\ h \in 0 .. n - 1 /\ t \in 0 .. n - 1 /\ b # t /\ n \in Nat /\ n >= 2
      /\ b = IF h + 1 = n THEN 0 ELSE h + 1
      /\ c = IF h >= t THEN h - t ELSE h + n - t
      /\ d = IF b >= t THEN b - t ELSE b + n - t
  BY <1>0, <1>1, <1>2, <1>3 DEF Slots
<1>6. \A i \in 1 .. n : At(t, i) = IF t + i - 1 < n THEN t + i - 1 ELSE t + i - 1 - n
  BY <1>4
<1> HIDE DEF b, c, d, n
<1>7. d = c + 1 /\ c \in 0 .. n - 2
  BY <1>5
<1>8. At(t, c + 1) = h
  <2>1. c + 1 \in 1 .. n
    BY <1>5, <1>7
  <2>2. At(t, c + 1) = IF t + (c + 1) - 1 < n THEN t + (c + 1) - 1 ELSE t + (c + 1) - 1 - n
    BY <1>6, <2>1
  <2> QED BY <1>5, <1>7, <2>2
<1>9. ASSUME NEW i \in 1 .. c PROVE At(t, i) # h
  <2>1. At(t, i) = IF t + i - 1 < n THEN t + i - 1 ELSE t + i - 1 - n
    BY <1>5, <1>6, <1>7
  <2> QED BY <1>5, <1>7, <2>1
<1> QED BY <1>7, <1>8, <1>9 DEF b, c, d

LEMMA FullIs ==
  ASSUME NEW h \in Slots, NEW t \in Slots
  PROVE  Behind(h) = t <=> Count(h, t) = EVENT_QUEUE_SIZE - 1
<1>1. Behind(h) \in Slots /\ Behind(h) = IF h + 1 = EVENT_QUEUE_SIZE THEN 0 ELSE h + 1
  BY BehindCases
<1>2. Count(h, t) = IF h >= t THEN h - t ELSE h + EVENT_QUEUE_SIZE - t
  BY CountCases
<1> QED BY <1>1, <1>2, SizeFacts DEF Slots

LEMMA TakeMoves ==
  ASSUME NEW h \in Slots, NEW t \in Slots, h # t
  PROVE  /\ Count(h, t) >= 1 /\ At(t, 1) = t
         /\ Count(h, Behind(t)) = Count(h, t) - 1
         /\ \A i \in 1 .. Count(h, t) - 1 :
              At(Behind(t), i) = At(t, i + 1) /\ At(t, i + 1) # t
<1> DEFINE n == EVENT_QUEUE_SIZE  b == Behind(t)  c == Count(h, t)  d == Count(h, b)
<1>1. /\ n \in Nat /\ n >= 2 /\ h \in 0 .. n - 1 /\ t \in 0 .. n - 1 /\ h # t
      /\ b = IF t + 1 = n THEN 0 ELSE t + 1
      /\ b \in Slots
  BY SizeFacts, BehindCases DEF Slots
<1>2. c = (IF h >= t THEN h - t ELSE h + n - t) /\ d = (IF h >= b THEN h - b ELSE h + n - b)
  BY <1>1, CountCases
<1>3. \A i \in 1 .. n :
        /\ At(t, i) = IF t + i - 1 < n THEN t + i - 1 ELSE t + i - 1 - n
        /\ At(b, i) = IF b + i - 1 < n THEN b + i - 1 ELSE b + i - 1 - n
  BY <1>1, AtCases
<1> HIDE DEF b, c, d, n
<1>4. c \in 1 .. n - 1 /\ d = c - 1
  BY <1>1, <1>2
<1>5. At(t, 1) = t
  BY <1>1, <1>3
<1>6. ASSUME NEW i \in 1 .. c - 1 PROVE At(b, i) = At(t, i + 1) /\ At(t, i + 1) # t
  <2>1. i \in 1 .. n /\ i + 1 \in 1 .. n
    BY <1>1, <1>4
  <2>2. /\ At(b, i) = IF b + i - 1 < n THEN b + i - 1 ELSE b + i - 1 - n
        /\ At(t, i + 1) = IF t + (i + 1) - 1 < n THEN t + (i + 1) - 1 ELSE t + (i + 1) - 1 - n
    BY <1>3, <2>1
  <2> QED BY <1>1, <1>4, <2>2
<1> QED BY <1>4, <1>5, <1>6 DEF b, c, d
-----------------------------------------------------------------------------
(* What an interrupt puts in.                                               *)
Fates == [ToSet(Buttons) -> {"none", "MOUSE_DOWN", "MOUSE_UP"}]

NoGrab(es, now) ==
  \A i \in DOMAIN es : es[i].type = "MOUSE_DOWN" /\ es[i].code = "left" => "left" \in now

ToldUpTo(s, became, n) ==
  /\ s \in Seq(EventSet)
  /\ \A i \in DOMAIN s : s[i].type = "MOUSE_DOWN" => became[s[i].code] = "MOUSE_DOWN"
  /\ \A j \in 1 .. n : became[Buttons[j]] = "MOUSE_UP" => Releases(s)

LEMMA OneMore ==
  ASSUME NEW became \in Fates, NEW n \in 1 .. Len(Buttons), NEW s,
         ToldUpTo(s, became, n - 1)
  PROVE  ToldUpTo(IF became[Buttons[n]] = "none" THEN s
                  ELSE Append(s, News(Buttons[n], became[Buttons[n]])), became, n)
<1> DEFINE b == Buttons[n]  how == became[b]  e == News(b, how)  t == Append(s, e)
<1>1. b \in ToSet(Buttons) /\ Len(Buttons) \in Nat /\ n \in Nat
  BY InputAssumption DEF ToSet
<1>2. how \in {"none", "MOUSE_DOWN", "MOUSE_UP"}
  BY <1>1 DEF Fates
<1>3. s \in Seq(EventSet) /\ \A j \in 1 .. n : j \in 1 .. n - 1 \/ j = n
  BY <1>1 DEF ToldUpTo
<1>4. CASE how = "none"
  <2>1. ToldUpTo(s, became, n)
    BY <1>1, <1>3, <1>4 DEF ToldUpTo
  <2> QED BY <1>4, <2>1
<1>5. CASE how # "none"
  <2>1. e \in EventSet /\ e.type = how /\ (how = "MOUSE_DOWN" => e.code = b)
    BY <1>1, <1>2, <1>5 DEF News, Event, EventSet, Types, Codes
  <2> HIDE DEF e, how
  <2>2. /\ t \in Seq(EventSet) /\ DOMAIN t = 1 .. Len(s) + 1 /\ t[Len(s) + 1] = e
        /\ DOMAIN s = 1 .. Len(s) /\ Len(s) \in Nat
        /\ \A i \in 1 .. Len(s) : t[i] = s[i]
    BY <1>3, <2>1
  <2> HIDE DEF t
  <2>3. ASSUME NEW i \in DOMAIN t, t[i].type = "MOUSE_DOWN" PROVE became[t[i].code] = "MOUSE_DOWN"
    <3>1. CASE i \in 1 .. Len(s)
      BY <2>2, <2>3, <3>1 DEF ToldUpTo
    <3>2. CASE i = Len(s) + 1
      BY <2>1, <2>2, <2>3, <3>2 DEF how
    <3> QED BY <2>2, <3>1, <3>2
  <2>4. Releases(s) => Releases(t)
    BY <2>2 DEF Releases
  <2>5. how = "MOUSE_UP" => Releases(t)
    BY <2>1, <2>2 DEF Releases
  <2>6. ASSUME NEW j \in 1 .. n, became[Buttons[j]] = "MOUSE_UP" PROVE Releases(t)
    <3>1. CASE j \in 1 .. n - 1
      BY <2>4, <2>6, <3>1 DEF ToldUpTo
    <3>2. CASE j = n
      BY <2>5, <2>6, <3>2 DEF how
    <3> QED BY <1>3, <3>1, <3>2
  <2>7. ToldUpTo(t, became, n)
    BY <2>2, <2>3, <2>6 DEF ToldUpTo
  <2> QED BY <1>5, <2>7 DEF t, e, how
<1> QED BY <1>4, <1>5

LEMMA SaidIs ==
  ASSUME NEW became \in Fates
  PROVE  ToldUpTo(Said(became), became, Len(Buttons))
<1> DEFINE N == Len(Buttons)  D == Seq(EventSet)
           more(n, s) == IF became[Buttons[n]] = "none" THEN s
                         ELSE Append(s, News(Buttons[n], became[Buttons[n]]))
           step == [n \in 1 .. N |-> [s \in D |-> more(n, s)]]
           Eq(u) == u = [i \in 0 .. N |->
                           IF i = 0 THEN << >>
                           ELSE LET b == Buttons[i] IN
                                IF became[b] = "none" THEN u[i - 1]
                                ELSE Append(u[i - 1], News(b, became[b]))]
           upto == CHOOSE u : Eq(u)
<1>1. N \in Nat
  BY InputAssumption
<1>2. Said(became) = upto[N]
  BY DEF Said
<1>3. ASSUME NEW n \in 1 .. N, NEW s \in D PROVE more(n, s) \in D
  <2>1. Buttons[n] \in ToSet(Buttons)
    BY InputAssumption DEF ToSet
  <2>2. became[Buttons[n]] \in {"none", "MOUSE_DOWN", "MOUSE_UP"}
    BY <2>1 DEF Fates
  <2>3. became[Buttons[n]] # "none" => News(Buttons[n], became[Buttons[n]]) \in EventSet
    BY <2>1, <2>2 DEF News, Event, EventSet, Types, Codes
  <2> QED BY <2>3
<1>4. step \in [1 .. N -> Maps(D)]
  <2> HIDE DEF more, D, N
  <2> QED BY <1>3 DEF Maps
<1>5. \E u : Eq(u)
  <2>1. << >> \in D
    OBVIOUS
  <2>0. \E u : Folded(u, N, D, << >>, step)
    <3> HIDE DEF step, D, N
    <3> QED BY <1>1, <1>4, <2>1, FoldExists
  <2>2. PICK u \in [0 .. N -> D] :
          u = [n \in 0 .. N |-> IF n = 0 THEN << >> ELSE step[n][u[n - 1]]]
    <3> HIDE DEF step, D
    <3> QED BY <2>0 DEF Folded
  <2>3. ASSUME NEW n \in 0 .. N
        PROVE  (IF n = 0 THEN << >> ELSE step[n][u[n - 1]])
                 = (IF n = 0 THEN << >> ELSE more(n, u[n - 1]))
    <3>1. CASE n = 0
      BY <3>1
    <3>2. CASE n # 0
      <4>1. n \in 1 .. N /\ n - 1 \in 0 .. N
        BY <1>1, <3>2
      <4>2. u[n - 1] \in D
        BY <4>1
      <4> HIDE DEF more, D
      <4> QED BY <3>2, <4>1, <4>2
    <3> QED BY <3>1, <3>2
  <2>4. u = [n \in 0 .. N |-> IF n = 0 THEN << >> ELSE more(n, u[n - 1])]
    <3> HIDE DEF step, more, D
    <3> QED BY <2>2, <2>3
  <2>5. Eq(u)
    BY <2>4
  <2> QED BY <2>5
<1>6. Eq(upto)
  <2> HIDE DEF Eq
  <2> QED BY <1>5
<1> HIDE DEF upto
<1>7. upto[0] = << >> /\ \A n \in 1 .. N : upto[n] = more(n, upto[n - 1])
  <2>1. 0 \in 0 .. N /\ \A n \in 1 .. N : n \in 0 .. N /\ n # 0
    BY <1>1
  <2> QED BY <1>6, <2>1
<1> HIDE DEF Eq
<1> DEFINE S == {n \in Nat : n <= N => ToldUpTo(upto[n], became, n)}
<1>8. 0 \in S
  <2>1. ToldUpTo(<< >>, became, 0)
    BY DEF ToldUpTo
  <2> QED BY <1>7, <2>1
<1>9. ASSUME NEW n \in Nat, n \in S PROVE n + 1 \in S
  <2> SUFFICES ASSUME n + 1 <= N PROVE ToldUpTo(upto[n + 1], became, n + 1)
    OBVIOUS
  <2> DEFINE k == n + 1
  <2>1. k \in 1 .. N /\ k - 1 = n /\ n <= N
    BY <1>1
  <2>2. ToldUpTo(upto[n], became, n)
    BY <1>9, <2>1
  <2> HIDE DEF k, S
  <2>3. ToldUpTo(upto[k - 1], became, k - 1) /\ upto[k] = more(k, upto[k - 1])
    BY <1>7, <2>1, <2>2
  <2>4. ToldUpTo(more(k, upto[k - 1]), became, k)
    BY <2>1, <2>3, OneMore
  <2> QED BY <2>3, <2>4 DEF k
<1>10. N \in S
  <2> HIDE DEF S, N
  <2> QED BY <1>1, <1>8, <1>9, Induction
<1> QED BY <1>1, <1>2, <1>10

(* A packet says that the left button is released if it was held before,    *)
(* and that it is pressed only if it is held now.                           *)
LEMMA PacketSays ==
  ASSUME NEW now \in SUBSET ToSet(Buttons), NEW moved \in BOOLEAN, prev_btns \subseteq ToSet(Buttons)
  PROVE  /\ Moved(moved) \o Changes(now) \in Seq(EventSet)
         /\ Moved(moved) \o Changes(now) \in MouseBatches
         /\ "left" \in prev_btns \ now => Releases(Moved(moved) \o Changes(now))
         /\ NoGrab(Moved(moved) \o Changes(now), now)
<1> DEFINE became == [b \in ToSet(Buttons) |-> IF (b \in now) = (b \in prev_btns) THEN "none"
                                               ELSE IF b \in now THEN "MOUSE_DOWN" ELSE "MOUSE_UP"]
           s == Changes(now)  m == Moved(moved)  t == m \o s
<1>1. became \in Fates
  BY DEF Fates
<1>2. s = Said(became) /\ m \o Said(became) \in MouseBatches
  <2>1. s = Said(became)
    BY DEF Changes
  <2>2. became \in [ToSet(Buttons) -> {"none", "MOUSE_DOWN", "MOUSE_UP"}]
    BY <1>1 DEF Fates
  <2> HIDE DEF became
  <2> QED BY <2>1, <2>2 DEF MouseBatches
<1>3. ToldUpTo(s, became, Len(Buttons))
  <2> HIDE DEF became
  <2> QED BY <1>1, <1>2, SaidIs
<1>4. s \in Seq(EventSet) /\ DOMAIN s = 1 .. Len(s) /\ Len(s) \in Nat
  BY <1>3 DEF ToldUpTo
<1>5. /\ m \in Seq(EventSet) /\ DOMAIN m = 1 .. Len(m) /\ Len(m) \in Nat
      /\ \A i \in 1 .. Len(m) : m[i].type = "MOUSE_MOVE"
  <2>1. Event("MOUSE_MOVE", "none") \in EventSet /\ Event("MOUSE_MOVE", "none").type = "MOUSE_MOVE"
    BY DEF Event, EventSet, Types, Codes
  <2> DEFINE e == Event("MOUSE_MOVE", "none")
  <2>2. m = << >> \/ m = << e >>
    BY DEF Moved
  <2> HIDE DEF e, m
  <2>3. CASE m = << >>
    BY <2>3
  <2>4. CASE m = << e >>
    BY <2>1, <2>4 DEF e
  <2> QED BY <2>2, <2>3, <2>4
<1>6. \A i \in DOMAIN s : s[i] \in EventSet
  BY <1>4
<1> HIDE DEF s, m, became
<1>7. /\ t \in Seq(EventSet) /\ DOMAIN t = 1 .. Len(m) + Len(s)
      /\ \A i \in 1 .. Len(m) : t[i] = m[i]
      /\ \A i \in 1 .. Len(s) : t[Len(m) + i] = s[i]
  BY <1>4, <1>5
<1> HIDE DEF t
<1>8. "left" \in ToSet(Buttons)
  BY InputAssumption
<1>9. ASSUME "left" \in prev_btns \ now PROVE Releases(t)
  <2>1. became["left"] = "MOUSE_UP"
    BY <1>8, <1>9 DEF became
  <2>2. PICK j \in 1 .. Len(Buttons) : Buttons[j] = "left"
    BY <1>8, InputAssumption DEF ToSet
  <2>3. Releases(s)
    BY <1>3, <2>1, <2>2 DEF ToldUpTo
  <2>4. PICK i \in 1 .. Len(s) : s[i].type = "MOUSE_UP"
    BY <1>4, <2>3 DEF Releases
  <2>5. Len(m) + i \in DOMAIN t /\ t[Len(m) + i].type = "MOUSE_UP"
    BY <1>4, <1>5, <1>7, <2>4
  <2> QED BY <2>5 DEF Releases
<1>10. NoGrab(t, now)
  <2> SUFFICES ASSUME NEW i \in DOMAIN t, t[i].type = "MOUSE_DOWN", t[i].code = "left"
               PROVE  "left" \in now
    BY DEF NoGrab
  <2>1. CASE i \in 1 .. Len(m)
    BY <1>5, <1>7, <2>1
  <2>2. CASE i \notin 1 .. Len(m)
    <3>1. i - Len(m) \in 1 .. Len(s) /\ Len(m) + (i - Len(m)) = i
      BY <1>4, <1>5, <1>7, <2>2
    <3>2. s[i - Len(m)] = t[i]
      BY <1>7, <3>1
    <3>3. became["left"] = "MOUSE_DOWN"
      BY <1>3, <1>4, <3>1, <3>2 DEF ToldUpTo
    <3> QED BY <1>8, <3>3 DEF became
  <2> QED BY <2>1, <2>2
<1> QED BY <1>2, <1>7, <1>9, <1>10 DEF t, m, s
-----------------------------------------------------------------------------
(* Pushing a batch: what fits goes behind what waits, and a release is put  *)
(* in or noted as lost.                                                     *)
Rings == [slots : [Slots -> EventSet \cup {NoEvent}], head : Slots, unheard : BOOLEAN]
Waits == Count(q_head, q_tail)
IsUp(e) == e.type = "MOUSE_UP"

Stored(r, batch, k, m) ==
  /\ r \in Rings /\ m \in 0 .. k
  /\ Count(r.head, q_tail) = Waits + m
  /\ \A i \in 1 .. Waits : r.slots[At(q_tail, i)] = queue[At(q_tail, i)]
  /\ \A i \in 1 .. m : r.slots[At(q_tail, Waits + i)] = batch[i]
  /\ m = k \/ Count(r.head, q_tail) = EVENT_QUEUE_SIZE - 1
  /\ (unheard \/ \E i \in 1 .. k : IsUp(batch[i])) =>
       (r.unheard \/ \E i \in 1 .. m : IsUp(batch[i]))

RingOK == queue \in [Slots -> EventSet \cup {NoEvent}] /\ q_head \in Slots /\ q_tail \in Slots

LEMMA StoreFull ==
  ASSUME RingOK, NEW batch \in Seq(EventSet), NEW k \in 0 .. Len(batch) - 1, NEW m \in Nat, NEW r,
         Stored(r, batch, k, m), IsFull(r)
  PROVE  Stored(Put(r, batch[k + 1]), batch, k + 1, m)
<1> DEFINE e == batch[k + 1]  p == Put(r, e)
<1>1. r \in Rings /\ m \in 0 .. k /\ q_tail \in Slots /\ k \in Nat
  BY DEF Stored, RingOK
<1>2. p = [r EXCEPT !.unheard = @ \/ e.type = "MOUSE_UP"]
  BY DEF Put
<1>3. p.slots = r.slots /\ p.head = r.head /\ p.unheard = (r.unheard \/ IsUp(e)) /\ p \in Rings
  BY <1>1, <1>2 DEF Rings, IsUp
<1>4. Count(r.head, q_tail) = EVENT_QUEUE_SIZE - 1
  BY <1>1, FullIs DEF IsFull, Rings
<1>5. ASSUME unheard \/ \E i \in 1 .. k + 1 : IsUp(batch[i])
      PROVE  p.unheard \/ \E i \in 1 .. m : IsUp(batch[i])
  <2>1. CASE IsUp(e)
    BY <1>3, <2>1
  <2>2. CASE ~IsUp(e)
    <3>1. \A i \in 1 .. k + 1 : i \in 1 .. k \/ i = k + 1
      BY <1>1
    <3>2. unheard \/ \E i \in 1 .. k : IsUp(batch[i])
      BY <1>5, <2>2, <3>1
    <3> QED BY <1>3, <3>2 DEF Stored
  <2> QED BY <2>1, <2>2
<1> HIDE DEF p, e
<1>6. m \in 0 .. k + 1
  BY <1>1
<1>7. Stored(p, batch, k + 1, m)
  BY <1>3, <1>4, <1>5, <1>6 DEF Stored
<1> QED BY <1>7 DEF p, e

LEMMA StoreOne ==
  ASSUME RingOK, NEW batch \in Seq(EventSet), NEW k \in 0 .. Len(batch) - 1, NEW m \in Nat, NEW r,
         Stored(r, batch, k, m), ~IsFull(r)
  PROVE  Stored(Put(r, batch[k + 1]), batch, k + 1, m + 1)
<1> DEFINE e == batch[k + 1]  p == Put(r, e)
<1>1. r \in Rings /\ m \in 0 .. k /\ q_tail \in Slots /\ q_head \in Slots /\ k \in Nat
  BY DEF Stored, RingOK
<1>2. p = [slots |-> [r.slots EXCEPT ![r.head] = e], head |-> Behind(r.head),
           unheard |-> r.unheard /\ e.type # "MOUSE_UP"]
  BY DEF Put
<1>3. e \in EventSet
  <2>1. k + 1 \in 1 .. Len(batch)
    BY <1>1
  <2> QED BY <2>1
<1> DEFINE h == r.head  sl == r.slots
<1>4. h \in Slots /\ sl \in [Slots -> EventSet \cup {NoEvent}] /\ r.unheard \in BOOLEAN
  BY <1>1 DEF Rings
<1>5. Behind(h) \in Slots /\ Behind(h) # q_tail
  BY <1>4, BehindCases DEF IsFull
<1>6. /\ Count(Behind(h), q_tail) = Count(h, q_tail) + 1
      /\ At(q_tail, Count(h, q_tail) + 1) = h
      /\ \A i \in 1 .. Count(h, q_tail) : At(q_tail, i) # h
  <2> HIDE DEF h
  <2> QED BY <1>1, <1>4, <1>5, PutMoves
<1>7. Count(h, q_tail) = Waits + m /\ Waits \in Nat
  BY <1>1, CountCases DEF Stored, Waits
<1>8. /\ p.slots = [sl EXCEPT ![h] = e] /\ p.head = Behind(h)
      /\ p.unheard = (r.unheard /\ ~IsUp(e))
  BY <1>2 DEF IsUp
<1>9. p \in Rings
  BY <1>2, <1>3, <1>4, <1>5 DEF Rings
<1>10. /\ k = m
       /\ \A i \in 1 .. Waits : sl[At(q_tail, i)] = queue[At(q_tail, i)]
       /\ \A i \in 1 .. m : sl[At(q_tail, Waits + i)] = batch[i]
       /\ (unheard \/ \E i \in 1 .. k : IsUp(batch[i])) =>
            (r.unheard \/ \E i \in 1 .. m : IsUp(batch[i]))
  BY <1>1, <1>4, FullIs DEF Stored, IsFull
<1> HIDE DEF p, e, h, sl
<1>11. ASSUME NEW i \in 1 .. Waits PROVE p.slots[At(q_tail, i)] = queue[At(q_tail, i)]
  <2>1. i \in 1 .. Count(h, q_tail)
    BY <1>1, <1>7
  <2> QED BY <1>4, <1>6, <1>8, <1>10, <2>1
<1>12. ASSUME NEW i \in 1 .. m + 1 PROVE p.slots[At(q_tail, Waits + i)] = batch[i]
  <2>1. CASE i \in 1 .. m
    <3>1. Waits + i \in 1 .. Count(h, q_tail)
      BY <1>1, <1>7, <2>1
    <3>2. p.slots[At(q_tail, Waits + i)] = sl[At(q_tail, Waits + i)]
      BY <1>4, <1>6, <1>8, <3>1
    <3> QED BY <1>10, <2>1, <3>2
  <2>2. CASE i = m + 1
    <3>1. Waits + i = Count(h, q_tail) + 1
      BY <1>1, <1>7, <2>2
    <3>2. p.slots[At(q_tail, Waits + i)] = e
      BY <1>4, <1>6, <1>8, <3>1
    <3> QED BY <1>10, <2>2, <3>2 DEF e
  <2> QED BY <1>1, <2>1, <2>2
<1>13. ASSUME unheard \/ \E i \in 1 .. k + 1 : IsUp(batch[i])
       PROVE  p.unheard \/ \E i \in 1 .. m + 1 : IsUp(batch[i])
  <2>1. CASE IsUp(e)
    <3>1. m + 1 \in 1 .. m + 1
      BY <1>1
    <3> QED BY <1>10, <2>1, <3>1 DEF e
  <2>2. CASE ~IsUp(e)
    <3>1. \A i \in 1 .. k + 1 : i \in 1 .. k \/ i = k + 1
      BY <1>1
    <3>2. \A i \in 1 .. m : i \in 1 .. m + 1
      BY <1>1
    <3>3. unheard \/ \E i \in 1 .. k : IsUp(batch[i])
      BY <1>13, <2>2, <3>1 DEF e
    <3>4. r.unheard \/ \E i \in 1 .. m : IsUp(batch[i])
      BY <1>10, <3>3
    <3> QED BY <1>8, <2>2, <3>2, <3>4
  <2> QED BY <2>1, <2>2
<1>14. Count(p.head, q_tail) = Waits + (m + 1) /\ m + 1 \in 0 .. k + 1 /\ m + 1 = k + 1
  BY <1>1, <1>6, <1>7, <1>8, <1>10
<1>15. Stored(p, batch, k + 1, m + 1)
  BY <1>9, <1>11, <1>12, <1>13, <1>14 DEF Stored
<1> QED BY <1>15 DEF p, e

LEMMA StoredSome ==
  ASSUME RingOK, NEW batch \in Seq(EventSet), NEW k \in 0 .. Len(batch) - 1, NEW r,
         \E m \in Nat : Stored(r, batch, k, m)
  PROVE  \E m \in Nat : Stored(Put(r, batch[k + 1]), batch, k + 1, m)
<1>1. PICK m \in Nat : Stored(r, batch, k, m)
  OBVIOUS
<1>2. m + 1 \in Nat
  OBVIOUS
<1> QED BY <1>1, <1>2, StoreFull, StoreOne

LEMMA PutType ==
  ASSUME NEW r \in Rings, NEW e \in EventSet
  PROVE  Put(r, e) \in Rings
<1>1. /\ r.head \in Slots /\ r.slots \in [Slots -> EventSet \cup {NoEvent}]
      /\ r.unheard \in BOOLEAN
  BY DEF Rings
<1>2. Behind(r.head) \in Slots
  BY <1>1, BehindCases
<1>3. [slots |-> [r.slots EXCEPT ![r.head] = e], head |-> Behind(r.head),
       unheard |-> r.unheard /\ e.type # "MOUSE_UP"] \in Rings
  BY <1>1, <1>2 DEF Rings
<1>4. [r EXCEPT !.unheard = @ \/ e.type = "MOUSE_UP"] \in Rings
  BY <1>1 DEF Rings
<1> QED BY <1>3, <1>4 DEF Put

LEMMA PushStores ==
  ASSUME RingOK, unheard \in BOOLEAN, NEW batch \in Seq(EventSet), Push(batch)
  PROVE  \E r \in Rings, m \in Nat :
           /\ Stored(r, batch, Len(batch), m)
           /\ queue' = r.slots /\ q_head' = r.head /\ unheard' = r.unheard
<1> DEFINE N == Len(batch)
           now == [slots |-> queue, head |-> q_head, unheard |-> unheard]
           step == [n \in 1 .. N |-> [r \in Rings |-> Put(r, batch[n])]]
           Eq(u) == u = [i \in 0 .. N |-> IF i = 0 THEN now ELSE Put(u[i - 1], batch[i])]
           after == CHOOSE u : Eq(u)
<1>1. N \in Nat /\ \A n \in 1 .. N : batch[n] \in EventSet
  OBVIOUS
<1>2. queue' = after[N].slots /\ q_head' = after[N].head /\ unheard' = after[N].unheard
  BY DEF Push
<1>3. now \in Rings
  BY DEF Rings, RingOK
<1>4. step \in [1 .. N -> Maps(Rings)]
  <2> HIDE DEF N
  <2> QED BY <1>1, PutType DEF Maps
<1>5. \E u : Eq(u)
  <2>1. \E u : Folded(u, N, Rings, now, step)
    <3> HIDE DEF step, N, now
    <3> QED BY <1>1, <1>3, <1>4, FoldExists
  <2>2. PICK u \in [0 .. N -> Rings] :
          u = [n \in 0 .. N |-> IF n = 0 THEN now ELSE step[n][u[n - 1]]]
    <3> HIDE DEF step, now
    <3> QED BY <2>1 DEF Folded
  <2>3. ASSUME NEW n \in 0 .. N
        PROVE  (IF n = 0 THEN now ELSE step[n][u[n - 1]])
                 = (IF n = 0 THEN now ELSE Put(u[n - 1], batch[n]))
    <3>1. CASE n = 0
      BY <3>1
    <3>2. CASE n # 0
      <4>1. n \in 1 .. N /\ n - 1 \in 0 .. N
        BY <1>1, <3>2
      <4>2. u[n - 1] \in Rings
        BY <4>1
      <4> HIDE DEF now
      <4> QED BY <3>2, <4>1, <4>2
    <3> QED BY <3>1, <3>2
  <2>4. Eq(u)
    <3> HIDE DEF step, now
    <3> QED BY <2>2, <2>3
  <2> QED BY <2>4
<1>6. Eq(after)
  <2> HIDE DEF Eq
  <2> QED BY <1>5
<1> HIDE DEF after
<1>7. after[0] = now /\ \A n \in 1 .. N : after[n] = Put(after[n - 1], batch[n])
  <2>1. 0 \in 0 .. N /\ \A n \in 1 .. N : n \in 0 .. N /\ n # 0
    BY <1>1
  <2> HIDE DEF now
  <2> QED BY <1>6, <2>1
<1> HIDE DEF Eq
<1> DEFINE S == {k \in Nat : k <= N => \E m \in Nat : Stored(after[k], batch, k, m)}
<1>8. 0 \in S
  <2>1. Stored(now, batch, 0, 0)
    <3>1. Waits \in Nat
      BY CountCases DEF Waits, RingOK
    <3> QED BY <1>3, <3>1 DEF Stored, Waits
  <2> HIDE DEF now
  <2> QED BY <1>7, <2>1
<1>9. ASSUME NEW k \in Nat, k \in S PROVE k + 1 \in S
  <2> SUFFICES ASSUME k + 1 <= N PROVE \E m \in Nat : Stored(after[k + 1], batch, k + 1, m)
    OBVIOUS
  <2>1. k \in 0 .. N - 1 /\ k <= N /\ k + 1 \in 1 .. N /\ (k + 1) - 1 = k
    BY <1>1
  <2>2. \E m \in Nat : Stored(after[k], batch, k, m)
    BY <1>9, <2>1
  <2> DEFINE a == after[k]
  <2>3. after[k + 1] = Put(a, batch[k + 1])
    BY <1>7, <2>1
  <2> HIDE DEF a, S
  <2>4. \E m \in Nat : Stored(Put(a, batch[k + 1]), batch, k + 1, m)
    BY <2>1, <2>2, StoredSome DEF a
  <2> QED BY <2>3, <2>4
<1>10. N \in S
  <2> HIDE DEF S, N
  <2> QED BY <1>1, <1>8, <1>9, Induction
<1>11. \E m \in Nat : Stored(after[N], batch, N, m)
  BY <1>1, <1>10
<1>12. after[N] \in Rings
  BY <1>11 DEF Stored
<1> QED BY <1>2, <1>11, <1>12
-----------------------------------------------------------------------------
(* What is still to be read, as a sequence.                                 *)
Stuff == EventSet \cup {NoEvent}
Held(q, h, t) == [i \in 1 .. Count(h, t) |-> q[At(t, i)]]
Left(q, h, t, took) == IF took THEN Tail(Held(q, h, t)) ELSE Held(q, h, t)
Skip(took) == IF took THEN 1 ELSE 0

LEMMA UnreadIsLeft == Unread = Left(queue, q_head, q_tail, at = "took")
BY DEF Unread, Left, Held, Contents, Count, At

LEMMA UnreadNextIsLeft == Unread' = Left(queue', q_head', q_tail', at' = "took")
BY DEF Unread, Left, Held, Contents, Count, At

LEMMA LeftProps ==
  ASSUME NEW q \in [Slots -> Stuff], NEW h \in Slots, NEW t \in Slots, NEW took \in BOOLEAN,
         took => Count(h, t) >= 1
  PROVE  /\ Left(q, h, t, took) \in Seq(Stuff)
         /\ Len(Left(q, h, t, took)) = Count(h, t) - Skip(took)
         /\ Count(h, t) - Skip(took) \in 0 .. EVENT_QUEUE_SIZE - 1
         /\ \A i \in 1 .. Count(h, t) - Skip(took) :
              Left(q, h, t, took)[i] = q[At(t, i + Skip(took))]
<1> DEFINE c == Count(h, t)  s == Held(q, h, t)
<1>1. c \in 0 .. EVENT_QUEUE_SIZE - 1 /\ EVENT_QUEUE_SIZE \in Nat /\ c \in Nat
  BY CountCases, SizeFacts
<1>2. \A i \in 1 .. c : At(t, i) \in Slots
  BY <1>1, AtCases
<1>3. s = [i \in 1 .. c |-> q[At(t, i)]]
  BY DEF Held
<1> HIDE DEF c, s
<1>4. s \in Seq(Stuff) /\ Len(s) = c /\ \A i \in 1 .. c : s[i] = q[At(t, i)]
  BY <1>1, <1>2, <1>3
<1>5. CASE ~took
  <2>1. Left(q, h, t, took) = s /\ Skip(took) = 0
    BY <1>5 DEF Left, Skip, s
  <2> QED BY <1>1, <1>4, <2>1 DEF c
<1>6. CASE took
  <2>1. Left(q, h, t, took) = Tail(s) /\ Skip(took) = 1 /\ c >= 1
    BY <1>6 DEF Left, Skip, s, c
  <2>2. /\ Tail(s) \in Seq(Stuff) /\ Len(Tail(s)) = c - 1
        /\ \A i \in 1 .. c - 1 : Tail(s)[i] = s[i + 1]
    BY <1>1, <1>4, <2>1
  <2>3. \A i \in 1 .. c - 1 : i + 1 \in 1 .. c
    BY <1>1
  <2> QED BY <1>1, <1>4, <2>1, <2>2, <2>3 DEF c
<1> QED BY <1>5, <1>6

PlaceInv ==
  /\ RingOK /\ unheard \in BOOLEAN /\ gui_mode \in BOOLEAN /\ burst \in 0 .. MAX_BURST
  /\ mouse_btns \subseteq ToSet(Buttons) /\ prev_btns \subseteq ToSet(Buttons)
  /\ at \in Places /\ got \in Stuff
  /\ at = "took" => Waits >= 1
  /\ at \notin {"took", "handle"} => got = NoEvent

(* More has come: of the batch, what fits.                                  *)
Extends(batch, m) ==
  /\ m \in 0 .. Len(batch)
  /\ Unread' \in Seq(Stuff) /\ Len(Unread') = Len(Unread) + m
  /\ \A i \in 1 .. Len(Unread) : Unread'[i] = Unread[i]
  /\ \A i \in 1 .. m : Unread'[Len(Unread) + i] = batch[i]
  /\ m = Len(batch) \/ Len(Unread') >= EVENT_QUEUE_SIZE - 2
  /\ Len(Unread') < EVENT_QUEUE_SIZE
  /\ unheard \/ Releases(batch) => unheard' \/ \E i \in 1 .. m : IsUp(batch[i])

LEMMA UnreadType ==
  ASSUME PlaceInv
  PROVE  /\ Unread \in Seq(Stuff) /\ Len(Unread) = Waits - Skip(at = "took")
         /\ \A i \in 1 .. Len(Unread) : Unread[i] = queue[At(q_tail, i + Skip(at = "took"))]
<1> DEFINE took == at = "took"
<1>1. /\ queue \in [Slots -> Stuff] /\ q_head \in Slots /\ q_tail \in Slots
      /\ took \in BOOLEAN /\ (took => Count(q_head, q_tail) >= 1)
  BY DEF PlaceInv, RingOK, Stuff, Waits
<1>2. Unread = Left(queue, q_head, q_tail, took)
  BY UnreadIsLeft
<1> HIDE DEF took
<1>3. /\ Left(queue, q_head, q_tail, took) \in Seq(Stuff)
      /\ Len(Left(queue, q_head, q_tail, took)) = Count(q_head, q_tail) - Skip(took)
      /\ \A i \in 1 .. Count(q_head, q_tail) - Skip(took) :
           Left(queue, q_head, q_tail, took)[i] = queue[At(q_tail, i + Skip(took))]
  BY <1>1, LeftProps
<1> QED BY <1>2, <1>3 DEF took, Waits

LEMMA PushExtends ==
  ASSUME PlaceInv, NEW batch \in Seq(EventSet), Push(batch), UNCHANGED << q_tail, at >>
  PROVE  /\ RingOK' /\ unheard' \in BOOLEAN /\ (at = "took" => Waits' >= 1)
         /\ \E m \in Nat : Extends(batch, m)
<1>1. RingOK /\ unheard \in BOOLEAN /\ (at = "took" => Waits >= 1)
  BY DEF PlaceInv
<1>2. PICK r \in Rings, m \in Nat :
        /\ Stored(r, batch, Len(batch), m)
        /\ queue' = r.slots /\ q_head' = r.head /\ unheard' = r.unheard
  BY <1>1, PushStores DEF PlaceInv
<1> DEFINE o == Skip(at = "took")
<1>3. /\ queue' \in [Slots -> Stuff] /\ q_head' \in Slots /\ q_tail' = q_tail /\ q_tail \in Slots
      /\ unheard' \in BOOLEAN
  BY <1>1, <1>2 DEF Rings, RingOK, Stuff
<1>4. /\ Waits' = Waits + m /\ Waits' = Count(q_head', q_tail)
      /\ m \in 0 .. Len(batch) /\ Waits \in Nat
      /\ \A i \in 1 .. Waits : queue'[At(q_tail, i)] = queue[At(q_tail, i)]
      /\ \A i \in 1 .. m : queue'[At(q_tail, Waits + i)] = batch[i]
      /\ m = Len(batch) \/ Waits' = EVENT_QUEUE_SIZE - 1
      /\ unheard \/ Releases(batch) => unheard' \/ \E i \in 1 .. m : IsUp(batch[i])
  <2>1. Waits' = Count(q_head', q_tail')
    BY DEF Waits, Count
  <2>2. Waits \in Nat
    BY <1>1, CountCases DEF Waits, RingOK
  <2>3. Releases(batch) => \E i \in 1 .. Len(batch) : IsUp(batch[i])
    BY DEF Releases, IsUp
  <2> QED BY <1>2, <1>3, <2>1, <2>2, <2>3 DEF Stored
<1>5. /\ Unread' \in Seq(Stuff) /\ Len(Unread') = Waits' - o
      /\ Waits' - o \in 0 .. EVENT_QUEUE_SIZE - 1
      /\ \A i \in 1 .. Waits' - o : Unread'[i] = queue'[At(q_tail, i + o)]
  <2> DEFINE took == at = "took"  q == queue'  h == q_head'
  <2>1. /\ q \in [Slots -> Stuff] /\ h \in Slots /\ q_tail \in Slots
        /\ took \in BOOLEAN /\ (took => Count(h, q_tail) >= 1)
    BY <1>1, <1>3, <1>4
  <2>2. Unread' = Left(q, h, q_tail, took) /\ o = Skip(took) /\ Waits' = Count(h, q_tail)
    BY <1>4, UnreadNextIsLeft
  <2> HIDE DEF took, q, h, o
  <2>3. /\ Left(q, h, q_tail, took) \in Seq(Stuff)
        /\ Len(Left(q, h, q_tail, took)) = Count(h, q_tail) - Skip(took)
        /\ Count(h, q_tail) - Skip(took) \in 0 .. EVENT_QUEUE_SIZE - 1
        /\ \A i \in 1 .. Count(h, q_tail) - Skip(took) :
             Left(q, h, q_tail, took)[i] = q[At(q_tail, i + Skip(took))]
    BY <2>1, LeftProps
  <2> QED BY <2>2, <2>3 DEF q
<1>6. /\ Len(Unread) = Waits - o /\ Len(Unread) \in Nat
      /\ \A i \in 1 .. Len(Unread) : Unread[i] = queue[At(q_tail, i + o)]
  BY UnreadType
<1>7. o \in 0 .. 1 /\ (o = 1 => Waits >= 1)
  BY <1>1 DEF Skip
<1> HIDE DEF o
<1>8. Len(Unread') = Len(Unread) + m
  BY <1>4, <1>5, <1>6, <1>7
<1>9. ASSUME NEW i \in 1 .. Len(Unread) PROVE Unread'[i] = Unread[i]
  <2>1. i + o \in 1 .. Waits /\ i \in 1 .. Waits' - o
    BY <1>4, <1>6, <1>7
  <2> QED BY <1>4, <1>5, <1>6, <2>1
<1>10. ASSUME NEW i \in 1 .. m PROVE Unread'[Len(Unread) + i] = batch[i]
  <2>1. Len(Unread) + i + o = Waits + i /\ Len(Unread) + i \in 1 .. Waits' - o
    BY <1>4, <1>6, <1>7
  <2>2. Unread'[Len(Unread) + i] = queue'[At(q_tail, Len(Unread) + i + o)]
    BY <1>5, <2>1
  <2> QED BY <1>4, <2>1, <2>2
<1>11. Extends(batch, m)
  <2>1. m = Len(batch) \/ Len(Unread') >= EVENT_QUEUE_SIZE - 2
    BY <1>4, <1>5, <1>7, SizeFacts
  <2>2. Len(Unread') < EVENT_QUEUE_SIZE
    BY <1>5, SizeFacts
  <2> QED BY <1>4, <1>5, <1>8, <1>9, <1>10, <2>1, <2>2 DEF Extends
<1>12. at = "took" => Waits' >= 1
  BY <1>1, <1>4
<1>13. RingOK'
  BY <1>3 DEF RingOK, Stuff, Slots
<1> QED BY <1>3, <1>11, <1>12, <1>13
(* What an interrupt does to the reader: nothing, or it adds a batch.       *)
Arrives(batch) ==
  /\ batch \in Seq(EventSet) /\ batch \in AllBatches /\ Push(batch)
  /\ NoGrab(batch, prev_btns')
  /\ "left" \in prev_btns \ prev_btns' => Releases(batch)

LEMMA InterruptIs ==
  ASSUME PlaceInv, InterruptDesktop
  PROVE  /\ UNCHANGED << at, got, desktop, q_tail, gui_mode >> /\ burst' \in 0 .. MAX_BURST
         /\ mouse_btns' \subseteq ToSet(Buttons) /\ prev_btns' \subseteq ToSet(Buttons)
         /\ \/ UNCHANGED << queue, q_head, unheard, prev_btns >>
            \/ \E batch : Arrives(batch)
<1>0. prev_btns \subseteq ToSet(Buttons) /\ mouse_btns \subseteq ToSet(Buttons)
      /\ burst \in 0 .. MAX_BURST /\ MAX_BURST \in Nat
  BY InputAssumption DEF PlaceInv
<1>1. ASSUME NEW batch, batch \in KeyBatches, Push(batch), UNCHANGED prev_btns
      PROVE  Arrives(batch)
  <2>1. PICK e \in EventSet : batch = << e >> /\ e.type \in {"KEY_DOWN", "KEY_UP"}
    <3>1. \A k \in Keys : Event("KEY_DOWN", k) \in EventSet /\ Event("KEY_DOWN", k).type = "KEY_DOWN"
      BY DEF Event, EventSet, Types, Codes
    <3>2. Event("KEY_UP", "none") \in EventSet /\ Event("KEY_UP", "none").type = "KEY_UP"
      BY DEF Event, EventSet, Types, Codes
    <3> QED BY <1>1, <3>1, <3>2 DEF KeyBatches
  <2>2. batch \in Seq(EventSet) /\ DOMAIN batch = {1} /\ batch[1] = e
    BY <2>1
  <2>3. NoGrab(batch, prev_btns')
    BY <2>1, <2>2 DEF NoGrab
  <2> QED BY <1>1, <2>2, <2>3 DEF Arrives, AllBatches
<1>2. ASSUME NEW now \in SUBSET ToSet(Buttons), NEW moved \in BOOLEAN, NEW overflow \in BOOLEAN,
             MousePacket(now, moved, overflow), UNCHANGED << at, got, desktop >>
      PROVE  /\ UNCHANGED << at, got, desktop, q_tail, gui_mode >> /\ burst' \in 0 .. MAX_BURST
             /\ mouse_btns' \subseteq ToSet(Buttons) /\ prev_btns' \subseteq ToSet(Buttons)
             /\ \/ UNCHANGED << queue, q_head, unheard, prev_btns >>
                \/ \E batch : Arrives(batch)
  <2>1. /\ UNCHANGED << q_tail, gui_mode >> /\ mouse_btns' = now
        /\ burst' = burst + 1 /\ burst < MAX_BURST
    BY <1>2 DEF MousePacket, Interrupt
  <2>2. burst' \in 0 .. MAX_BURST
    BY <1>0, <2>1
  <2> DEFINE told == gui_mode /\ ~overflow  batch == Moved(moved) \o Changes(now)
  <2>3. CASE ~told
    <3>1. UNCHANGED << queue, q_head, unheard, prev_btns >>
      BY <1>2, <2>3 DEF MousePacket, Told
    <3> QED BY <1>0, <1>2, <2>1, <2>2, <3>1
  <2>4. CASE told
    <3>1. Push(batch) /\ prev_btns' = now
      BY <1>2, <2>4 DEF MousePacket, Told
    <3>2. /\ batch \in Seq(EventSet) /\ batch \in MouseBatches
          /\ "left" \in prev_btns \ now => Releases(batch)
          /\ NoGrab(batch, now)
      BY <1>0, PacketSays
    <3> HIDE DEF batch
    <3>3. Arrives(batch)
      BY <3>1, <3>2 DEF Arrives, AllBatches
    <3> QED BY <1>2, <2>1, <2>2, <3>1, <3>3
  <2> QED BY <2>3, <2>4
<1>3. ASSUME NEW batch, batch \in KeyBatches, Push(batch), Interrupt,
             UNCHANGED << q_tail, gui_mode, mouse_btns, prev_btns, at, got, desktop >>
      PROVE  /\ UNCHANGED << at, got, desktop, q_tail, gui_mode >> /\ burst' \in 0 .. MAX_BURST
             /\ mouse_btns' \subseteq ToSet(Buttons) /\ prev_btns' \subseteq ToSet(Buttons)
             /\ \/ UNCHANGED << queue, q_head, unheard, prev_btns >>
                \/ \E b : Arrives(b)
  <2>1. Arrives(batch)
    BY <1>1, <1>3
  <2>2. burst' \in 0 .. MAX_BURST
    BY <1>0, <1>3 DEF Interrupt
  <2> QED BY <1>0, <1>3, <2>1, <2>2
<1>4. UNCHANGED << at, got, desktop >>
  BY DEF InterruptDesktop
<1>5. CASE KeyReleased
  <2>1. << Event("KEY_UP", "none") >> \in KeyBatches
    BY DEF KeyBatches
  <2> QED BY <1>3, <1>4, <1>5, <2>1 DEF KeyReleased
<1>6. CASE \E k \in Keys : KeyPressed(k)
  <2>1. PICK k \in Keys : KeyPressed(k)
    BY <1>6
  <2>2. << Event("KEY_DOWN", k) >> \in KeyBatches
    BY DEF KeyBatches
  <2> QED BY <1>3, <1>4, <2>1, <2>2 DEF KeyPressed
<1>7. CASE \E now \in SUBSET ToSet(Buttons), moved, overflow \in BOOLEAN :
             MousePacket(now, moved, overflow)
  BY <1>2, <1>4, <1>7
<1> QED BY <1>5, <1>6, <1>7 DEF InterruptDesktop, Interrupts

LEMMA HandledIs ==
  ASSUME HandleEvent
  PROVE  /\ at = "handle" /\ at' = "poll" /\ got' = NoEvent
         /\ UNCHANGED input /\ UNCHANGED configured
BY DEF HandleEvent, ClickMenu, RightClick, ClickElsewhere, ClickIgnored, ClickWindow, LeftClick,
       MouseUp, KeyDown, NoEffect, Handle

LEMMA PlaceKeeps ==
  ASSUME PlaceInv, [Next]_vars
  PROVE  PlaceInv'
<1>1. CASE UNCHANGED vars \/ Config
  BY <1>1 DEF vars, Config, input, ring, PlaceInv, RingOK, Waits, Count, Stuff, Slots
<1>2. CASE \/ StartGui \/ Ask \/ Answered \/ SetUp
           \/ NextFrame \/ LeaveLoop \/ EndGui
  <2>1. /\ UNCHANGED << ring, mouse_btns, prev_btns, unheard, got >>
        /\ at' \in Places /\ at' \notin {"took", "handle"} /\ at \notin {"took", "handle"}
        /\ burst' = 0 /\ gui_mode' \in BOOLEAN
    BY <1>2 DEF StartGui, Ask, Answered, SetUp, Back, NextFrame, LeaveLoop, EndGui, NoEventLeft,
                Places, PlaceInv
  <2> QED BY <2>1, InputAssumption DEF ring, PlaceInv, RingOK, Stuff, Slots
<1>3. CASE PollCopy
  <2>1. UNCHANGED input /\ got' = queue[q_tail] /\ at' = "took" /\ q_head # q_tail
    BY <1>3 DEF PollCopy, IsEmpty
  <2>2. RingOK /\ RingOK'
    BY <2>1 DEF PlaceInv, RingOK, input, ring, Slots
  <2>3. Waits >= 1
    BY <2>1, <2>2, TakeMoves DEF RingOK, Waits
  <2>4. Waits' >= 1
    BY <2>1, <2>3 DEF Waits, Count, input, ring
  <2>5. got' \in Stuff
    BY <2>1, <2>2 DEF RingOK, Stuff
  <2> QED BY <2>1, <2>2, <2>4, <2>5 DEF PlaceInv, input, Places, Stuff
<1>4. CASE PollAdvance
  <2>1. /\ at' = "handle" /\ q_tail' = Behind(q_tail) /\ queue' = [queue EXCEPT ![q_tail] = NoEvent]
        /\ UNCHANGED << q_head, gui_mode, mouse_btns, prev_btns, burst, unheard, got >>
    BY <1>4 DEF PollAdvance
  <2>2. RingOK'
    <3>1. RingOK
      BY DEF PlaceInv
    <3>2. q_tail' \in Slots
      BY <2>1, <3>1, BehindCases DEF RingOK
    <3>3. queue' \in [Slots -> EventSet \cup {NoEvent}]
      BY <2>1, <3>1 DEF RingOK
    <3> QED BY <2>1, <3>1, <3>2, <3>3 DEF RingOK, Slots
  <2> QED BY <2>1, <2>2 DEF PlaceInv, Places, Stuff
<1>5. CASE HandleEvent
  <2>1. at' = "poll" /\ got' = NoEvent /\ UNCHANGED input
    BY <1>5, HandledIs
  <2> QED BY <2>1 DEF PlaceInv, RingOK, input, ring, Places, Stuff, Slots
<1>6. CASE InterruptDesktop
  <2>1. /\ UNCHANGED << at, got, desktop, q_tail, gui_mode >> /\ burst' \in 0 .. MAX_BURST
        /\ mouse_btns' \subseteq ToSet(Buttons) /\ prev_btns' \subseteq ToSet(Buttons)
        /\ \/ UNCHANGED << queue, q_head, unheard, prev_btns >>
           \/ \E batch : Arrives(batch)
    BY <1>6, InterruptIs
  <2>2. RingOK' /\ unheard' \in BOOLEAN /\ (at = "took" => Waits' >= 1)
    <3>1. CASE UNCHANGED << queue, q_head, unheard, prev_btns >>
      BY <2>1, <3>1 DEF PlaceInv, RingOK, Waits, Count, Slots
    <3>2. CASE \E batch : Arrives(batch)
      BY <2>1, <3>2, PushExtends DEF Arrives
    <3> QED BY <2>1, <3>1, <3>2
  <2> QED BY <2>1, <2>2 DEF PlaceInv, Places, Stuff
<1> QED BY <1>1, <1>2, <1>3, <1>4, <1>5, <1>6 DEF Next, Loop
-----------------------------------------------------------------------------
(* What the reader's steps do to what is still to be read.                  *)
LEMMA UnreadStays ==
  ASSUME UNCHANGED ring, (at' = "took") = (at = "took")
  PROVE  Unread' = Unread
BY UnreadIsLeft, UnreadNextIsLeft DEF ring

LEMMA CopyReads ==
  ASSUME PlaceInv, PollCopy
  PROVE  Len(Unread) >= 1 /\ got' = Head(Unread) /\ Unread' = Tail(Unread)
<1>1. at = "poll" /\ at' = "took" /\ UNCHANGED input /\ got' = queue[q_tail] /\ q_head # q_tail
  BY DEF PollCopy, IsEmpty
<1>2. Waits >= 1 /\ At(q_tail, 1) = q_tail
  BY <1>1, TakeMoves DEF PlaceInv, RingOK, Waits
<1>3. /\ Unread \in Seq(Stuff) /\ Len(Unread) = Waits
      /\ \A i \in 1 .. Len(Unread) : Unread[i] = queue[At(q_tail, i)]
  <2>1. Skip(at = "took") = 0
    BY <1>1 DEF Skip
  <2>2. /\ Unread \in Seq(Stuff) /\ Len(Unread) = Waits - Skip(at = "took")
        /\ \A i \in 1 .. Len(Unread) : Unread[i] = queue[At(q_tail, i + Skip(at = "took"))]
    BY UnreadType
  <2>3. Waits \in Nat
    BY CountCases DEF PlaceInv, RingOK, Waits
  <2> QED BY <2>1, <2>2, <2>3
<1>4. Head(Unread) = queue[q_tail]
  <2>1. 1 \in 1 .. Len(Unread)
    BY <1>2, <1>3
  <2>2. Unread[1] = queue[At(q_tail, 1)]
    BY <1>3, <2>1
  <2> QED BY <1>2, <1>3, <2>2
<1>5. Unread' = Tail(Unread)
  <2>1. Unread = Held(queue, q_head, q_tail)
    BY <1>1, UnreadIsLeft DEF Left
  <2>2. Unread' = Tail(Held(queue, q_head, q_tail))
    BY <1>1, UnreadNextIsLeft DEF Left, input, ring
  <2> QED BY <2>1, <2>2
<1> QED BY <1>1, <1>2, <1>3, <1>4, <1>5

LEMMA AdvanceStays ==
  ASSUME PlaceInv, PollAdvance
  PROVE  Unread' = Unread
<1>1. /\ at = "took" /\ at' = "handle" /\ q_tail' = Behind(q_tail) /\ q_head' = q_head
      /\ queue' = [queue EXCEPT ![q_tail] = NoEvent]
  BY DEF PollAdvance
<1>2. /\ queue \in [Slots -> Stuff] /\ q_head \in Slots /\ q_tail \in Slots /\ Waits >= 1
      /\ Waits = Count(q_head, q_tail)
  BY <1>1 DEF PlaceInv, RingOK, Stuff, Waits
<1>3. q_head # q_tail
  BY <1>2, CountCases DEF Slots
<1>4. /\ Count(q_head, Behind(q_tail)) = Waits - 1
      /\ \A i \in 1 .. Waits - 1 : At(Behind(q_tail), i) = At(q_tail, i + 1) /\ At(q_tail, i + 1) # q_tail
  BY <1>2, <1>3, TakeMoves
<1>5. /\ Unread \in Seq(Stuff) /\ Len(Unread) = Waits - 1
      /\ \A i \in 1 .. Waits - 1 : Unread[i] = queue[At(q_tail, i + 1)]
  <2>1. Skip(at = "took") = 1
    BY <1>1 DEF Skip
  <2> QED BY <2>1, UnreadType
<1>6. Unread' = Held(queue', q_head, Behind(q_tail))
  BY <1>1, UnreadNextIsLeft DEF Left
<1>7. Unread' = [i \in 1 .. Waits - 1 |-> queue'[At(Behind(q_tail), i)]]
  BY <1>4, <1>6 DEF Held
<1>8. ASSUME NEW i \in 1 .. Waits - 1 PROVE queue'[At(Behind(q_tail), i)] = Unread[i]
  <2>1. i + 1 \in 1 .. EVENT_QUEUE_SIZE
    BY <1>2, CountCases, SizeFacts
  <2>2. At(q_tail, i + 1) \in Slots
    BY <1>2, <2>1, AtCases
  <2> QED BY <1>1, <1>2, <1>4, <1>5, <2>2
<1>9. Unread = [i \in 1 .. Waits - 1 |-> Unread[i]]
  BY <1>5
<1> DEFINE u == Unread
<1> HIDE DEF u
<1>10. Unread' = [i \in 1 .. Waits - 1 |-> u[i]]
  BY <1>7, <1>8 DEF u
<1> QED BY <1>9, <1>10 DEF u

(* The mouse lets go.  While a window is held, or a press of the button is  *)
(* still to be handled, the events have not told of a release, or it is in  *)
(* the queue behind, or it was lost.                                        *)
IsGrab(e) == e.type = "MOUSE_DOWN" /\ e.code = "left"
Safe(i) ==
  "left" \in prev_btns \/ unheard \/ \E j \in DOMAIN Unread : j > i /\ IsUp(Unread[j])

GripInv ==
  /\ {drag, resize} # {None} => IsUp(got) \/ Safe(0)
  /\ IsGrab(got) => Safe(0)
  /\ \A i \in DOMAIN Unread : IsGrab(Unread[i]) => Safe(i)

LEMMA ArrivalKeeps ==
  ASSUME PlaceInv, GripInv, NEW batch, Arrives(batch), UNCHANGED << at, got, desktop, q_tail >>
  PROVE  GripInv'
<1>1. PICK m \in Nat : Extends(batch, m)
  BY PushExtends DEF Arrives
<1> DEFINE L == Len(Unread)
<1>2. L \in Nat /\ DOMAIN Unread = 1 .. L /\ \A i \in 1 .. L : Unread'[i] = Unread[i]
  BY <1>1, UnreadType DEF Extends
<1>3. /\ DOMAIN Unread' = 1 .. L + m /\ m \in Nat /\ m <= Len(batch)
      /\ \A i \in 1 .. m : Unread'[L + i] = batch[i]
      /\ unheard \/ Releases(batch) => unheard' \/ \E i \in 1 .. m : IsUp(batch[i])
  <2>1. /\ m \in 0 .. Len(batch) /\ Unread' \in Seq(Stuff) /\ Len(Unread') = L + m
        /\ \A i \in 1 .. m : Unread'[L + i] = batch[i]
        /\ unheard \/ Releases(batch) => unheard' \/ \E i \in 1 .. m : IsUp(batch[i])
    BY <1>1 DEF Extends
  <2> HIDE DEF L
  <2>2. DOMAIN Unread' = 1 .. L + m
    BY <2>1
  <2> QED BY <2>1, <2>2
<1> HIDE DEF L
<1>4. Safe(0)' <=> "left" \in prev_btns' \/ unheard' \/ \E j \in DOMAIN Unread' : j > 0 /\ IsUp(Unread'[j])
  BY DEF Safe, IsUp
<1>5. \A i : Safe(i)' <=> "left" \in prev_btns' \/ unheard'
                          \/ \E j \in DOMAIN Unread' : j > i /\ IsUp(Unread'[j])
  BY DEF Safe, IsUp
<1>6. ASSUME NEW i \in 0 .. L, unheard' \/ \E k \in 1 .. m : IsUp(batch[k])
      PROVE  Safe(i)'
  <2>1. CASE unheard'
    BY <1>5, <2>1
  <2>2. CASE \E k \in 1 .. m : IsUp(batch[k])
    <3>1. PICK k \in 1 .. m : IsUp(batch[k])
      BY <2>2
    <3>2. L + k \in DOMAIN Unread' /\ L + k > i
      BY <1>2, <1>3
    <3>3. IsUp(Unread'[L + k])
      BY <1>3, <3>1
    <3> QED BY <1>5, <3>2, <3>3
  <2> QED BY <1>6, <2>1, <2>2
<1>7. ASSUME NEW i \in 0 .. L, Safe(i) PROVE Safe(i)'
  <2>1. CASE unheard
    BY <1>3, <1>6, <2>1
  <2>2. CASE "left" \in prev_btns
    <3>1. CASE "left" \in prev_btns'
      BY <1>5, <3>1
    <3>2. CASE "left" \notin prev_btns'
      <4>1. Releases(batch)
        BY <2>2, <3>2 DEF Arrives
      <4> QED BY <1>3, <1>6, <4>1
    <3> QED BY <3>1, <3>2
  <2>3. CASE \E j \in DOMAIN Unread : j > i /\ IsUp(Unread[j])
    <3>1. PICK j \in 1 .. L : j > i /\ IsUp(Unread[j])
      BY <1>2, <2>3
    <3>2. j \in DOMAIN Unread' /\ IsUp(Unread'[j])
      BY <1>2, <1>3, <3>1
    <3> QED BY <1>5, <3>1, <3>2
  <2> QED BY <1>7, <2>1, <2>2, <2>3 DEF Safe
<1>8. 0 \in 0 .. L /\ \A i \in 1 .. L : i \in 0 .. L
  BY <1>2
<1>9. {drag', resize'} # {None} => IsUp(got') \/ Safe(0)'
  <2>1. UNCHANGED << drag, resize, got >>
    BY DEF desktop
  <2> QED BY <1>7, <1>8, <2>1 DEF GripInv
<1>10. IsGrab(got') => Safe(0)'
  BY <1>7, <1>8 DEF GripInv
<1>11. ASSUME NEW i \in DOMAIN Unread', IsGrab(Unread'[i]) PROVE Safe(i)'
  <2>1. CASE i \in 1 .. L
    <3>1. Safe(i)
      BY <1>2, <1>11, <2>1 DEF GripInv
    <3> QED BY <1>7, <1>8, <2>1, <3>1
  <2>2. CASE i \notin 1 .. L
    <3> DEFINE k == i - L
    <3>1. k \in 1 .. m /\ L + k = i /\ k \in 1 .. Len(batch)
      <4>1. Len(batch) \in Nat
        BY DEF Arrives
      <4> QED BY <1>2, <1>3, <2>2, <4>1
    <3> HIDE DEF k
    <3>2. Unread'[i] = batch[k]
      BY <1>3, <3>1
    <3>3. k \in DOMAIN batch
      BY <3>1 DEF Arrives
    <3>4. "left" \in prev_btns'
      BY <1>11, <3>2, <3>3 DEF Arrives, NoGrab, IsGrab
    <3> QED BY <1>5, <3>4
  <2> QED BY <2>1, <2>2
<1>12. GripInv' <=> /\ {drag', resize'} # {None} => IsUp(got') \/ Safe(0)'
                    /\ IsGrab(got') => Safe(0)'
                    /\ \A i \in DOMAIN Unread' : IsGrab(Unread'[i]) => Safe(i)'
  BY DEF GripInv, IsUp, IsGrab
<1> QED BY <1>9, <1>10, <1>11, <1>12
LEMMA SafeStays ==
  ASSUME Unread' = Unread, UNCHANGED << prev_btns, unheard >>
  PROVE  \A i : Safe(i)' <=> Safe(i)
BY DEF Safe, IsUp

(* A handler takes hold of a window only for a press of the left button.    *)
LEMMA HandlerHolds ==
  ASSUME HandleEvent, {drag', resize'} # {None}
  PROVE  got.type # "MOUSE_UP" /\ ({drag, resize} # {None} \/ IsGrab(got))
<1>1. ASSUME NEW w, Close(w) \/ Minimize(w) PROVE {drag, resize} # {None}
  <2>1. (drag' = drag \/ drag' = None) /\ resize' = resize
    BY <1>1 DEF Close, Minimize, Released
  <2> QED BY <2>1
<1>2. ASSUME OpenApp \/ Nothing PROVE {drag, resize} # {None}
  BY <1>2 DEF OpenApp, OpenNew, Nothing
<1>3. CASE ClickMenu
  <2>1. got.type = "MOUSE_DOWN"
    BY <1>3 DEF ClickMenu, Handle
  <2>2. \/ Nothing \/ OpenApp
        \/ Close(ctx_menu.win) \/ Minimize(ctx_menu.win)
        \/ UNCHANGED << drag, resize >>
    BY <1>3 DEF ClickMenu
  <2> QED BY <1>1, <1>2, <2>1, <2>2
<1>4. CASE RightClick \/ ClickIgnored \/ NoEffect
  BY <1>4 DEF RightClick, ClickIgnored, NoEffect, Handle, desktop
<1>5. CASE ClickElsewhere
  BY <1>2, <1>5 DEF ClickElsewhere, LeftClick, Handle
<1>6. CASE ClickWindow
  BY <1>6 DEF ClickWindow, LeftClick, Handle, IsGrab
<1>7. CASE MouseUp
  BY <1>7 DEF MouseUp
<1>8. CASE KeyDown
  <2>1. got.type = "KEY_DOWN"
    BY <1>8 DEF KeyDown, Handle
  <2>2. Nothing \/ Close(get_focused) \/ UNCHANGED << drag, resize >>
    BY <1>8 DEF KeyDown
  <2> QED BY <1>1, <1>2, <2>1, <2>2
<1> QED BY <1>3, <1>4, <1>5, <1>6, <1>7, <1>8 DEF HandleEvent

LEMMA GripKeeps ==
  ASSUME PlaceInv, GripInv, [Next]_vars
  PROVE  GripInv'
<1>1. ASSUME UNCHANGED << prev_btns, unheard >>, Unread' = Unread,
             {drag', resize'} # {None} => IsUp(got') \/ Safe(0),
             IsGrab(got') => Safe(0)
      PROVE  GripInv'
  <2>1. \A i : Safe(i)' <=> Safe(i)
    BY <1>1, SafeStays
  <2> QED BY <1>1, <2>1 DEF GripInv, IsUp, IsGrab
<1>2. CASE UNCHANGED vars \/ Config
  <2>1. Unread' = Unread /\ UNCHANGED << prev_btns, unheard, got, drag, resize >>
    BY <1>2, UnreadStays DEF vars, Config, input, desktop
  <2> QED BY <1>1, <2>1 DEF GripInv
<1>3. CASE StartGui \/ Ask \/ Answered \/ SetUp \/ NextFrame \/ LeaveLoop
  <2>1. /\ UNCHANGED << ring, prev_btns, unheard, got, drag, resize >>
        /\ (at' = "took") = (at = "took")
    BY <1>3 DEF StartGui, Ask, Answered, SetUp, Back, NextFrame, LeaveLoop, NoEventLeft, desktop
  <2>2. Unread' = Unread
    BY <2>1, UnreadStays
  <2> QED BY <1>1, <2>1, <2>2 DEF GripInv
<1>4. CASE EndGui
  <2>1. /\ UNCHANGED << ring, prev_btns, unheard, got >> /\ drag' = None /\ resize' = None
        /\ (at' = "took") = (at = "took")
    BY <1>4 DEF EndGui
  <2>2. Unread' = Unread
    BY <2>1, UnreadStays
  <2> QED BY <1>1, <2>1, <2>2 DEF GripInv
<1>5. CASE PollAdvance
  <2>1. Unread' = Unread
    BY <1>5, AdvanceStays
  <2>2. UNCHANGED << prev_btns, unheard, got, drag, resize >>
    BY <1>5 DEF PollAdvance, desktop
  <2> QED BY <1>1, <2>1, <2>2 DEF GripInv
<1>6. CASE HandleEvent
  <2>1. at = "handle" /\ at' = "poll" /\ got' = NoEvent /\ UNCHANGED input
    BY <1>6, HandledIs
  <2>2. Unread' = Unread
    BY <2>1, UnreadStays DEF input
  <2>3. ~IsGrab(got') /\ ~IsUp(got')
    BY <2>1 DEF NoEvent, Event, IsGrab, IsUp
  <2>4. {drag', resize'} # {None} => Safe(0)
    BY <1>6, HandlerHolds DEF GripInv, IsUp
  <2> QED BY <1>1, <2>1, <2>2, <2>3, <2>4 DEF input
<1>7. CASE PollCopy
  <2>1. Len(Unread) >= 1 /\ got' = Head(Unread) /\ Unread' = Tail(Unread)
    BY <1>7, CopyReads
  <2>2. UNCHANGED << prev_btns, unheard, drag, resize >> /\ got = NoEvent
    BY <1>7 DEF PollCopy, input, desktop, PlaceInv
  <2> DEFINE u == Unread  L == Len(u)
  <2>3. u \in Seq(Stuff) /\ L \in Nat /\ L >= 1 /\ DOMAIN u = 1 .. L
    BY <2>1, UnreadType
  <2>4. /\ got' = u[1] /\ DOMAIN Unread' = 1 .. L - 1
        /\ \A i \in 1 .. L - 1 : Unread'[i] = u[i + 1]
    <3>1. Unread' = Tail(u) /\ got' = Head(u)
      BY <2>1
    <3> HIDE DEF u
    <3>2. Head(u) = u[1] /\ Tail(u) \in Seq(Stuff) /\ Len(Tail(u)) = L - 1
          /\ \A i \in 1 .. L - 1 : Tail(u)[i] = u[i + 1]
      BY <2>3
    <3>3. DOMAIN Tail(u) = 1 .. L - 1
      BY <2>3, <3>2
    <3> QED BY <3>1, <3>2, <3>3
  <2>5. \A i : Safe(i) <=> "left" \in prev_btns \/ unheard \/ \E j \in 1 .. L : j > i /\ IsUp(u[j])
    BY <2>3 DEF Safe
  <2>6. \A i : Safe(i)' <=> "left" \in prev_btns \/ unheard
                            \/ \E j \in 1 .. L - 1 : j > i /\ IsUp(u[j + 1])
    <3>1. \A i : Safe(i)' <=> "left" \in prev_btns' \/ unheard'
                              \/ \E j \in DOMAIN Unread' : j > i /\ IsUp(Unread'[j])
      BY DEF Safe, IsUp
    <3> QED BY <2>2, <2>4, <3>1
  <2> HIDE DEF u, L
  <2>7. ASSUME NEW i \in Nat, Safe(i + 1) PROVE Safe(i)'
    <3>1. CASE \E j \in 1 .. L : j > i + 1 /\ IsUp(u[j])
      <4>1. PICK j \in 1 .. L : j > i + 1 /\ IsUp(u[j])
        BY <3>1
      <4>2. j - 1 \in 1 .. L - 1 /\ j - 1 > i /\ (j - 1) + 1 = j
        BY <2>3, <4>1
      <4> QED BY <2>6, <4>1, <4>2
    <3> QED BY <2>5, <2>6, <2>7, <3>1
  <2>8. {drag', resize'} # {None} => IsUp(got') \/ Safe(0)'
    <3> SUFFICES ASSUME {drag, resize} # {None}, ~IsUp(u[1]) PROVE Safe(0)'
      BY <2>2, <2>4
    <3>1. Safe(0)
      BY <2>2 DEF GripInv, NoEvent, Event, IsUp
    <3>2. Safe(1)
      <4>1. \A j \in 1 .. L : IsUp(u[j]) => j > 1
        BY <2>3
      <4> QED BY <2>5, <3>1, <4>1
    <3> QED BY <2>7, <3>2
  <2>9. IsGrab(got') => Safe(0)'
    <3> SUFFICES ASSUME IsGrab(u[1]) PROVE Safe(0)'
      BY <2>4
    <3>1. 1 \in DOMAIN u
      BY <2>3
    <3>2. Safe(1)
      BY <3>1 DEF GripInv, u
    <3> QED BY <2>7, <3>2
  <2>10. ASSUME NEW i \in DOMAIN Unread', IsGrab(Unread'[i]) PROVE Safe(i)'
    <3>1. i \in Nat /\ i + 1 \in 1 .. L /\ IsGrab(u[i + 1])
      BY <2>3, <2>4, <2>10
    <3>2. Safe(i + 1)
      BY <2>3, <3>1 DEF GripInv, u
    <3> QED BY <2>7, <3>1, <3>2
  <2>11. GripInv' <=> /\ {drag', resize'} # {None} => IsUp(got') \/ Safe(0)'
                      /\ IsGrab(got') => Safe(0)'
                      /\ \A i \in DOMAIN Unread' : IsGrab(Unread'[i]) => Safe(i)'
    BY DEF GripInv, IsUp, IsGrab
  <2> QED BY <2>8, <2>9, <2>10, <2>11
<1>8. CASE InterruptDesktop
  <2>1. /\ UNCHANGED << at, got, desktop, q_tail >>
        /\ \/ UNCHANGED << queue, q_head, unheard, prev_btns >>
           \/ \E batch : Arrives(batch)
    BY <1>8, InterruptIs
  <2>2. CASE UNCHANGED << queue, q_head, unheard, prev_btns >>
    <3>1. Unread' = Unread
      BY <2>1, <2>2, UnreadStays DEF ring
    <3> QED BY <1>1, <2>1, <2>2, <3>1 DEF GripInv, desktop
  <2>3. CASE \E batch : Arrives(batch)
    BY <2>1, <2>3, ArrivalKeeps
  <2> QED BY <2>1, <2>2, <2>3
<1> QED BY <1>2, <1>3, <1>4, <1>5, <1>6, <1>7, <1>8 DEF Next, Loop
-----------------------------------------------------------------------------
LEMMA InitKeeps == Init => PlaceInv /\ GripInv /\ WinInv /\ MenuInv
<1> SUFFICES ASSUME Init PROVE PlaceInv /\ GripInv /\ WinInv /\ MenuInv
  OBVIOUS
<1>1. /\ queue = [i \in Slots |-> NoEvent] /\ q_head = 0 /\ q_tail = 0
      /\ gui_mode = FALSE /\ mouse_btns = {} /\ prev_btns = {} /\ burst = 0 /\ unheard = FALSE
      /\ at = "text" /\ got = NoEvent
      /\ wins = << >> /\ hidden = {} /\ waiting = {}
      /\ drag = None /\ resize = None /\ ctx_menu = NoMenu /\ run = TRUE
  BY DEF Init, InputInit
<1>2. 0 \in Slots
  BY SizeFacts DEF Slots
<1>3. PlaceInv
  BY <1>1, <1>2, InputAssumption DEF PlaceInv, RingOK, Places, Stuff
<1>4. Unread = << >>
  <2>1. Count(0, 0) = 0
    BY <1>2, CountCases
  <2>2. Unread = Held(queue, 0, 0)
    BY <1>1, UnreadIsLeft DEF Left
  <2> QED BY <2>1, <2>2 DEF Held
<1>5. GripInv
  <2>1. DOMAIN Unread = {}
    BY <1>4
  <2>2. ~IsGrab(got) /\ {drag, resize} = {None}
    BY <1>1 DEF IsGrab, NoEvent, Event
  <2> QED BY <2>1, <2>2 DEF GripInv
<1>6. Open = {} /\ wins \in Seq(Ids) /\ IsInjective(wins)
  BY <1>1 DEF Open, ToSet, IsInjective
<1>7. WinInv
  BY <1>1, <1>6 DEF WinInv, OneChat, DragIsOpen
<1>8. MenuInv
  BY <1>1 DEF MenuInv, NoMenu
<1> QED BY <1>3, <1>5, <1>7, <1>8

LEMMA DesktopAlways == Spec => [](PlaceInv /\ GripInv /\ WinInv /\ MenuInv)
<1>1. /\ PlaceInv /\ GripInv /\ WinInv /\ MenuInv /\ [Next]_vars
      => (PlaceInv /\ GripInv /\ WinInv /\ MenuInv)'
  BY PlaceKeeps, GripKeeps, DesktopKeeps
<1> QED BY <1>1, InitKeeps, PTL DEF Spec

(* TypeOK of every state: each window is in the order once, one chat window *)
(* at most, and what is hidden or waits is open (init.lua, wm_open to       *)
(* wm_close).                                                               *)
THEOREM DesktopTypes == Spec => []TypeOK
<1> DEFINE KeyInv == configured \in BOOLEAN
<1>1. ASSUME PlaceInv, WinInv, MenuInv, KeyInv PROVE TypeOK
  <2>1. InputTypeOK
    BY <1>1 DEF PlaceInv, RingOK, InputTypeOK
  <2>2. Cardinality(Open \cap Chats) <= 1
    <3>1. CASE Open \cap Chats = {}
      BY <3>1, FS_EmptySet
    <3>2. CASE Open \cap Chats # {}
      <4>1. PICK w : w \in Open \cap Chats
        BY <3>2
      <4>2. Open \cap Chats = {w}
        BY <1>1, <4>1 DEF WinInv, OneChat
      <4>3. Cardinality({w}) = 1
        BY FS_Singleton
      <4> QED BY <4>2, <4>3
    <3> QED BY <3>1, <3>2
  <2>3. /\ at \in Places /\ got \in EventSet \cup {NoEvent}
        /\ run \in BOOLEAN /\ configured \in BOOLEAN
        /\ wins \in Seq(Ids) /\ IsInjective(wins)
        /\ hidden \subseteq Open /\ waiting \subseteq Open \cap Chats
        /\ {drag, resize} \subseteq Ids \cup {None}
        /\ ctx_menu \in [kind : {"none", "window", "other"}, win : Ids \cup {None}]
    BY <1>1 DEF PlaceInv, Stuff, WinInv, MenuInv
  <2> QED BY <2>1, <2>2, <2>3 DEF TypeOK
<1>2. Init => KeyInv
  BY DEF Init
<1>3. KeyInv /\ [Next]_vars => KeyInv'
  <2> SUFFICES ASSUME KeyInv, [Next]_vars PROVE KeyInv'
    OBVIOUS
  <2>1. UNCHANGED configured \/ configured' \in BOOLEAN
    BY HandledIs DEF Next, Loop, vars, Config, StartGui, PollCopy, PollAdvance, Ask, Answered,
                     SetUp, NextFrame, LeaveLoop, EndGui, InterruptDesktop
  <2> QED BY <2>1
<1> HIDE DEF KeyInv
<1> QED BY <1>1, <1>2, <1>3, DesktopAlways, PTL DEF Spec

(* The mouse lets go of a window, unless the queue was too full to take the *)
(* release (mouse_handler, input_push, and the UI's mouse-up).              *)
THEOREM MouseLetsGo == Spec => []GripEnds
<1>1. ASSUME PlaceInv, GripInv PROVE GripEnds
  <2> SUFFICES ASSUME {drag, resize} # {None}, ~IsUp(got), ~unheard, "left" \notin prev_btns
               PROVE  Releases(Unread)
    BY DEF GripEnds, IsUp
  <2>1. Safe(0)
    BY <1>1 DEF GripInv
  <2> QED BY <2>1 DEF Safe, Releases, IsUp
<1> QED BY <1>1, DesktopAlways, PTL

(* What is dragged is in the order and not hidden, since wm_close and       *)
(* wm_minimize let go of it.                                                *)
THEOREM DraggedIsSeen == Spec => []DragIsOpen
<1>1. WinInv => DragIsOpen
  BY DEF WinInv
<1> QED BY <1>1, DesktopAlways, PTL

(* The window menu is about the window in front: nothing changes the order  *)
(* while it is open.                                                        *)
THEOREM MenuIsOnTop == Spec => []MenuOnTop
<1>1. MenuInv => MenuOnTop
  BY DEF MenuInv, MenuOnTop
<1> QED BY <1>1, DesktopAlways, PTL

-----------------------------------------------------------------------------
(* The ring implements the queue: an interrupt puts in what fits of a       *)
(* batch, input_poll reads, a handler forgets.                              *)
LEMMA ArrivalPutsIn ==
  ASSUME PlaceInv, NEW batch, Arrives(batch), UNCHANGED << got, q_tail, at >>
  PROVE  Events!PutIn
<1>1. PICK m \in Nat : Extends(batch, m)
  BY PushExtends DEF Arrives
<1> DEFINE u == Unread  v == Unread'  L == Len(u)  new == SubSeq(v, L + 1, Len(v))
<1>2. /\ u \in Seq(Stuff) /\ v \in Seq(Stuff) /\ L \in Nat /\ m \in Nat
      /\ Len(v) = L + m /\ m <= Len(batch)
      /\ \A i \in 1 .. L : v[i] = u[i]
      /\ \A i \in 1 .. m : v[L + i] = batch[i]
      /\ m = Len(batch) \/ Len(v) >= EVENT_QUEUE_SIZE - 2
      /\ Len(v) < EVENT_QUEUE_SIZE
      /\ batch \in Seq(EventSet) /\ batch \in AllBatches
  <2>1. Unread \in Seq(Stuff) /\ Len(Unread) \in Nat
    BY UnreadType
  <2>2. batch \in Seq(EventSet) /\ batch \in AllBatches
    BY DEF Arrives
  <2>3. /\ m \in 0 .. Len(batch) /\ Len(batch) \in Nat
        /\ Unread' \in Seq(Stuff) /\ Len(Unread') = Len(Unread) + m
        /\ \A i \in 1 .. Len(Unread) : Unread'[i] = Unread[i]
        /\ \A i \in 1 .. m : Unread'[Len(Unread) + i] = batch[i]
        /\ m = Len(batch) \/ Len(Unread') >= EVENT_QUEUE_SIZE - 2
        /\ Len(Unread') < EVENT_QUEUE_SIZE
    BY <1>1, <2>2 DEF Extends
  <2>4. m <= Len(batch)
    BY ONLY <2>3
  <2> QED BY <2>1, <2>2, <2>3, <2>4, Zenon
<1> HIDE DEF u, v, L
<1>3. Events!IsPrefix(u, v)
  <2>1. SubSeq(u, 1, L) = SubSeq(v, 1, L)
    <3>1. SubSeq(u, 1, L) = [i \in 1 .. L |-> u[i]]
      BY <1>2 DEF L
    <3>2. SubSeq(v, 1, L) = [i \in 1 .. L |-> v[i]]
      BY <1>2
    <3> QED BY <1>2, <3>1, <3>2
  <2> QED BY <1>2, <2>1 DEF Events!IsPrefix, L
<1>4. new \in Seq(Stuff) /\ Len(new) = m /\ \A i \in 1 .. m : new[i] = batch[i]
  <2> DEFINE k == L + 1  n == Len(v)
  <2>1. k \in Nat /\ k >= 1 /\ n \in Nat /\ k <= n + 1 /\ v \in Seq(Stuff) /\ n - k + 1 = m
        /\ k - 1 = L
    BY <1>2
  <2>2. new = SubSeq(v, k, n)
    OBVIOUS
  <2> HIDE DEF k, n, new
  <2>3. /\ SubSeq(v, k, n) \in Seq(Stuff)
        /\ Len(SubSeq(v, k, n)) = IF k <= n THEN n - k + 1 ELSE 0
    BY <2>1 DEF n
  <2>4. \A i \in 1 .. n - k + 1 : SubSeq(v, k, n)[i] = v[k + i - 1]
    BY <2>1
  <2>5. (IF k <= n THEN n - k + 1 ELSE 0) = m
    BY <2>1
  <2>6. \A i \in 1 .. m : k + i - 1 = L + i
    BY <1>2, <2>1
  <2> QED BY <1>2, <2>1, <2>2, <2>3, <2>4, <2>5, <2>6
<1> HIDE DEF new
<1>5. Events!IsPrefix(new, batch)
  <2>1. SubSeq(new, 1, m) = [i \in 1 .. m |-> new[i]]
    BY <1>4
  <2>2. SubSeq(batch, 1, m) = [i \in 1 .. m |-> batch[i]]
    BY <1>2
  <2> QED BY <1>2, <1>4, <2>1, <2>2 DEF Events!IsPrefix
<1>6. m = Len(batch) => new = batch
  <2> SUFFICES ASSUME m = Len(batch) PROVE new = batch
    OBVIOUS
  <2>1. new = [i \in 1 .. m |-> new[i]] /\ batch = [i \in 1 .. m |-> batch[i]]
    BY <1>2, <1>4
  <2> QED BY <1>4, <2>1
<1>7. new = SubSeq(Unread', Len(Unread) + 1, Len(Unread')) /\ u = Unread /\ v = Unread'
  BY DEF u, v, L, new
<1>8. /\ UNCHANGED got /\ Events!IsPrefix(u, v) /\ batch \in AllBatches /\ Events!IsPrefix(new, batch)
      /\ Len(v) < EVENT_QUEUE_SIZE
      /\ new = batch \/ Len(v) >= EVENT_QUEUE_SIZE - 2
  BY <1>2, <1>3, <1>5, <1>6
<1> HIDE DEF u, v, L, new
<1> QED BY <1>7, <1>8 DEF Events!PutIn

LEMMA StepsOfTheQueue ==
  ASSUME PlaceInv, [Next]_vars
  PROVE  [Events!Read \/ Events!Forget \/ Events!PutIn]_<< Unread, got >>
<1>1. CASE UNCHANGED vars \/ Config
  BY <1>1, UnreadStays DEF vars, Config, input, desktop
<1>2. CASE StartGui \/ Ask \/ Answered \/ SetUp \/ NextFrame \/ LeaveLoop \/ EndGui
  <2>1. UNCHANGED << ring, got >> /\ (at' = "took") = (at = "took")
    BY <1>2 DEF StartGui, Ask, Answered, SetUp, Back, NextFrame, LeaveLoop, EndGui, NoEventLeft
  <2> QED BY <2>1, UnreadStays
<1>3. CASE PollCopy
  <2>1. Unread # << >>
    BY <1>3, CopyReads
  <2> QED BY <1>3, <2>1, CopyReads DEF Events!Read
<1>4. CASE PollAdvance
  BY <1>4, AdvanceStays DEF PollAdvance
<1>5. CASE HandleEvent
  <2>1. Unread' = Unread /\ got' = NoEvent
    BY <1>5, HandledIs, UnreadStays DEF input
  <2> QED BY <2>1 DEF Events!Forget
<1>6. CASE InterruptDesktop
  <2>1. /\ UNCHANGED << at, got, q_tail >>
        /\ \/ UNCHANGED << queue, q_head, unheard, prev_btns >>
           \/ \E batch : Arrives(batch)
    BY <1>6, InterruptIs
  <2>2. CASE UNCHANGED << queue, q_head, unheard, prev_btns >>
    BY <2>1, <2>2, UnreadStays DEF ring
  <2>3. CASE \E batch : Arrives(batch)
    BY <2>1, <2>3, ArrivalPutsIn
  <2> QED BY <2>1, <2>2, <2>3
<1> QED BY <1>1, <1>2, <1>3, <1>4, <1>5, <1>6 DEF Next, Loop

(* Every event the desktop handles was put into the ring, once and in the   *)
(* order of the interrupts, and only what did not fit is missing            *)
(* (input_push and input_poll).                                             *)
THEOREM RingIsQueue == Spec => QueueInOrder
<1>1. Init => Events!Init
  <2> SUFFICES ASSUME Init PROVE Events!Init
    OBVIOUS
  <2>1. q_head = 0 /\ q_tail = 0 /\ at = "text" /\ got = NoEvent
    BY DEF Init, InputInit
  <2>2. Count(0, 0) = 0
    <3>1. 0 \in Slots
      BY SizeFacts DEF Slots
    <3> QED BY <3>1, CountCases
  <2>3. Unread = Held(queue, 0, 0)
    BY <2>1, UnreadIsLeft DEF Left
  <2>4. Unread = << >>
    BY <2>2, <2>3 DEF Held
  <2> QED BY <2>1, <2>4 DEF Events!Init
<1>2. PlaceInv /\ [Next]_vars => [Events!Read \/ Events!Forget \/ Events!PutIn]_<< Unread, got >>
  BY StepsOfTheQueue
<1> QED BY <1>1, <1>2, DesktopAlways, PTL DEF Spec, QueueInOrder, Events!Spec
-----------------------------------------------------------------------------
(* What ChatAnswered needs beside the fairness of the loop: how many steps   *)
(* there can be before an answer.  Left are the interrupts the frame may     *)
(* still bring, the events in the ring and the one in hand; once the         *)
(* question is out, or the desktop is being left, the interrupts alone.      *)
Late == CASE at = "took" -> 2 [] at = "handle" -> 1 [] OTHER -> 0
PerInterrupt == 3 * EVENT_QUEUE_SIZE

LastFrame == at \in {"asking", "leaving"}
Delay ==
  IF LastFrame THEN MAX_BURST - burst
  ELSE 1 + MAX_BURST + (MAX_BURST - burst) * PerInterrupt + 3 * Len(Unread) + Late

DelayBounded == Delay \in 0 .. (MAX_BURST + 1) * (PerInterrupt + 1)

(* Every step of the loop, and every interrupt, brings a question in a       *)
(* visible chat window nearer to its answer, or the window is closed or      *)
(* minimised.                                                               *)
AnswerNears ==
  [][\A w \in waiting \ hidden : w \in waiting' \ hidden' => Delay' < Delay]_vars

TextIdle == at = "text" => waiting = {}

LEMMA UnreadFits ==
  ASSUME PlaceInv
  PROVE  Len(Unread) \in 0 .. EVENT_QUEUE_SIZE - 1
<1> DEFINE took == at = "took"
<1>1. /\ queue \in [Slots -> Stuff] /\ q_head \in Slots /\ q_tail \in Slots
      /\ took \in BOOLEAN /\ (took => Count(q_head, q_tail) >= 1)
  BY DEF PlaceInv, RingOK, Stuff, Waits
<1>2. Unread = Left(queue, q_head, q_tail, took)
  BY UnreadIsLeft
<1> HIDE DEF took
<1>3. /\ Len(Left(queue, q_head, q_tail, took)) = Count(q_head, q_tail) - Skip(took)
      /\ Count(q_head, q_tail) - Skip(took) \in 0 .. EVENT_QUEUE_SIZE - 1
  BY <1>1, LeftProps
<1> QED BY <1>2, <1>3

LEMMA DelayFacts ==
  ASSUME PlaceInv
  PROVE  /\ MAX_BURST \in Nat /\ burst \in Nat /\ MAX_BURST - burst \in Nat
         /\ PerInterrupt \in Nat /\ PerInterrupt = 3 * EVENT_QUEUE_SIZE
         /\ EVENT_QUEUE_SIZE \in Nat /\ (MAX_BURST - burst) * PerInterrupt \in Nat
         /\ Len(Unread) \in Nat /\ Len(Unread) <= EVENT_QUEUE_SIZE - 1 /\ Late \in 0 .. 2
<1>1. MAX_BURST \in Nat /\ burst \in Nat /\ MAX_BURST - burst \in Nat
  BY InputAssumption DEF PlaceInv
<1>2. EVENT_QUEUE_SIZE \in Nat /\ PerInterrupt \in Nat /\ PerInterrupt = 3 * EVENT_QUEUE_SIZE
  BY SizeFacts DEF PerInterrupt
<1>3. (MAX_BURST - burst) * PerInterrupt \in Nat
  <2> DEFINE n == MAX_BURST - burst
  <2>1. n \in Nat
    BY <1>1
  <2> HIDE DEF n
  <2>2. n * PerInterrupt \in Nat
    BY <1>2, <2>1, Distribute
  <2> QED BY <2>2 DEF n
<1>4. Len(Unread) \in Nat /\ Len(Unread) <= EVENT_QUEUE_SIZE - 1
  <2>1. Len(Unread) \in 0 .. EVENT_QUEUE_SIZE - 1
    BY UnreadFits
  <2> DEFINE l == Len(Unread)
  <2> HIDE DEF l
  <2>2. l \in 0 .. EVENT_QUEUE_SIZE - 1
    BY <2>1 DEF l
  <2>3. l \in Nat /\ l <= EVENT_QUEUE_SIZE - 1
    BY <1>2, <2>2
  <2> QED BY <2>3 DEF l
<1>5. Late \in 0 .. 2
  BY DEF Late
<1> QED BY <1>1, <1>2, <1>3, <1>4, <1>5

LEMMA DelayInRange == PlaceInv => DelayBounded
<1> SUFFICES ASSUME PlaceInv PROVE DelayBounded
  OBVIOUS
<1> DEFINE n == MAX_BURST - burst
           k == PerInterrupt
           l == Len(Unread)
           q == EVENT_QUEUE_SIZE
<1>1. /\ n \in Nat /\ burst \in Nat /\ MAX_BURST = n + burst /\ k \in Nat /\ q \in Nat
      /\ k = 3 * q /\ n * k \in Nat /\ l \in Nat /\ l <= q - 1 /\ Late \in 0 .. 2
  BY DelayFacts
<1>2. Delay = n \/ Delay = 1 + (n + burst) + n * k + 3 * l + Late
  BY <1>1 DEF Delay
<1>3. /\ burst * k \in Nat
      /\ (MAX_BURST + 1) * (k + 1) = n * k + burst * k + k + n + burst + 1
  <2> HIDE DEF n, k
  <2>1. burst * k \in Nat
    BY <1>1, Distribute
  <2>2. (n + burst + 1) * (k + 1) = n * k + burst * k + k + n + burst + 1
    BY ONLY <1>1
  <2> QED BY <1>1, <2>1, <2>2
<1> DEFINE all == (MAX_BURST + 1) * (k + 1)
           nk == n * k
           bk == burst * k
<1>4. /\ n \in Nat /\ burst \in Nat /\ k \in Nat /\ q \in Nat /\ nk \in Nat /\ bk \in Nat
      /\ k = 3 * q /\ l \in Nat /\ l <= q - 1 /\ Late \in 0 .. 2
      /\ Delay = n \/ Delay = 1 + (n + burst) + nk + 3 * l + Late
      /\ all = nk + bk + k + n + burst + 1
  BY <1>1, <1>2, <1>3
<1> HIDE DEF n, k, l, q, all, nk, bk
<1>5. Delay \in 0 .. all
  BY ONLY <1>4
<1> QED BY <1>5 DEF DelayBounded, all, k

(* A step of the loop, at the same count of interrupts.                     *)
LEMMA LoopNears ==
  ASSUME PlaceInv, PlaceInv', burst' = burst, ~LastFrame, ~LastFrame',
         3 * Len(Unread') + Late' < 3 * Len(Unread) + Late
  PROVE  Delay' < Delay
<1> DEFINE a == 1 + MAX_BURST + (MAX_BURST - burst) * PerInterrupt
           l == Len(Unread)
           m == Len(Unread')
<1>1. a \in Nat /\ l \in Nat /\ Late \in Nat
  <2> DEFINE b == (MAX_BURST - burst) * PerInterrupt
  <2>1. b \in Nat /\ MAX_BURST \in Nat /\ l \in Nat /\ Late \in Nat
    <3>1. Late \in 0 .. 2
      BY DelayFacts
    <3>2. b \in Nat /\ MAX_BURST \in Nat /\ l \in Nat
      BY DelayFacts, Zenon
    <3> HIDE DEF b, l
    <3> QED BY <3>1, <3>2
  <2> HIDE DEF b
  <2>2. 1 + MAX_BURST + b \in Nat
    BY <2>1
  <2> QED BY <2>1, <2>2 DEF b
<1>2. m \in Nat /\ Late' \in Nat
  <2>1. Unread' \in Seq(Stuff)
    <3>1. /\ queue' \in [Slots -> Stuff] /\ q_head' \in Slots /\ q_tail' \in Slots
          /\ (at' = "took") \in BOOLEAN /\ (at' = "took" => Count(q_head', q_tail') >= 1)
      BY DEF PlaceInv, RingOK, Stuff, Waits, Slots, Count
    <3> QED BY <3>1, UnreadNextIsLeft, LeftProps
  <2> QED BY <2>1 DEF Late
<1>3. Delay = a + 3 * l + Late /\ Delay' = a + 3 * m + Late'
  BY DEF Delay, PerInterrupt
<1> DEFINE x == Late'
<1>4. /\ a \in Nat /\ l \in Nat /\ m \in Nat /\ x \in Nat /\ Late \in Nat
      /\ 3 * m + x < 3 * l + Late /\ Delay = a + 3 * l + Late /\ Delay' = a + 3 * m + x
  BY <1>1, <1>2, <1>3
<1> HIDE DEF a, l, m, x
<1>5. a + 3 * m + x < a + 3 * l + Late
  BY ONLY <1>4
<1> QED BY <1>4, <1>5

(* An interrupt may fill the ring, but there is one less to come.           *)
LEMMA InterruptCounts ==
  ASSUME InterruptDesktop
  PROVE  burst < MAX_BURST /\ burst' = burst + 1
BY DEF InterruptDesktop, Interrupts, MousePacket, KeyPressed, KeyReleased, Interrupt

LEMMA InterruptNears ==
  ASSUME PlaceInv, PlaceInv', InterruptDesktop
  PROVE  Delay' < Delay
<1>1. at' = at /\ burst < MAX_BURST /\ burst' = burst + 1
  BY InterruptIs, InterruptCounts
<1>2. /\ MAX_BURST \in Nat /\ burst \in Nat /\ PerInterrupt \in Nat
      /\ PerInterrupt = 3 * EVENT_QUEUE_SIZE /\ EVENT_QUEUE_SIZE \in Nat
      /\ Len(Unread) \in Nat /\ Late \in Nat
  BY DelayFacts
<1>3. CASE LastFrame
  <2>1. Delay = MAX_BURST - burst /\ Delay' = MAX_BURST - (burst + 1)
    BY <1>1, <1>3 DEF Delay, LastFrame
  <2> QED BY <1>2, <2>1
<1>4. CASE ~LastFrame
  <2> DEFINE n == MAX_BURST - (burst + 1)
             k == PerInterrupt
             l == Len(Unread)
             m == Len(Unread')
             nk == n * k
  <2>1. n \in Nat /\ MAX_BURST - burst = n + 1 /\ MAX_BURST - burst' = n
    BY <1>1, <1>2
  <2>2. m \in Nat /\ m <= EVENT_QUEUE_SIZE - 1
    <3>1. /\ queue' \in [Slots -> Stuff] /\ q_head' \in Slots /\ q_tail' \in Slots
          /\ (at' = "took") \in BOOLEAN /\ (at' = "took" => Count(q_head', q_tail') >= 1)
      BY DEF PlaceInv, RingOK, Stuff, Waits, Slots, Count
    <3> DEFINE h == Left(queue', q_head', q_tail', at' = "took")
               s == Count(q_head', q_tail') - Skip(at' = "took")
    <3>2. Len(h) = s /\ s \in 0 .. EVENT_QUEUE_SIZE - 1
      BY <3>1, LeftProps
    <3>3. m = s
      BY <3>2, UnreadNextIsLeft
    <3> HIDE DEF m, s
    <3> QED BY <1>2, <3>2, <3>3
  <2>3. Late' = Late
    BY <1>1 DEF Late
  <2>4. nk \in Nat /\ (n + 1) * k = nk + k
    BY <1>2, <2>1, Distribute
  <2>5. Delay = 1 + MAX_BURST + (MAX_BURST - burst) * k + 3 * l + Late
    BY <1>4 DEF Delay, LastFrame
  <2>6. Delay' = 1 + MAX_BURST + (MAX_BURST - burst') * k + 3 * m + Late
    BY <1>1, <1>4, <2>3 DEF Delay, LastFrame, PerInterrupt
  <2>7. /\ Delay = 1 + MAX_BURST + (nk + k) + 3 * l + Late
        /\ Delay' = 1 + MAX_BURST + nk + 3 * m + Late
    BY <2>1, <2>4, <2>5, <2>6
  <2>8. l \in Nat
    BY <1>2
  <2> HIDE DEF n, k, l, m, nk
  <2>9. nk + 3 * m < nk + k + 3 * l
    BY <1>2, <2>2, <2>4, <2>8 DEF k
  <2>10. k \in Nat
    BY <1>2 DEF k
  <2> QED BY <1>2, <2>2, <2>4, <2>7, <2>8, <2>9, <2>10
<1> QED BY <1>3, <1>4

LEMMA StepNears ==
  ASSUME PlaceInv, PlaceInv', WinInv, TextIdle, Next, NEW w \in waiting \ hidden,
         w \in waiting' \ hidden'
  PROVE  Delay' < Delay
<1>1. w \in Asking /\ at # "text"
  BY DEF WinInv, Asking, Visible, TextIdle
<1>2. CASE InterruptDesktop
  BY <1>2, InterruptNears
<1>3. CASE PollCopy
  <2>1. at = "poll" /\ at' = "took" /\ burst' = burst
    BY <1>3 DEF PollCopy, input
  <2>2. Len(Unread) >= 1 /\ Unread' = Tail(Unread) /\ Unread \in Seq(Stuff)
    BY <1>3, CopyReads, UnreadType
  <2>3. Len(Unread') = Len(Unread) - 1 /\ Len(Unread) \in Nat
    BY <2>2
  <2>4. Late = 0 /\ Late' = 2
    BY <2>1 DEF Late
  <2>5. 3 * Len(Unread') + Late' < 3 * Len(Unread) + Late
    BY <2>3, <2>4
  <2> QED BY <2>1, <2>5, LoopNears DEF LastFrame
<1>4. CASE PollAdvance
  <2>1. at = "took" /\ at' = "handle" /\ burst' = burst
    BY <1>4 DEF PollAdvance
  <2>2. Unread' = Unread /\ Len(Unread) \in Nat
    BY <1>4, AdvanceStays, DelayFacts
  <2>3. Late = 2 /\ Late' = 1
    BY <2>1 DEF Late
  <2>4. 3 * Len(Unread') + Late' < 3 * Len(Unread) + Late
    BY <2>2, <2>3
  <2> QED BY <2>1, <2>4, LoopNears DEF LastFrame
<1>5. CASE HandleEvent
  <2>1. at = "handle" /\ at' = "poll" /\ UNCHANGED input
    BY <1>5, HandledIs
  <2>2. Unread' = Unread /\ Len(Unread) \in Nat /\ burst' = burst
    BY <2>1, UnreadStays, DelayFacts DEF input
  <2>3. Late = 1 /\ Late' = 0
    BY <2>1 DEF Late
  <2>4. 3 * Len(Unread') + Late' < 3 * Len(Unread) + Late
    BY <2>2, <2>3
  <2> QED BY <2>1, <2>2, <2>4, LoopNears DEF LastFrame
<1>6. CASE Ask \/ LeaveLoop
  <2>1. at = "poll" /\ at' \in {"asking", "leaving"} /\ burst' = 0
    BY <1>6 DEF Ask, LeaveLoop, NoEventLeft
  <2> DEFINE b == (MAX_BURST - burst) * PerInterrupt
             l == Len(Unread)
  <2>2. b \in Nat /\ l \in Nat /\ MAX_BURST \in Nat /\ Late \in Nat
    BY DelayFacts
  <2>3. Delay = 1 + MAX_BURST + b + 3 * l + Late /\ Delay' = MAX_BURST - 0
    BY <2>1 DEF Delay, LastFrame
  <2> HIDE DEF b, l
  <2> QED BY <2>2, <2>3
<1>7. CASE Answered \/ SetUp
  BY <1>1, <1>7 DEF Answered, SetUp, Back
<1>8. CASE NextFrame
  BY <1>1, <1>8 DEF NextFrame
<1>9. CASE EndGui
  BY <1>9 DEF EndGui
<1>10. CASE Config \/ StartGui
  BY <1>1, <1>10 DEF Config, StartGui
<1> QED BY <1>2, <1>3, <1>4, <1>5, <1>6, <1>7, <1>8, <1>9, <1>10 DEF Next, Loop

(* The safety of ChatAnswered: a question of a visible chat window is        *)
(* answered, or its window is closed or minimised, within a bounded number   *)
(* of steps of the loop and of the interrupts, whatever events come.         *)
THEOREM QuestionsAreServed == Spec => []DelayBounded /\ AnswerNears
<1>1. Init => TextIdle
  BY DEF Init, TextIdle
<1>2. TextIdle /\ [Next]_vars => TextIdle'
  <2> SUFFICES ASSUME TextIdle, [Next]_vars, at' = "text" PROVE waiting' = {}
    BY DEF TextIdle
  <2>1. CASE UNCHANGED vars
    BY <2>1 DEF vars, desktop, TextIdle
  <2>2. CASE EndGui
    BY <2>2 DEF EndGui
  <2>3. CASE InterruptDesktop
    BY <2>3 DEF InterruptDesktop, desktop, TextIdle
  <2>4. CASE Config
    BY <2>4 DEF Config, desktop, TextIdle
  <2>5. CASE \/ StartGui \/ PollCopy \/ PollAdvance \/ HandleEvent
             \/ Ask \/ Answered \/ SetUp \/ NextFrame \/ LeaveLoop
    BY <2>5, HandledIs DEF StartGui, PollCopy, PollAdvance, Ask, Answered, SetUp, Back, NextFrame,
                           LeaveLoop
  <2> QED BY <2>1, <2>2, <2>3, <2>4, <2>5 DEF Next, Loop
<1>3. PlaceInv => DelayBounded
  BY DelayInRange
<1> DEFINE Nearer ==
  \A w \in waiting \ hidden : w \in waiting' \ hidden' => Delay' < Delay
<1>4. PlaceInv /\ PlaceInv' /\ WinInv /\ TextIdle /\ [Next]_vars => [Nearer]_vars
  BY StepNears
<1> HIDE DEF Nearer
<1> QED BY <1>1, <1>2, <1>3, <1>4, DesktopAlways, PTL DEF Spec, AnswerNears, Nearer
=============================================================================

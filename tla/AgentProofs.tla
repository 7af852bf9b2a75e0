----------------------------- MODULE AgentProofs -----------------------------
(***************************************************************************)
(* For every size of the buffers and every number of rounds, calls and      *)
(* messages: the one TLS connection is given back; the message array keeps  *)
(* calls and answers together; Claude's answer takes every tool that was    *)
(* executed into account.                                                   *)
(*                                                                          *)
(* TlsIsFree is inductive as it stands: each way out of the three places    *)
(* where the connection is in use either closes it or leads to another of   *)
(* them, and the places where a panic can take over are outside, unless a   *)
(* CPU exception has disabled interrupts, after which nothing is promised.  *)
(*                                                                          *)
(* The others rest on AskInv, which follows a tool call from the reply to   *)
(* the message array, the results and the next request.  Where a result has *)
(* been cut or left out, less than SAFETY remains, and that message is too  *)
(* large for any request: one that is whole shows that none has been.       *)
(***************************************************************************)
EXTENDS Agent, Iteration, TLAPS

InUse == {"handshake", "send", "receive"}

LEMMA InitFree == Init => TlsIsFree
BY DEF Init, TlsIsFree

(* Below https_post: what takes the connection and what gives it back.      *)
LEMMA ConnectionKeepsFree ==
  ASSUME TlsIsFree,
         \/ Busy \/ NoConnection \/ Connected \/ HandshakeFails \/ HandshakeDone
         \/ SendFails \/ Send \/ NoReply \/ Reply
  PROVE  TlsIsFree'
<1>1. CASE Busy
  BY <1>1 DEF TlsIsFree, Busy
<1>2. CASE NoConnection
  BY <1>2 DEF TlsIsFree, NoConnection
<1>3. CASE Connected
  BY <1>3 DEF Connected, TlsIsFree
<1>4. CASE HandshakeFails \/ SendFails \/ NoReply \/ Reply
  BY <1>4 DEF HandshakeFails, SendFails, NoReply, Reply, Closed, TlsIsFree
<1>5. CASE HandshakeDone
  BY <1>5 DEF HandshakeDone, TlsIsFree
<1>6. CASE Send
  BY <1>6 DEF Send, TlsIsFree
<1> QED BY <1>1, <1>2, <1>3, <1>4, <1>5, <1>6

(* Above it: the rounds, the replies and the tools do not touch it.         *)
LEMMA LoopKeepsFree ==
  ASSUME TlsIsFree,
         \/ Ask \/ SetUp \/ Config \/ LimitReached \/ StartRound
         \/ ErrorStatus \/ EndTurn \/ ToolUse \/ Execute \/ Record
  PROVE  TlsIsFree'
<1>1. pc \notin InUse /\ UNCHANGED << tls, irq >>
  BY DEF InUse, Ask, SetUp, Config, LimitReached, StartRound, ErrorStatus, EndTurn, ToolUse,
         Execute, Record
<1> QED BY <1>1 DEF TlsIsFree, InUse

LEMMA PanicKeepsFree ==
  ASSUME TlsIsFree, Panic \/ Fault \/ Reboot
  PROVE  TlsIsFree'
<1>1. CASE Panic
  BY <1>1 DEF Panic, Reporting, TlsIsFree
<1>2. CASE Fault
  BY <1>2 DEF Fault, TlsIsFree
<1>3. CASE Reboot
  BY <1>3 DEF Reboot, TlsIsFree
<1> QED BY <1>1, <1>2, <1>3

LEMMA StepKeepsFree == TlsIsFree /\ [Next]_vars => TlsIsFree'
<1> SUFFICES ASSUME TlsIsFree, [Next]_vars PROVE TlsIsFree'
  OBVIOUS
<1>1. CASE Next
  BY <1>1, ConnectionKeepsFree, LoopKeepsFree, PanicKeepsFree DEF Next, Proceed
<1>2. CASE UNCHANGED vars
  BY <1>2 DEF vars, TlsIsFree
<1> QED BY <1>1, <1>2

(* No way out of https_post, tls_connect or the handshake keeps the one TLS *)
(* connection (tls_in_use) or its TCP slot, whatever the sizes and limits   *)
(* of claude.c are.                                                         *)
THEOREM ConnectionGivenBack == Spec => []TlsIsFree
BY InitFree, StepKeepsFree, PTL DEF Spec
-----------------------------------------------------------------------------
(* The messages.  A result is cut or left out only when the results have    *)
(* made the message so large that no request with it goes out: every fact   *)
(* below about the messages has that exception, and a request that does go  *)
(* out is the proof that it does not apply.                                 *)
Roles == {USER, ASSISTANT, TOOL}
Messages == [role : Roles, ids : Seq(Ids), size : Nat]
TooLarge(size) == HEADERS + FIXED + size >= REQ

(* Where the program is, and what it has left behind there.                 *)
PlaceInv ==
  /\ mode = "report" => pc \notin {"idle", "setup", "round", "tools"}
  /\ mode = "agent" => pc # "key"
  /\ mode = "agent" /\ pc \notin {"idle", "setup", "round"} => round < MAX_TOOL_ROUNDS
  /\ mode = "agent" /\ outcome # "none" => pc = "idle"
  /\ mode = "agent" /\ pc # "tools" => content = NoResults
  /\ pc = "setup" => executed = {}

(* The calls that are being executed are those of the last message, and the *)
(* results those of the calls executed so far.                              *)
ToolsInv ==
  pc = "tools" =>
    /\ Len(messages) \in 1 .. MAX_MESSAGES - 1
    /\ messages[Len(messages)].role = ASSISTANT
    /\ calls = Parsed(messages[Len(messages)].ids)
    /\ content.ids = SubSeq(calls, 1, done) \/ TooLarge(content.size)

(* A message with calls waits for its answers at the end of the array, or   *)
(* has them behind it.                                                      *)
Waits(i) == i = Len(messages) /\ (mode = "report" \/ pc \in {"idle", "setup", "tools"})
AnsweredAt(i) ==
  /\ i < Len(messages) /\ messages[i + 1].role = TOOL
  /\ messages[i + 1].ids = messages[i].ids \/ TooLarge(messages[i + 1].size)
CallsInv ==
  \A i \in DOMAIN messages :
    /\ messages[i].role = ASSISTANT
    /\ Len(messages[i].ids) <= MAX_TOOL_CALLS /\ i < MAX_MESSAGES
    => Waits(i) \/ AnsweredAt(i)

AnswersInv ==
  \A i \in DOMAIN messages :
    messages[i].role = TOOL =>
      /\ i > 1 /\ messages[i - 1].role = ASSISTANT
      /\ \/ TooLarge(messages[i].size)
         \/ Legible(messages[i]) /\ IsPrefix(messages[i].ids, messages[i - 1].ids)

(* What was sent is the request of the messages as they still are.          *)
WireInv ==
  mode = "agent" /\ pc \in {"receive", "reply"} =>
    wire = Request /\ (Whole => Answers(messages) \subseteq told)

(* Every tool executed is in the messages or among the results.             *)
Spoilt ==
  \/ \E i \in DOMAIN messages : TooLarge(messages[i].size)
  \/ TooLarge(content.size)
ExecutedInv ==
  mode = "agent" =>
    Spoilt \/ executed \subseteq Answers(messages) \cup ToSet(content.ids)

AskInv ==
  TypeOK /\ PlaceInv /\ ToolsInv /\ CallsInv /\ AnswersInv /\ WireInv
  /\ ExecutedInv /\ NothingUntold
-----------------------------------------------------------------------------
(* Adding up a finite number of natural numbers is defined ...              *)
LEMMA SumExists ==
  ASSUME NEW N \in Nat, NEW s \in [1 .. N -> Nat]
  PROVE  \E u : u = [n \in 0 .. N |-> IF n = 0 THEN 0 ELSE u[n - 1] + s[n]]
<1> DEFINE step == [n \in 1 .. N |-> [x \in Nat |-> x + s[n]]]
<1>1. step \in [1 .. N -> Maps(Nat)]
  BY DEF Maps
<1>2. \E u : Folded(u, N, Nat, 0, step)
  <2> HIDE DEF step
  <2> QED BY <1>1, FoldExists
<1>3. PICK u \in [0 .. N -> Nat] :
        u = [n \in 0 .. N |-> IF n = 0 THEN 0 ELSE step[n][u[n - 1]]]
  <2> HIDE DEF step
  <2> QED BY <1>2 DEF Folded
<1>4. ASSUME NEW n \in 0 .. N
      PROVE  (IF n = 0 THEN 0 ELSE step[n][u[n - 1]]) = (IF n = 0 THEN 0 ELSE u[n - 1] + s[n])
  <2>1. n # 0 => n \in 1 .. N /\ n - 1 \in 0 .. N
    OBVIOUS
  <2>2. n # 0 => u[n - 1] \in Nat
    BY <2>1
  <2> QED BY <2>1, <2>2
<1>5. u = [n \in 0 .. N |-> IF n = 0 THEN 0 ELSE u[n - 1] + s[n]]
  <2> HIDE DEF step
  <2> QED BY <1>3, <1>4
<1> QED BY <1>5

(* ... and the sum is no less than any of them.                             *)
LEMMA SumBounds ==
  ASSUME NEW N \in Nat, NEW s \in [1 .. N -> Nat], NEW u,
         u[0] = 0, \A n \in 1 .. N : u[n] = u[n - 1] + s[n]
  PROVE  u[N] \in Nat /\ \A i \in 1 .. N : s[i] <= u[N]
<1> DEFINE Bounds(n) == u[n] \in Nat /\ \A i \in 1 .. n : s[i] <= u[n]
           T == {n \in Nat : n <= N => Bounds(n)}
<1>1. Bounds(0)
  OBVIOUS
<1>2. ASSUME NEW n \in Nat, n + 1 <= N, Bounds(n) PROVE Bounds(n + 1)
  <2>1. n + 1 \in 1 .. N /\ (n + 1) - 1 = n
    BY <1>2
  <2>2. u[n + 1] = u[n] + s[n + 1] /\ s[n + 1] \in Nat /\ u[n] \in Nat
    BY <1>2, <2>1
  <2>3. ASSUME NEW i \in 1 .. n + 1 PROVE s[i] <= u[n + 1]
    <3>1. CASE i = n + 1
      BY <2>2, <3>1
    <3>2. CASE i # n + 1
      <4>1. i \in 1 .. n /\ i \in 1 .. N
        BY <1>2, <3>2
      <4>2. s[i] \in Nat
        BY <4>1
      <4>3. s[i] <= u[n]
        BY <1>2, <4>1
      <4> QED BY <2>2, <4>2, <4>3
    <3> QED BY <3>1, <3>2
  <2> QED BY <2>2, <2>3
<1> HIDE DEF Bounds
<1>3. 0 \in T
  BY <1>1
<1>4. ASSUME NEW n \in Nat, n \in T PROVE n + 1 \in T
  BY <1>2, <1>4
<1>5. N \in T
  <2> HIDE DEF T
  <2> QED BY <1>3, <1>4, Induction
<1> QED BY <1>5 DEF Bounds

(* The weight of the messages is a number no message exceeds.               *)
LEMMA WeightBounds ==
  ASSUME NEW ms \in Seq(Messages)
  PROVE  Weight(ms) \in Nat /\ \A i \in DOMAIN ms : ms[i].size <= Weight(ms)
<1> DEFINE N == Len(ms)
           s == [i \in 1 .. N |-> ms[i].size]
           Eq(u) == u = [n \in 0 .. N |-> IF n = 0 THEN 0 ELSE u[n - 1] + ms[n].size]
           upto == CHOOSE u : Eq(u)
<1>1. N \in Nat /\ DOMAIN ms = 1 .. N
  OBVIOUS
<1>2. s \in [1 .. N -> Nat]
  <2>1. \A i \in 1 .. N : ms[i] \in Messages
    OBVIOUS
  <2>2. \A i \in 1 .. N : ms[i].size \in Nat
    BY <2>1 DEF Messages
  <2> QED BY <2>2
<1>3. \A i \in 1 .. N : s[i] = ms[i].size
  OBVIOUS
<1>4. Weight(ms) = upto[N]
  BY DEF Weight
<1> HIDE DEF N
<1>5. \E u : Eq(u)
  <2>1. PICK u : u = [n \in 0 .. N |-> IF n = 0 THEN 0 ELSE u[n - 1] + s[n]]
    <3> HIDE DEF s
    <3> QED BY <1>1, <1>2, SumExists
  <2>2. ASSUME NEW n \in 0 .. N
        PROVE  (IF n = 0 THEN 0 ELSE u[n - 1] + s[n])
                 = (IF n = 0 THEN 0 ELSE u[n - 1] + ms[n].size)
    <3>1. n # 0 => n \in 1 .. N
      BY <1>1
    <3> HIDE DEF s
    <3> QED BY <1>3, <3>1
  <2>3. Eq(u)
    <3> HIDE DEF s
    <3> QED BY <2>1, <2>2
  <2> QED BY <2>3
<1>6. Eq(upto)
  <2> HIDE DEF Eq
  <2> QED BY <1>5
<1> HIDE DEF upto, s
<1>7. \A n \in 0 .. N : upto[n] = IF n = 0 THEN 0 ELSE upto[n - 1] + ms[n].size
  BY <1>6
<1> HIDE DEF Eq
<1>8. upto[0] = 0
  BY <1>1, <1>7
<1>9. ASSUME NEW n \in 1 .. N PROVE upto[n] = upto[n - 1] + s[n]
  <2>1. n \in 0 .. N /\ n # 0
    BY <1>1
  <2> QED BY <1>3, <1>7, <2>1
<1>10. upto[N] \in Nat /\ \A i \in 1 .. N : s[i] <= upto[N]
  BY <1>1, <1>2, <1>8, <1>9, SumBounds
<1> QED BY <1>1, <1>3, <1>4, <1>10

(* A body is never empty, so that a request that is whole is one that fits, *)
(* and one that fits has no message that is too large.                      *)
LEMMA BodyBounds ==
  ASSUME TypeOK
  PROVE  /\ BodyLength \in 1 .. REQUEST_BODY - 1
         /\ mode = "agent" /\ Fits(BodyLength) =>
              \A i \in DOMAIN messages : ~TooLarge(messages[i].size)
<1>1. messages \in Seq(Messages)
  BY DEF TypeOK, Messages, Roles
<1>2. REQ \in Nat /\ REQUEST_BODY \in Nat /\ HEADERS \in Nat \ {0} /\ FIXED \in Nat \ {0}
      /\ REPORT \in Nat \ {0} /\ REQ < REQUEST_BODY /\ HEADERS + REPORT < REQ
  BY LimitsAssumption
<1>3. CASE mode = "report"
  BY <1>2, <1>3 DEF BodyLength
<1>4. CASE mode # "report"
  <2> DEFINE W == Weight(messages)  L == FIXED + W
  <2>1. W \in Nat /\ \A i \in DOMAIN messages : messages[i].size <= W
    BY <1>1, WeightBounds
  <2>2. \A i \in DOMAIN messages : messages[i].size \in Nat
    <3>1. \A i \in DOMAIN messages : messages[i] \in Messages
      BY <1>1
    <3> QED BY <3>1 DEF Messages
  <2> HIDE DEF W
  <2>3. \/ Min({REQUEST_BODY - 1, L}) = REQUEST_BODY - 1 /\ REQUEST_BODY - 1 <= L
        \/ Min({REQUEST_BODY - 1, L}) = L /\ L <= REQUEST_BODY - 1
    BY <1>2, <2>1 DEF Min
  <2>4. BodyLength = Min({REQUEST_BODY - 1, L})
    BY <1>4 DEF BodyLength, W
  <2>5. BodyLength \in 1 .. REQUEST_BODY - 1
    BY <1>2, <2>1, <2>3, <2>4
  <2>6. ASSUME Fits(BodyLength), NEW i \in DOMAIN messages
        PROVE  ~TooLarge(messages[i].size)
    <3>1. HEADERS + L < REQ
      BY <1>2, <2>1, <2>3, <2>4, <2>6 DEF Fits
    <3> QED BY <1>2, <2>1, <2>2, <3>1 DEF TooLarge
  <2> QED BY <2>5, <2>6
<1> QED BY <1>3, <1>4
LEMMA RequestBounds ==
  ASSUME TypeOK
  PROVE  /\ Request \in [announced : 0 .. REQUEST_BODY - 1, sent : 0 .. REQ - 1]
         /\ Request.sent = Request.announced <=> Fits(BodyLength)
<1>1. BodyLength \in 1 .. REQUEST_BODY - 1
  BY BodyBounds
<1>2. REQ \in Nat \ {0} /\ REQUEST_BODY \in Nat /\ HEADERS \in Nat \ {0}
  BY LimitsAssumption
<1>3. /\ Request.announced = BodyLength
      /\ Request.sent = IF Fits(BodyLength) THEN BodyLength ELSE 0
      /\ \A s \in 0 .. REQ - 1, a \in 0 .. REQUEST_BODY - 1 :
           [announced |-> a, sent |-> s]
             \in [announced : 0 .. REQUEST_BODY - 1, sent : 0 .. REQ - 1]
  BY DEF Request
<1>4. Fits(BodyLength) => BodyLength \in 0 .. REQ - 1
  BY <1>1, <1>2 DEF Fits
<1>5. (IF Fits(BodyLength) THEN BodyLength ELSE 0) \in 0 .. REQ - 1
  BY <1>2, <1>4
<1>6. Request \in [announced : 0 .. REQUEST_BODY - 1, sent : 0 .. REQ - 1]
  BY <1>1, <1>3, <1>5 DEF Request
<1>7. Request.sent = Request.announced <=> Fits(BodyLength)
  BY <1>1, <1>3
<1> QED BY <1>6, <1>7

(* The calls answered are calls, and stay answered as the array grows.      *)
LEMMA AnswersTyped ==
  ASSUME NEW ms \in Seq(Messages)
  PROVE  Answers(ms) \subseteq Ids
<1>1. \A i \in DOMAIN ms : ms[i] \in Messages
  OBVIOUS
<1>2. \A i \in DOMAIN ms : ms[i].ids \in Seq(Ids)
  BY <1>1 DEF Messages
<1>3. \A i \in DOMAIN ms : ToSet(ms[i].ids) \subseteq Ids
  <2> SUFFICES ASSUME NEW i \in DOMAIN ms, NEW j \in DOMAIN ms[i].ids
               PROVE  ms[i].ids[j] \in Ids
    BY DEF ToSet
  <2> QED BY <1>2
<1> QED BY <1>3 DEF Answers

LEMMA AnswersGrow ==
  ASSUME NEW ms \in Seq(Messages), NEW m \in Messages
  PROVE  /\ Answers(ms) \subseteq Answers(Append(ms, m))
         /\ m.role = TOOL /\ Legible(m) => ToSet(m.ids) \subseteq Answers(Append(ms, m))
<1> DEFINE new == Append(ms, m)
<1>1. /\ new \in Seq(Messages) /\ DOMAIN new = 1 .. Len(ms) + 1
      /\ DOMAIN ms = 1 .. Len(ms) /\ Len(ms) + 1 \in DOMAIN new
      /\ \A i \in DOMAIN ms : i \in DOMAIN new /\ new[i] = ms[i]
      /\ new[Len(ms) + 1] = m
  OBVIOUS
<1> HIDE DEF new
<1>2. Answers(ms) \subseteq Answers(new)
  BY <1>1 DEF Answers
<1>3. m.role = TOOL /\ Legible(m) => ToSet(m.ids) \subseteq Answers(new)
  BY <1>1 DEF Answers
<1> QED BY <1>2, <1>3 DEF new

-----------------------------------------------------------------------------
(* The limits are numbers, and the counters keep within them.               *)
LEMMA Limits ==
  /\ MAX_TOOL_ROUNDS \in Nat \ {0} /\ MAX_TOOL_CALLS \in Nat \ {0}
  /\ MAX_MESSAGES \in Nat \ {0} /\ CONTENT \in Nat \ {0} /\ SAFETY \in Nat \ {0}
  /\ REQUEST_BODY \in Nat \ {0} /\ REQ \in Nat \ {0}
  /\ HEADERS \in Nat \ {0} /\ FIXED \in Nat \ {0}
BY LimitsAssumption

LEMMA Counters ==
  ASSUME TypeOK
  PROVE  /\ round \in Nat /\ round <= MAX_TOOL_ROUNDS
         /\ Len(calls) \in Nat /\ Len(calls) <= MAX_TOOL_CALLS /\ done \in 0 .. Len(calls)
         /\ content.size \in Nat /\ content.size <= CONTENT - 1
<1>1. /\ round \in 0 .. MAX_TOOL_ROUNDS /\ content.size \in 0 .. CONTENT - 1
      /\ Len(calls) <= MAX_TOOL_CALLS /\ calls \in Seq(Ids) /\ done \in 0 .. Len(calls)
  BY DEF TypeOK
<1> QED BY <1>1, Limits

(* The start, and the types.                                                *)
LEMMA InitTypes == Init => AskInv
<1> SUFFICES ASSUME Init PROVE AskInv
  OBVIOUS
<1> USE DEF Init
<1>1. /\ << >> \in Seq(Ids) /\ << >> \in Seq(Messages)
      /\ Len(<< >>) = 0 /\ 0 \in Nat /\ DOMAIN << >> = {}
  BY LimitsAssumption
<1>2. /\ MAX_TOOL_ROUNDS \in Nat \ {0} /\ MAX_TOOL_CALLS \in Nat \ {0}
      /\ MAX_MESSAGES \in Nat \ {0} /\ CONTENT \in Nat \ {0}
      /\ REQUEST_BODY \in Nat \ {0} /\ REQ \in Nat \ {0}
      /\ ANTHROPIC_API_KEY \in BOOLEAN
  BY LimitsAssumption
<1>3. TypeOK
  BY <1>1, <1>2 DEF TypeOK, Messages, Roles, NoResults, Free, NoRequest
<1>4. PlaceInv /\ ToolsInv /\ WireInv /\ NothingUntold
  BY DEF PlaceInv, ToolsInv, WireInv, NothingUntold
<1>5. CallsInv /\ AnswersInv /\ ExecutedInv
  BY <1>1 DEF CallsInv, AnswersInv, ExecutedInv
<1> QED BY <1>3, <1>4, <1>5 DEF AskInv

LEMMA QuietTypes ==
  ASSUME TypeOK,
         \/ LimitReached \/ StartRound
         \/ Busy \/ NoConnection \/ Connected \/ HandshakeFails \/ HandshakeDone
         \/ SendFails \/ Send \/ NoReply \/ Reply
         \/ ErrorStatus \/ EndTurn \/ Panic \/ Fault
  PROVE  TypeOK'
<1> USE DEF ask, ghosts
<1>1. CASE LimitReached \/ StartRound \/ ErrorStatus \/ EndTurn
  BY <1>1 DEF TypeOK, LimitReached, StartRound, ErrorStatus, EndTurn, Return
<1>2. CASE Busy \/ NoConnection \/ Connected
  BY <1>2 DEF TypeOK, Busy, NoConnection, Connected, Return
<1>3. CASE HandshakeFails \/ HandshakeDone \/ SendFails \/ NoReply \/ Reply
  <2>1. tls' \in {Free, [tls EXCEPT !.connected = TRUE]}
    BY <1>3 DEF HandshakeFails, HandshakeDone, SendFails, NoReply, Reply, Closed
  <2>2. tls' \in [in_use : BOOLEAN, connected : BOOLEAN, tcp : BOOLEAN]
    <3>1. tls \in [in_use : BOOLEAN, connected : BOOLEAN, tcp : BOOLEAN]
      BY DEF TypeOK
    <3>2. [tls EXCEPT !.connected = TRUE]
            \in [in_use : BOOLEAN, connected : BOOLEAN, tcp : BOOLEAN]
      BY <3>1
    <3>3. Free \in [in_use : BOOLEAN, connected : BOOLEAN, tcp : BOOLEAN]
      BY DEF Free
    <3> QED BY <2>1, <3>2, <3>3
  <2>3. pc' \in {"idle", "key", "send", "reply"} /\ outcome' \in {outcome, "failed"}
    BY <1>3 DEF HandshakeFails, HandshakeDone, SendFails, NoReply, Reply, Return
  <2>4. /\ UNCHANGED << configured, mode, irq, round, messages, calls, done, content >>
        /\ UNCHANGED << wire, executed, told >>
    BY <1>3 DEF HandshakeFails, HandshakeDone, SendFails, NoReply, Reply
  <2> QED BY <2>2, <2>3, <2>4 DEF TypeOK
<1>4. CASE Send
  <2>1. wire' \in [announced : 0 .. REQUEST_BODY - 1, sent : 0 .. REQ - 1]
    BY <1>4, RequestBounds DEF Send
  <2>2. told' \subseteq Ids
    <3>1. messages \in Seq(Messages) /\ told \subseteq Ids
      BY DEF TypeOK, Messages, Roles
    <3>2. Answers(messages) \subseteq Ids
      BY <3>1, AnswersTyped
    <3> QED BY <1>4, <3>1, <3>2 DEF Send
  <2>3. /\ UNCHANGED << configured, mode, irq, round, messages, calls, done, content >>
        /\ UNCHANGED << tls, executed, outcome >>
        /\ pc' = "receive"
    BY <1>4 DEF Send
  <2> QED BY <2>1, <2>2, <2>3 DEF TypeOK
<1>5. CASE Panic \/ Fault
  <2>1. /\ UNCHANGED << round, messages, calls, done, content >>
        /\ UNCHANGED << tls, executed, told, outcome >>
        /\ pc' \in {"connect", "key"} /\ mode' = "report"
        /\ irq' \in BOOLEAN /\ configured' \in BOOLEAN
    BY <1>5 DEF Panic, Fault, Reporting, TypeOK
  <2>2. wire' \in [announced : 0 .. REQUEST_BODY - 1, sent : 0 .. REQ - 1]
    <3>1. 0 \in 0 .. REQUEST_BODY - 1 /\ 0 \in 0 .. REQ - 1
      BY LimitsAssumption
    <3> QED BY <1>5, <3>1 DEF Panic, Fault, NoRequest
  <2> QED BY <2>1, <2>2 DEF TypeOK
<1> QED BY <1>1, <1>2, <1>3, <1>4, <1>5
LEMMA CallsTyped ==
  ASSUME TypeOK, round < MAX_TOOL_ROUNDS, NEW n \in 0 .. MAX_CALLS
  PROVE  /\ Calls(n) \in Seq(Ids) /\ Len(Calls(n)) = n
         /\ Parsed(Calls(n)) \in Seq(Ids) /\ Len(Parsed(Calls(n))) <= MAX_TOOL_CALLS
         /\ Len(Parsed(Calls(n))) <= n
         /\ Parsed(Calls(n)) = SubSeq(Calls(n), 1, Len(Parsed(Calls(n))))
         /\ n <= MAX_TOOL_CALLS => Parsed(Calls(n)) = Calls(n)
<1>1. n \in Nat /\ MAX_CALLS \in Nat /\ MAX_TOOL_CALLS \in Nat /\ MAX_TOOL_ROUNDS \in Nat
      /\ round \in 0 .. MAX_TOOL_ROUNDS - 1
  <2>1. MAX_CALLS \in Nat /\ MAX_TOOL_CALLS \in Nat /\ MAX_TOOL_ROUNDS \in Nat
    BY LimitsAssumption
  <2>2. round \in 0 .. MAX_TOOL_ROUNDS
    BY DEF TypeOK
  <2> QED BY <2>1, <2>2
<1>2. Calls(n) \in Seq(Ids) /\ Len(Calls(n)) = n
  <2>1. \A i \in 1 .. n : << round, i >> \in Ids
    BY <1>1 DEF Ids
  <2> QED BY <1>1, <2>1 DEF Calls
<1> DEFINE ids == Calls(n)  m == Min({n, MAX_TOOL_CALLS})
<1> HIDE DEF ids
<1>3. m \in Nat /\ m <= n /\ m <= MAX_TOOL_CALLS /\ (n <= MAX_TOOL_CALLS => m = n)
  BY <1>1 DEF Min
<1>4. Parsed(ids) = SubSeq(ids, 1, m)
  BY <1>2 DEF Parsed, ids
<1> HIDE DEF m
<1>5. ids \in Seq(Ids) /\ Len(ids) = n
  BY <1>2 DEF ids
<1>6. SubSeq(ids, 1, m) \in Seq(Ids) /\ Len(SubSeq(ids, 1, m)) = m
  BY <1>1, <1>3, <1>5
<1>7. SubSeq(ids, 1, n) = ids
  BY <1>5
<1> QED BY <1>3, <1>4, <1>5, <1>6, <1>7 DEF ids

(* Everything a reply with tool calls changes.                              *)
LEMMA ToolUseTypes ==
  ASSUME TypeOK, PlaceInv, ToolUse
  PROVE  TypeOK' /\ round < MAX_TOOL_ROUNDS
<1>1. round \in Nat /\ MAX_TOOL_ROUNDS \in Nat /\ round < MAX_TOOL_ROUNDS
      /\ MAX_MESSAGES \in Nat /\ CONTENT \in Nat \ {0}
  <2>1. round < MAX_TOOL_ROUNDS
    BY DEF PlaceInv, ToolUse
  <2> QED BY <2>1, Limits, Counters
<1>2. PICK n \in 0 .. MAX_CALLS, size \in TextSizes :
        /\ messages' = IF HasRoom THEN Append(messages, Message(ASSISTANT, Calls(n), size))
                       ELSE messages
        /\ IF n = 0 THEN /\ Return("answer")
                         /\ UNCHANGED << round, calls, done, content >>
           ELSE IF Len(messages') < MAX_MESSAGES
           THEN /\ calls' = Parsed(Calls(n)) /\ done' = 0 /\ content' = NoResults
                /\ pc' = "tools"
                /\ UNCHANGED << round, outcome >>
           ELSE /\ round' = Counted /\ pc' = "round"
                /\ UNCHANGED << calls, done, content, outcome >>
  BY DEF ToolUse
<1>3. messages' \in Seq(Messages) /\ Len(messages') <= MAX_MESSAGES
  <2>1. messages \in Seq(Messages) /\ Len(messages) <= MAX_MESSAGES
    BY DEF TypeOK, Messages, Roles
  <2>2. Message(ASSISTANT, Calls(n), size) \in Messages
    <3>1. Calls(n) \in Seq(Ids) /\ size \in Nat
      BY <1>1, CallsTyped, LimitsAssumption
    <3> QED BY <3>1 DEF Message, Messages, Roles
  <2> HIDE DEF Messages
  <2>3. CASE HasRoom
    <3> DEFINE m == Message(ASSISTANT, Calls(n), size)
    <3>1. messages' = Append(messages, m)
      BY <1>2, <2>3
    <3>2. Len(messages) < MAX_MESSAGES
      BY <2>3 DEF HasRoom
    <3> HIDE DEF m
    <3> QED BY <1>1, <2>1, <2>2, <3>1, <3>2 DEF m
  <2>4. CASE ~HasRoom
    BY <1>2, <2>1, <2>4
  <2> QED BY <2>3, <2>4
<1>4. /\ calls' \in Seq(Ids) /\ Len(calls') <= MAX_TOOL_CALLS /\ done' \in 0 .. Len(calls')
      /\ content'.ids \in Seq(Ids) /\ content'.size \in 0 .. CONTENT - 1
  <2>1. CASE UNCHANGED << calls, done, content >>
    BY <2>1 DEF TypeOK
  <2>2. CASE calls' = Parsed(Calls(n)) /\ done' = 0 /\ content' = NoResults
    <3>1. calls' \in Seq(Ids) /\ Len(calls') <= MAX_TOOL_CALLS /\ Len(calls') \in Nat
      <4>1. Parsed(Calls(n)) \in Seq(Ids) /\ Len(Parsed(Calls(n))) <= MAX_TOOL_CALLS
        BY <1>1, CallsTyped
      <4>2. Len(Parsed(Calls(n))) \in Nat
        BY <4>1
      <4> QED BY <2>2, <4>1, <4>2
    <3>2. content'.ids \in Seq(Ids) /\ content'.size \in 0 .. CONTENT - 1
      BY <1>1, <2>2 DEF NoResults
    <3> QED BY <2>2, <3>1, <3>2
  <2> QED BY <1>2, <2>1, <2>2
<1>5. /\ round' \in 0 .. MAX_TOOL_ROUNDS
      /\ outcome' \in {outcome, "answer"} /\ pc' \in {"idle", "key", "tools", "round"}
  BY <1>1, <1>2 DEF Return, Counted
<1>6. UNCHANGED << configured, mode, irq, tls, wire, executed, told >>
  BY DEF ToolUse
<1>7. TypeOK'
  <2>1. messages' \in Seq([role : {USER, ASSISTANT, TOOL}, ids : Seq(Ids), size : Nat])
    BY <1>3 DEF Messages, Roles
  <2>2. /\ mode' \in {"agent", "report"} /\ irq' \in BOOLEAN /\ configured' \in BOOLEAN
        /\ outcome' \in {"none", "no key", "limit", "failed", "error", "answer"}
        /\ tls' \in [in_use : BOOLEAN, connected : BOOLEAN, tcp : BOOLEAN]
        /\ wire' \in [announced : 0 .. REQUEST_BODY - 1, sent : 0 .. REQ - 1]
        /\ executed' \subseteq Ids /\ told' \subseteq Ids
    BY <1>5, <1>6 DEF TypeOK
  <2>3. pc' \in {"idle", "setup", "round", "connect", "handshake", "send", "receive", "reply",
                "tools", "key"}
    BY <1>5
  <2> QED BY <1>3, <1>4, <1>5, <2>1, <2>2, <2>3, Zenon DEF TypeOK
<1> QED BY <1>1, <1>7

(* What the execution of a tool does to the results: nothing, with less     *)
(* than SAFETY left; or they are full; or the result has been added.        *)
LEMMA ExecuteResults ==
  ASSUME TypeOK, Execute
  PROVE  /\ calls[done + 1] \in Ids /\ executed' = executed \cup {calls[done + 1]}
         /\ done' \in 0 .. Len(calls)
         /\ content'.ids \in Seq(Ids) /\ content'.size \in 0 .. CONTENT - 1
         /\ content.size <= content'.size
         /\ \/ content'.size > CONTENT - SAFETY
            \/ content'.size = CONTENT - 1
            \/ content'.ids = Append(content.ids, calls[done + 1]) /\ done' = done + 1
<1> DEFINE id == calls[done + 1]  c == content.size  r == CONTENT - c
<1>1. /\ calls \in Seq(Ids) /\ done \in 0 .. Len(calls) /\ done # Len(calls)
      /\ content.ids \in Seq(Ids) /\ c \in 0 .. CONTENT - 1
      /\ CONTENT \in Nat /\ SAFETY \in Nat
  BY LimitsAssumption DEF TypeOK, Execute, NoMore
<1>2. id \in Ids /\ done + 1 \in 0 .. Len(calls) /\ Len(calls) \in 0 .. Len(calls)
  BY <1>1
<1>3. executed' = executed \cup {id}
  BY DEF Execute
<1>4. CASE r < SAFETY /\ done' = Len(calls) /\ UNCHANGED content
  <2>1. c > CONTENT - SAFETY /\ content'.size = c
    BY <1>1, <1>4
  <2> QED BY <1>1, <1>2, <1>3, <1>4, <2>1
<1>5. CASE /\ done' = done + 1
           /\ \E size \in ResultSizes :
                content' = [ids |-> IF size < r THEN Append(content.ids, id) ELSE content.ids,
                            size |-> c + Stored(size, r)]
  <2>1. PICK size \in ResultSizes :
          content' = [ids |-> IF size < r THEN Append(content.ids, id) ELSE content.ids,
                      size |-> c + Stored(size, r)]
    BY <1>5
  <2>2. size \in Nat /\ r \in Nat /\ r >= 1 /\ r = CONTENT - c
    <3>1. size \in Nat
      BY LimitsAssumption
    <3> HIDE DEF c
    <3> QED BY <1>1, <3>1
  <2>3. Append(content.ids, id) \in Seq(Ids)
    BY <1>1, <1>2
  <2> HIDE DEF id, c, r
  <2>4. Stored(size, r) = IF size <= r - 1 THEN size ELSE r - 1
    BY <2>2 DEF Stored, Min
  <2>5. /\ content'.ids = IF size < r THEN Append(content.ids, id) ELSE content.ids
        /\ content'.size = c + Stored(size, r)
    BY <2>1
  <2>6. /\ content'.ids \in Seq(Ids)
        /\ size < r => content'.ids = Append(content.ids, id)
    BY <1>1, <2>3, <2>5
  <2>7. /\ content'.size \in 0 .. CONTENT - 1 /\ c <= content'.size
        /\ ~(size < r) => content'.size = CONTENT - 1
    BY <1>1, <2>2, <2>4, <2>5
  <2> QED BY <1>2, <1>3, <1>5, <2>6, <2>7 DEF c, id
<1> QED BY <1>4, <1>5 DEF Execute

LEMMA ExecuteTypes ==
  ASSUME TypeOK, Execute
  PROVE  TypeOK'
<1>1. /\ content'.ids \in Seq(Ids) /\ content'.size \in 0 .. CONTENT - 1
      /\ done' \in 0 .. Len(calls) /\ executed' \subseteq Ids
  <2>1. executed \subseteq Ids
    BY DEF TypeOK
  <2> QED BY <2>1, ExecuteResults
<1>2. /\ UNCHANGED << pc, configured, mode, irq, round, messages, calls >>
      /\ UNCHANGED << tls, wire, told, outcome >>
  BY DEF Execute
<1>3. /\ pc' \in {"idle", "setup", "round", "connect", "handshake", "send", "receive", "reply",
                 "tools", "key"}
      /\ mode' \in {"agent", "report"} /\ irq' \in BOOLEAN /\ configured' \in BOOLEAN
      /\ outcome' \in {"none", "no key", "limit", "failed", "error", "answer"}
  BY <1>2 DEF TypeOK
<1>4. /\ round' \in 0 .. MAX_TOOL_ROUNDS
      /\ messages' \in Seq([role : {USER, ASSISTANT, TOOL}, ids : Seq(Ids), size : Nat])
      /\ Len(messages') <= MAX_MESSAGES
      /\ calls' \in Seq(Ids) /\ Len(calls') <= MAX_TOOL_CALLS /\ done' \in 0 .. Len(calls')
  BY <1>1, <1>2 DEF TypeOK
<1>5. /\ tls' \in [in_use : BOOLEAN, connected : BOOLEAN, tcp : BOOLEAN]
      /\ wire' \in [announced : 0 .. REQUEST_BODY - 1, sent : 0 .. REQ - 1]
      /\ told' \subseteq Ids
  BY <1>2 DEF TypeOK
<1> QED BY <1>1, <1>3, <1>4, <1>5, Zenon DEF TypeOK

LEMMA RecordTypes ==
  ASSUME TypeOK, PlaceInv, ToolsInv, Record
  PROVE  TypeOK'
<1>1. /\ messages \in Seq(Messages) /\ Len(messages) < MAX_MESSAGES
      /\ content.ids \in Seq(Ids) /\ content.size \in Nat
      /\ round \in Nat /\ round < MAX_TOOL_ROUNDS
      /\ MAX_TOOL_ROUNDS \in Nat /\ MAX_MESSAGES \in Nat /\ MAX_TOOL_CALLS \in Nat
      /\ CONTENT \in Nat \ {0}
  <2>1. /\ MAX_TOOL_ROUNDS \in Nat /\ MAX_MESSAGES \in Nat /\ MAX_TOOL_CALLS \in Nat
        /\ CONTENT \in Nat \ {0}
    BY LimitsAssumption
  <2>2. messages \in Seq(Messages) /\ content.ids \in Seq(Ids)
    BY DEF TypeOK, Messages, Roles
  <2>3. content.size \in Nat /\ round \in Nat
    BY Counters
  <2>4. pc = "tools" /\ mode = "agent"
    BY DEF TypeOK, PlaceInv, Record
  <2>5. round < MAX_TOOL_ROUNDS
    BY <2>4 DEF PlaceInv
  <2>6. Len(messages) < MAX_MESSAGES
    BY <2>1, <2>4 DEF ToolsInv
  <2> QED BY <2>1, <2>2, <2>3, <2>5, <2>6
<1> DEFINE m == Message(TOOL, content.ids, content.size)
<1>2. m \in Messages
  BY <1>1 DEF Message, Messages, Roles
<1>3. messages' = Append(messages, m)
  BY DEF Record
<1>4. messages' \in Seq(Messages) /\ Len(messages') <= MAX_MESSAGES
  <2> HIDE DEF m
  <2> QED BY <1>1, <1>2, <1>3
<1>5. messages' \in Seq([role : {USER, ASSISTANT, TOOL}, ids : Seq(Ids), size : Nat])
  BY <1>4 DEF Messages, Roles
<1>6. /\ calls' = << >> /\ done' = 0 /\ content' = NoResults
      /\ round' = round + 1 /\ pc' = "round"
      /\ UNCHANGED << configured, mode, irq, tls, wire, executed, told, outcome >>
  BY DEF Record, Counted, ghosts
<1>7. /\ calls' \in Seq(Ids) /\ Len(calls') <= MAX_TOOL_CALLS /\ done' \in 0 .. Len(calls')
      /\ content'.ids \in Seq(Ids) /\ content'.size \in 0 .. CONTENT - 1
  BY <1>1, <1>6 DEF NoResults
<1>8. round' \in 0 .. MAX_TOOL_ROUNDS
  BY <1>1, <1>6
<1> QED BY <1>4, <1>5, <1>6, <1>7, <1>8 DEF TypeOK

LEMMA StartTypes ==
  ASSUME TypeOK, Start
  PROVE  /\ messages' \in Seq(Messages) /\ Len(messages') = 1
         /\ DOMAIN messages' = {1} /\ messages'[1].role = USER
         /\ round' \in 0 .. MAX_TOOL_ROUNDS /\ pc' = "round"
         /\ UNCHANGED << calls, done, content >>
<1>1. PICK size \in TextSizes : messages' = << Message(USER, << >>, size) >>
  BY DEF Start, Begin
<1>2. size \in Nat /\ CONTENT \in Nat /\ MAX_TOOL_ROUNDS \in Nat
  BY LimitsAssumption
<1> DEFINE m == Message(USER, << >>, size)
<1>3. m \in Messages /\ m.role = USER
  BY <1>2 DEF Message, Messages, Roles
<1> HIDE DEF m
<1>4. messages' \in Seq(Messages) /\ Len(messages') = 1 /\ messages'[1] = m
      /\ DOMAIN messages' = {1}
  BY <1>1, <1>3 DEF m
<1> QED BY <1>2, <1>3, <1>4 DEF Start

LEMMA AskTypes ==
  ASSUME TypeOK, Ask \/ SetUp \/ Config
  PROVE  TypeOK'
<1>1. /\ MAX_MESSAGES \in Nat \ {0} /\ REQ \in Nat \ {0} /\ REQUEST_BODY \in Nat \ {0}
  BY LimitsAssumption
<1>2. /\ UNCHANGED << mode, irq, tls >> /\ configured' \in BOOLEAN
      /\ pc' \in {"idle", "key", "setup", "round"}
      /\ executed' \in {executed, {}} /\ told' \in {told, {}} /\ wire' \in {wire, NoRequest}
      /\ outcome' \in {outcome, "none", "no key"}
  BY DEF Ask, SetUp, Config, Start, Return, TypeOK, ghosts
<1>3. wire' \in [announced : 0 .. REQUEST_BODY - 1, sent : 0 .. REQ - 1]
      /\ executed' \subseteq Ids /\ told' \subseteq Ids
  <2>1. NoRequest \in [announced : 0 .. REQUEST_BODY - 1, sent : 0 .. REQ - 1]
    BY <1>1 DEF NoRequest
  <2>2. /\ wire \in [announced : 0 .. REQUEST_BODY - 1, sent : 0 .. REQ - 1]
        /\ executed \subseteq Ids /\ told \subseteq Ids
    BY DEF TypeOK
  <2> QED BY <1>2, <2>1, <2>2
<1>4. CASE UNCHANGED ask
  <2>1. UNCHANGED << round, messages, calls, done, content >>
    BY <1>4 DEF ask
  <2> QED BY <1>2, <1>3, <2>1 DEF TypeOK
<1>5. CASE Start
  <2>1. messages' \in Seq([role : {USER, ASSISTANT, TOOL}, ids : Seq(Ids), size : Nat])
        /\ Len(messages') = 1
    BY <1>5, StartTypes DEF Messages, Roles
  <2>2. round' \in 0 .. MAX_TOOL_ROUNDS /\ UNCHANGED << calls, done, content >>
    BY <1>5, StartTypes
  <2>3. Len(messages') <= MAX_MESSAGES
    BY <1>1, <2>1
  <2>4. /\ mode \in {"agent", "report"} /\ irq \in BOOLEAN
        /\ calls \in Seq(Ids) /\ Len(calls) <= MAX_TOOL_CALLS /\ done \in 0 .. Len(calls)
        /\ content.ids \in Seq(Ids) /\ content.size \in 0 .. CONTENT - 1
        /\ tls \in [in_use : BOOLEAN, connected : BOOLEAN, tcp : BOOLEAN]
        /\ outcome \in {"none", "no key", "limit", "failed", "error", "answer"}
    BY DEF TypeOK
  <2>5. pc' \in {"idle", "setup", "round", "connect", "handshake", "send", "receive", "reply",
                "tools", "key"}
    BY <1>2
  <2>6. outcome' \in {"none", "no key", "limit", "failed", "error", "answer"}
    BY <1>2, <2>4
  <2>7. /\ calls' \in Seq(Ids) /\ Len(calls') <= MAX_TOOL_CALLS /\ done' \in 0 .. Len(calls')
        /\ content'.ids \in Seq(Ids) /\ content'.size \in 0 .. CONTENT - 1
    BY <2>2, <2>4
  <2>8. /\ mode' \in {"agent", "report"} /\ irq' \in BOOLEAN
        /\ tls' \in [in_use : BOOLEAN, connected : BOOLEAN, tcp : BOOLEAN]
    BY <1>2, <2>4
  <2> QED BY <1>2, <1>3, <2>1, <2>2, <2>3, <2>5, <2>6, <2>7, <2>8, Zenon DEF TypeOK
<1> QED BY <1>4, <1>5 DEF Ask, SetUp, Config
-----------------------------------------------------------------------------
(* The steps that leave the messages, the results and what was executed as  *)
(* they are: the network's, and the ways out.                               *)
Quiet ==
  /\ UNCHANGED << round, messages, calls, done, content, executed >>
  /\ pc' # "tools"
  /\ mode = "report" => mode' = "report"
  /\ pc \in {"idle", "setup", "tools"} => mode' = "report"

LEMMA QuietSteps ==
  ASSUME TypeOK, PlaceInv,
         \/ LimitReached \/ StartRound
         \/ Busy \/ NoConnection \/ Connected \/ HandshakeFails \/ HandshakeDone
         \/ SendFails \/ Send \/ NoReply \/ Reply
         \/ ErrorStatus \/ EndTurn \/ Panic \/ Fault
  PROVE  Quiet
<1> USE DEF ask, ghosts, Quiet
<1>1. CASE LimitReached \/ StartRound \/ ErrorStatus \/ EndTurn
  BY <1>1 DEF LimitReached, StartRound, ErrorStatus, EndTurn, Return
<1>2. CASE Busy \/ NoConnection \/ Connected
  BY <1>2 DEF Busy, NoConnection, Connected, Return
<1>3. CASE HandshakeFails \/ HandshakeDone \/ SendFails \/ NoReply \/ Reply
  BY <1>3 DEF HandshakeFails, HandshakeDone, SendFails, NoReply, Reply, Return
<1>4. CASE Send
  BY <1>4 DEF Send
<1>5. CASE Panic \/ Fault
  BY <1>5 DEF Panic, Fault, Reporting
<1> QED BY <1>1, <1>2, <1>3, <1>4, <1>5

LEMMA QuietMessages ==
  ASSUME TypeOK, CallsInv, AnswersInv, ExecutedInv, Quiet
  PROVE  ToolsInv' /\ CallsInv' /\ AnswersInv' /\ ExecutedInv'
<1>1. ToolsInv'
  BY DEF ToolsInv, Quiet
<1>2. CallsInv'
  <2> SUFFICES ASSUME NEW i \in DOMAIN messages,
                      messages[i].role = ASSISTANT,
                      Len(messages[i].ids) <= MAX_TOOL_CALLS, i < MAX_MESSAGES
               PROVE  Waits(i)' \/ AnsweredAt(i)'
    BY DEF CallsInv, Quiet
  <2>1. Waits(i) \/ AnsweredAt(i)
    BY DEF CallsInv
  <2>2. Waits(i) => Waits(i)'
    BY DEF Waits, Quiet
  <2>3. AnsweredAt(i) => AnsweredAt(i)'
    BY DEF AnsweredAt, Quiet
  <2> QED BY <2>1, <2>2, <2>3
<1>3. AnswersInv'
  BY DEF AnswersInv, Quiet
<1>4. ExecutedInv'
  <2> SUFFICES ASSUME mode' = "agent"
               PROVE  Spoilt' \/ executed' \subseteq Answers(messages') \cup ToSet(content'.ids)
    BY DEF ExecutedInv
  <2>1. mode = "agent"
    BY DEF Quiet, TypeOK
  <2>2. Spoilt \/ executed \subseteq Answers(messages) \cup ToSet(content.ids)
    BY <2>1 DEF ExecutedInv
  <2>3. messages' = messages /\ content' = content /\ executed' = executed
    BY DEF Quiet
  <2>4. Spoilt => Spoilt'
    BY <2>3 DEF Spoilt
  <2> QED BY <2>2, <2>3, <2>4
<1> QED BY <1>1, <1>2, <1>3, <1>4

(* A reply to a request that was whole: no result has been left out, and    *)
(* the server has all of them.                                              *)
LEMMA ServerKnows ==
  ASSUME TypeOK, PlaceInv, WireInv, ExecutedInv,
         mode = "agent", pc = "reply", Whole
  PROVE  executed \subseteq told
<1>1. Fits(BodyLength) /\ Answers(messages) \subseteq told
  BY RequestBounds DEF WireInv, Whole
<1>2. \A i \in DOMAIN messages : ~TooLarge(messages[i].size)
  BY <1>1, BodyBounds
<1>3. content = NoResults
  BY DEF PlaceInv
<1>4. ~TooLarge(content.size)
  <2>1. HEADERS + REPORT < REQ /\ HEADERS \in Nat /\ FIXED \in Nat
        /\ REQ \in Nat
    BY LimitsAssumption
  <2>2. BodyLength \in 1 .. REQUEST_BODY - 1 /\ HEADERS + BodyLength < REQ
    BY <1>1, BodyBounds DEF Fits
  <2>3. HEADERS + FIXED < REQ
    <3>1. BodyLength = Min({REQUEST_BODY - 1, FIXED + Weight(messages)})
      BY DEF BodyLength
    <3>2. Weight(messages) \in Nat
      <4>1. messages \in Seq(Messages)
        BY DEF TypeOK, Messages, Roles
      <4> QED BY <4>1, WeightBounds
    <3>3. REQ < REQUEST_BODY /\ REQUEST_BODY \in Nat /\ HEADERS \in Nat \ {0}
      BY LimitsAssumption
    <3>4. BodyLength \in {REQUEST_BODY - 1, FIXED + Weight(messages)}
      BY <2>1, <3>1, <3>2, <3>3 DEF Min
    <3> QED BY <2>1, <2>2, <3>2, <3>3, <3>4
  <2>4. content.size = 0
    BY <1>3 DEF NoResults
  <2> QED BY <2>1, <2>3, <2>4 DEF TooLarge
<1>5. ToSet(content.ids) = {}
  <2>1. content.ids = << >>
    BY <1>3 DEF NoResults
  <2> QED BY <2>1 DEF ToSet
<1>6. executed \subseteq Answers(messages) \cup ToSet(content.ids)
  BY <1>2, <1>4 DEF ExecutedInv, Spoilt
<1> QED BY <1>1, <1>5, <1>6

LEMMA QuietPlaces ==
  ASSUME AskInv,
         \/ LimitReached \/ StartRound
         \/ Busy \/ NoConnection \/ Connected \/ HandshakeFails \/ HandshakeDone
         \/ SendFails \/ Send \/ NoReply \/ Reply
         \/ ErrorStatus \/ EndTurn \/ Panic \/ Fault
  PROVE  PlaceInv' /\ WireInv' /\ NothingUntold'
<1> USE DEF ask, ghosts
<1>0. PlaceInv /\ WireInv /\ ExecutedInv /\ TypeOK /\ mode \in {"agent", "report"}
  BY DEF AskInv, TypeOK
<1>1. CASE LimitReached \/ StartRound \/ ErrorStatus
  <2>1. PlaceInv'
    BY <1>0, <1>1 DEF PlaceInv, LimitReached, StartRound, ErrorStatus, Return, AnotherRound
  <2>2. pc' \notin {"receive", "reply"} /\ (mode' = "agent" => outcome' # "answer")
    BY <1>0, <1>1 DEF PlaceInv, LimitReached, StartRound, ErrorStatus, Return
  <2> QED BY <2>1, <2>2 DEF WireInv, NothingUntold
<1>2. CASE Busy \/ NoConnection \/ Connected
  <2>1. PlaceInv'
    BY <1>0, <1>2 DEF PlaceInv, Busy, NoConnection, Connected, Return
  <2>2. pc' \notin {"receive", "reply"} /\ (mode' = "agent" => outcome' # "answer")
    BY <1>0, <1>2 DEF PlaceInv, Busy, NoConnection, Connected, Return
  <2> QED BY <2>1, <2>2 DEF WireInv, NothingUntold
<1>3. CASE HandshakeFails \/ HandshakeDone \/ SendFails \/ NoReply
  <2>1. PlaceInv'
    BY <1>0, <1>3 DEF PlaceInv, HandshakeFails, HandshakeDone, SendFails, NoReply, Return
  <2>2. pc' \notin {"receive", "reply"} /\ (mode' = "agent" => outcome' # "answer")
    BY <1>0, <1>3 DEF PlaceInv, HandshakeFails, HandshakeDone, SendFails, NoReply, Return
  <2> QED BY <2>1, <2>2 DEF WireInv, NothingUntold
<1>4. CASE Send
  <2>1. PlaceInv' /\ (mode' = "agent" => outcome' # "answer")
    BY <1>0, <1>4 DEF PlaceInv, Send
  <2>2. ASSUME mode' = "agent" PROVE wire' = Request' /\ (Whole' => Answers(messages') \subseteq told')
    <3>1. mode = "agent" /\ mode' = mode /\ messages' = messages /\ wire' = Request
      BY <1>4, <2>2 DEF Send
    <3>2. Request' = Request
      BY <3>1 DEF Request, BodyLength
    <3>3. Whole' => Fits(BodyLength)
      BY <1>0, <3>1, RequestBounds DEF Whole
    <3>4. Fits(BodyLength) => told' = told \cup Answers(messages)
      BY <1>4, <3>1 DEF Send
    <3> QED BY <3>1, <3>2, <3>3, <3>4
  <2> QED BY <2>1, <2>2 DEF WireInv, NothingUntold
<1>5. CASE Reply
  <2>1. PlaceInv' /\ (mode' = "agent" => outcome' # "answer")
    BY <1>0, <1>5 DEF PlaceInv, Reply
  <2>2. /\ mode' = mode /\ messages' = messages /\ wire' = wire /\ told' = told
        /\ pc = "receive"
    BY <1>5 DEF Reply
  <2>3. Request' = Request /\ Whole' = Whole
    BY <2>2 DEF Request, BodyLength, Whole
  <2> QED BY <1>0, <2>1, <2>2, <2>3 DEF WireInv, NothingUntold
<1>6. CASE EndTurn
  <2>1. PlaceInv' /\ pc' \notin {"receive", "reply"}
    BY <1>0, <1>6 DEF PlaceInv, EndTurn, Return
  <2>2. mode' = mode /\ executed' = executed /\ told' = told /\ pc = "reply" /\ Whole
    BY <1>6 DEF EndTurn
  <2>3. mode = "agent" => executed \subseteq told
    BY <1>0, <2>2, ServerKnows
  <2> QED BY <2>1, <2>2, <2>3 DEF WireInv, NothingUntold
<1>7. CASE Panic \/ Fault
  <2>1. mode' = "report" /\ pc' \in {"connect", "key"}
    BY <1>7 DEF Panic, Fault, Reporting
  <2> QED BY <2>1 DEF PlaceInv, WireInv, NothingUntold
<1> QED BY <1>1, <1>2, <1>3, <1>4, <1>5, <1>6, <1>7

LEMMA QuietKeeps ==
  ASSUME AskInv,
         \/ LimitReached \/ StartRound
         \/ Busy \/ NoConnection \/ Connected \/ HandshakeFails \/ HandshakeDone
         \/ SendFails \/ Send \/ NoReply \/ Reply
         \/ ErrorStatus \/ EndTurn \/ Panic \/ Fault
  PROVE  AskInv'
<1>1. TypeOK /\ PlaceInv /\ CallsInv /\ AnswersInv /\ ExecutedInv
  BY DEF AskInv
<1>2. TypeOK'
  BY <1>1, QuietTypes
<1>3. Quiet
  BY <1>1, QuietSteps
<1>4. ToolsInv' /\ CallsInv' /\ AnswersInv' /\ ExecutedInv'
  BY <1>1, <1>3, QuietMessages
<1>5. PlaceInv' /\ WireInv' /\ NothingUntold'
  BY QuietPlaces
<1> QED BY <1>2, <1>4, <1>5 DEF AskInv

LEMMA RebootKeeps == ASSUME Reboot PROVE AskInv'
<1>1. Init'
  BY DEF Reboot, Init
<1> QED BY <1>1, InitTypes, PTL
-----------------------------------------------------------------------------
(* The steps that change the messages.                                      *)
LEMMA AskKeeps ==
  ASSUME AskInv, Ask \/ SetUp \/ Config
  PROVE  AskInv'
<1>1. TypeOK /\ PlaceInv /\ CallsInv /\ AnswersInv /\ ExecutedInv /\ NothingUntold
      /\ mode = "agent" /\ content = NoResults
  BY DEF AskInv, PlaceInv, TypeOK, Ask, SetUp, Config
<1>2. TypeOK'
  BY <1>1, AskTypes
<1>3. /\ pc \in {"idle", "setup"} /\ pc' \in {"idle", "setup", "round"}
      /\ mode' = mode /\ content' = content
      /\ outcome' # "none" => pc' = "idle"
      /\ outcome' = "answer" => outcome = "answer" /\ executed' = executed /\ told' = told
      /\ executed' \in {executed, {}}
      /\ pc' = "setup" => executed' = {}
  BY <1>1 DEF PlaceInv, Ask, SetUp, Config, Start, Return, ask, ghosts
<1>4. PlaceInv' /\ ToolsInv' /\ WireInv' /\ NothingUntold'
  <2>1. PlaceInv'
    BY <1>1, <1>3 DEF PlaceInv
  <2>2. ToolsInv' /\ WireInv'
    BY <1>3 DEF ToolsInv, WireInv
  <2>3. NothingUntold'
    BY <1>1, <1>3 DEF NothingUntold
  <2> QED BY <2>1, <2>2, <2>3
<1>5. CASE UNCHANGED messages /\ pc' \in {"idle", "setup"}
  <2>1. CallsInv' /\ AnswersInv'
    BY <1>1, <1>3, <1>5 DEF CallsInv, AnswersInv, Waits, AnsweredAt
  <2>2. ExecutedInv'
    BY <1>1, <1>3, <1>5 DEF ExecutedInv, Spoilt
  <2> QED BY <1>2, <1>4, <2>1, <2>2 DEF AskInv
<1>6. CASE Start /\ executed' = {}
  <2>1. CallsInv' /\ AnswersInv'
    BY <1>1, <1>6, StartTypes DEF CallsInv, AnswersInv, USER, ASSISTANT, TOOL
  <2>2. ExecutedInv'
    BY <1>6 DEF ExecutedInv
  <2> QED BY <1>2, <1>4, <2>1, <2>2 DEF AskInv
<1>7. SetUp => executed = {}
  BY <1>1 DEF SetUp, PlaceInv
<1> QED BY <1>1, <1>5, <1>6, <1>7 DEF Ask, SetUp, Config, Return, ask, ghosts

LEMMA ParsedPrefix ==
  ASSUME NEW ids \in Seq(Ids)
  PROVE  /\ IsPrefix(Parsed(ids), ids)
         /\ Len(ids) <= MAX_TOOL_CALLS => Parsed(ids) = ids
<1> DEFINE m == Min({Len(ids), MAX_TOOL_CALLS})
<1>1. m \in Nat /\ m <= Len(ids) /\ (Len(ids) <= MAX_TOOL_CALLS => m = Len(ids))
  <2>1. Len(ids) \in Nat /\ MAX_TOOL_CALLS \in Nat
    BY LimitsAssumption
  <2>2. m = IF Len(ids) <= MAX_TOOL_CALLS THEN Len(ids) ELSE MAX_TOOL_CALLS
    BY <2>1 DEF Min
  <2> QED BY <2>1, <2>2
<1>2. Parsed(ids) = SubSeq(ids, 1, m)
  BY DEF Parsed
<1> HIDE DEF m
<1>3. Len(SubSeq(ids, 1, m)) = m /\ SubSeq(SubSeq(ids, 1, m), 1, m) = SubSeq(ids, 1, m)
  BY <1>1
<1>4. SubSeq(ids, 1, Len(ids)) = ids
  OBVIOUS
<1> QED BY <1>1, <1>2, <1>3, <1>4 DEF IsPrefix

(* What makes results illegible also keeps them from being sent.            *)
LEMMA FullIsTooLarge ==
  ASSUME NEW size \in Nat, size > CONTENT - SAFETY \/ size >= CONTENT - 1
  PROVE  TooLarge(size)
<1>1. /\ HEADERS \in Nat /\ FIXED \in Nat /\ CONTENT \in Nat /\ SAFETY \in Nat \ {0}
      /\ REQ \in Nat /\ HEADERS + FIXED + CONTENT - SAFETY >= REQ
  BY LimitsAssumption, ReqIsTightest
<1> QED BY <1>1 DEF TooLarge

LEMMA ExecuteKeeps ==
  ASSUME AskInv, Execute
  PROVE  AskInv'
<1>1. /\ TypeOK /\ PlaceInv /\ ToolsInv /\ CallsInv /\ AnswersInv /\ ExecutedInv
      /\ pc = "tools" /\ mode = "agent"
      /\ outcome = "none"
  BY DEF AskInv, PlaceInv, TypeOK, Execute
<1>2. UNCHANGED << pc, mode, irq, round, messages, calls, tls, wire, told, outcome >>
  BY DEF Execute
<1>3. /\ calls \in Seq(Ids) /\ done \in 0 .. Len(calls) /\ done # Len(calls)
      /\ content.ids \in Seq(Ids) /\ content.size \in Nat /\ content'.size \in Nat
      /\ HEADERS \in Nat /\ FIXED \in Nat /\ REQ \in Nat
  <2>1. content.size \in 0 .. CONTENT - 1 /\ content'.size \in 0 .. CONTENT - 1
        /\ CONTENT \in Nat /\ HEADERS \in Nat /\ FIXED \in Nat /\ REQ \in Nat
    BY <1>1, ExecuteResults, LimitsAssumption DEF TypeOK
  <2> QED BY <1>1, <2>1 DEF TypeOK, Execute, NoMore
<1> DEFINE id == calls[done + 1]
<1>4. executed' = executed \cup {id} /\ content.size <= content'.size
  BY <1>1, ExecuteResults
(* Either the result is added or there is a reason why nothing goes out.    *)
<1>5. \/ TooLarge(content'.size)
      \/ content'.ids = Append(content.ids, id) /\ done' = done + 1
  <2>1. CASE content'.size > CONTENT - SAFETY
    BY <1>3, <2>1, FullIsTooLarge
  <2>2. CASE content'.size = CONTENT - 1
    <3>1. content'.size >= CONTENT - 1
      BY <1>3, <2>2
    <3> QED BY <1>3, <3>1, FullIsTooLarge
  <2> QED BY <1>1, <2>1, <2>2, ExecuteResults
<1>6. TooLarge(content.size) => TooLarge(content'.size)
  BY <1>3, <1>4 DEF TooLarge
<1>7. TypeOK'
  BY <1>1, ExecuteTypes
<1>8. PlaceInv' /\ WireInv' /\ NothingUntold'
  BY <1>1, <1>2 DEF PlaceInv, WireInv, NothingUntold
<1>9. ToolsInv'
  <2>1. content'.ids = SubSeq(calls, 1, done') \/ TooLarge(content'.size)
    <3> SUFFICES ASSUME ~TooLarge(content'.size)
                 PROVE  content'.ids = SubSeq(calls, 1, done')
      OBVIOUS
    <3>1. content.ids = SubSeq(calls, 1, done)
      BY <1>1, <1>6 DEF ToolsInv
    <3>2. content'.ids = Append(content.ids, id) /\ done' = done + 1
      BY <1>5
    <3>3. SubSeq(calls, 1, done + 1) = Append(SubSeq(calls, 1, done), calls[done + 1])
      BY <1>3
    <3> QED BY <3>1, <3>2, <3>3
  <2> QED BY <1>1, <1>2, <2>1 DEF ToolsInv
<1>10. CallsInv' /\ AnswersInv'
  BY <1>1, <1>2 DEF CallsInv, AnswersInv, Waits, AnsweredAt
<1>11. ExecutedInv'
  <2>1. CASE Spoilt \/ TooLarge(content'.size)
    BY <1>2, <1>6, <2>1 DEF Spoilt, ExecutedInv
  <2>2. CASE ~(Spoilt \/ TooLarge(content'.size))
    <3>1. executed \subseteq Answers(messages) \cup ToSet(content.ids)
      BY <1>1, <2>2 DEF ExecutedInv
    <3>2. content'.ids = Append(content.ids, id)
      BY <1>5, <2>2
    <3>3. ToSet(content.ids) \subseteq ToSet(content'.ids) /\ id \in ToSet(content'.ids)
      <4> DEFINE s == content.ids
      <4>1. s \in Seq(Ids) /\ content'.ids = Append(s, id)
        BY <1>3, <3>2
      <4> HIDE DEF s, id
      <4>2. /\ DOMAIN s = 1 .. Len(s) /\ DOMAIN Append(s, id) = 1 .. Len(s) + 1
            /\ \A i \in 1 .. Len(s) : Append(s, id)[i] = s[i]
            /\ Append(s, id)[Len(s) + 1] = id /\ Len(s) \in Nat
        BY <4>1
      <4>3. ToSet(s) \subseteq ToSet(Append(s, id)) /\ id \in ToSet(Append(s, id))
        BY <4>2 DEF ToSet
      <4> QED BY <4>1, <4>3 DEF s
    <3>4. executed' \subseteq Answers(messages') \cup ToSet(content'.ids)
      <4>1. executed' = executed \cup {id} /\ messages' = messages
        BY <1>2, <1>4
      <4> HIDE DEF id
      <4> QED BY <3>1, <3>3, <4>1
    <3> QED BY <3>4 DEF ExecutedInv
  <2> QED BY <2>1, <2>2
<1> QED BY <1>7, <1>8, <1>9, <1>10, <1>11 DEF AskInv

LEMMA RecordKeeps ==
  ASSUME AskInv, Record
  PROVE  AskInv'
<1>1. /\ TypeOK /\ PlaceInv /\ ToolsInv /\ CallsInv /\ AnswersInv /\ ExecutedInv
      /\ pc = "tools" /\ mode = "agent" /\ outcome = "none"
  BY DEF AskInv, PlaceInv, TypeOK, Record
<1> DEFINE L == Len(messages)
           m == Message(TOOL, content.ids, content.size)
<1>2. /\ messages \in Seq(Messages) /\ L \in 1 .. MAX_MESSAGES - 1 /\ L \in Nat
      /\ messages[L].role = ASSISTANT /\ messages[L].ids \in Seq(Ids)
      /\ calls = Parsed(messages[L].ids) /\ calls \in Seq(Ids) /\ done = Len(calls)
      /\ content.ids \in Seq(Ids) /\ content.size \in Nat
  <2>1. messages \in Seq(Messages) /\ calls \in Seq(Ids) /\ content.ids \in Seq(Ids)
    BY <1>1 DEF TypeOK, Messages, Roles
  <2>2. L \in 1 .. MAX_MESSAGES - 1 /\ L \in Nat
        /\ messages[L].role = ASSISTANT /\ calls = Parsed(messages[L].ids)
    BY <1>1, <2>1 DEF ToolsInv
  <2>3. messages[L] \in Messages
    BY <2>1, <2>2
  <2>4. content.size \in Nat
    <3>1. CONTENT \in Nat /\ content.size \in 0 .. CONTENT - 1
      BY <1>1, LimitsAssumption DEF TypeOK
    <3> QED BY <3>1
  <2>5. done = Len(calls)
    BY DEF Record, NoMore
  <2> QED BY <2>1, <2>2, <2>3, <2>4, <2>5 DEF Messages
<1>3. /\ calls' = << >> /\ done' = 0 /\ content' = NoResults /\ pc' = "round"
      /\ messages' = Append(messages, m)
      /\ UNCHANGED << mode, irq, tls, wire, executed, told, outcome >>
  BY DEF Record, ghosts
<1>4. m \in Messages /\ m.role = TOOL /\ m.ids = content.ids /\ m.size = content.size
  BY <1>2 DEF Message, Messages, Roles
<1> HIDE DEF m, L
<1>5. /\ DOMAIN messages = 1 .. L /\ DOMAIN messages' = 1 .. L + 1 /\ Len(messages') = L + 1
      /\ \A i \in 1 .. L : messages'[i] = messages[i]
      /\ messages'[L + 1] = m
  BY <1>2, <1>3, <1>4 DEF L
<1>6. (content.ids = calls /\ Legible(m)) \/ TooLarge(content.size)
  <2>1. SubSeq(calls, 1, Len(calls)) = calls
    BY <1>2
  <2>2. content.size < CONTENT - 1 \/ content.size >= CONTENT - 1
    BY <1>2, Limits
  <2>3. Legible(m) \/ TooLarge(content.size)
    BY <1>2, <1>4, <2>2, FullIsTooLarge DEF Legible
  <2> QED BY <1>1, <1>2, <2>1, <2>3 DEF ToolsInv
<1>7. TypeOK'
  BY <1>1, RecordTypes
<1>8. PlaceInv' /\ ToolsInv' /\ WireInv' /\ NothingUntold'
  BY <1>1, <1>3 DEF PlaceInv, ToolsInv, WireInv, NothingUntold
<1>9. CallsInv'
  <2> SUFFICES ASSUME NEW i \in 1 .. L + 1,
                      messages'[i].role = ASSISTANT,
                      Len(messages'[i].ids) <= MAX_TOOL_CALLS, i < MAX_MESSAGES
               PROVE  AnsweredAt(i)'
    BY <1>5 DEF CallsInv
  <2>1. i # L + 1
    BY <1>4, <1>5 DEF TOOL, ASSISTANT
  <2>2. i \in 1 .. L /\ i \in DOMAIN messages /\ messages'[i] = messages[i] /\ i + 1 \in 1 .. L + 1
    BY <1>2, <1>5, <2>1
  <2>3. Waits(i) \/ AnsweredAt(i)
    BY <1>1, <2>2 DEF CallsInv
  <2>4. CASE i = L
    <3>1. Parsed(messages[L].ids) = messages[L].ids
      BY <1>2, <2>2, <2>4, ParsedPrefix
    <3>2. m.ids = messages[L].ids \/ TooLarge(m.size)
      BY <1>2, <1>4, <1>6, <3>1
    <3>3. i < Len(messages') /\ messages'[i + 1] = m /\ messages'[i].ids = messages[L].ids
      BY <1>2, <1>5, <2>2, <2>4
    <3> QED BY <1>4, <3>2, <3>3 DEF AnsweredAt
  <2>5. CASE i # L
    <3>1. AnsweredAt(i)
      BY <2>3, <2>5 DEF Waits, L
    <3>2. i + 1 \in 1 .. L /\ i < L + 1 /\ messages'[i + 1] = messages[i + 1]
      BY <1>2, <1>5, <2>2, <2>5
    <3> QED BY <1>5, <2>2, <3>1, <3>2 DEF AnsweredAt
  <2> QED BY <2>4, <2>5
<1>10. AnswersInv'
  <2> SUFFICES ASSUME NEW i \in 1 .. L + 1, messages'[i].role = TOOL
               PROVE  /\ i > 1 /\ messages'[i - 1].role = ASSISTANT
                      /\ \/ TooLarge(messages'[i].size)
                         \/ /\ Legible(messages'[i])
                            /\ IsPrefix(messages'[i].ids, messages'[i - 1].ids)
    BY <1>5 DEF AnswersInv
  <2>1. CASE i = L + 1
    <3>1. i > 1 /\ i - 1 = L /\ messages'[i - 1] = messages[L] /\ messages'[i] = m
      BY <1>2, <1>5, <2>1
    <3>2. IsPrefix(calls, messages[L].ids)
      BY <1>2, ParsedPrefix
    <3> QED BY <1>2, <1>4, <1>6, <3>1, <3>2
  <2>2. CASE i # L + 1
    <3>1. i \in 1 .. L /\ i \in DOMAIN messages /\ messages'[i] = messages[i]
      BY <1>2, <1>5, <2>2
    <3>2. /\ i > 1 /\ messages[i - 1].role = ASSISTANT
          /\ \/ TooLarge(messages[i].size)
             \/ Legible(messages[i]) /\ IsPrefix(messages[i].ids, messages[i - 1].ids)
      BY <1>1, <3>1 DEF AnswersInv
    <3>3. i - 1 \in 1 .. L /\ messages'[i - 1] = messages[i - 1]
      BY <1>2, <1>5, <3>1, <3>2
    <3> QED BY <3>1, <3>2, <3>3
  <2> QED BY <2>1, <2>2
<1>11. ExecutedInv'
  <2>1. CASE \E i \in DOMAIN messages : TooLarge(messages[i].size)
    <3>1. Spoilt'
      <4>1. PICK i \in DOMAIN messages : TooLarge(messages[i].size)
        BY <2>1
      <4>2. i \in DOMAIN messages' /\ messages'[i] = messages[i]
        BY <1>2, <1>5
      <4> QED BY <4>1, <4>2 DEF Spoilt
    <3> QED BY <3>1 DEF ExecutedInv
  <2>2. CASE TooLarge(content.size)
    <3>1. L + 1 \in DOMAIN messages'
      BY <1>2, <1>5
    <3>2. Spoilt'
      BY <1>4, <1>5, <2>2, <3>1 DEF Spoilt
    <3> QED BY <3>2 DEF ExecutedInv
  <2>3. CASE /\ ~TooLarge(content.size)
             /\ executed \subseteq Answers(messages) \cup ToSet(content.ids)
    <3>1. Answers(messages) \cup ToSet(content.ids) \subseteq Answers(messages')
      BY <1>2, <1>3, <1>4, <1>6, <2>3, AnswersGrow
    <3>2. executed' \subseteq Answers(messages') \cup ToSet(content'.ids)
      BY <1>3, <2>3, <3>1
    <3> QED BY <3>2 DEF ExecutedInv
  <2> QED BY <1>1, <2>1, <2>2, <2>3 DEF ExecutedInv, Spoilt
<1> QED BY <1>7, <1>8, <1>9, <1>10, <1>11 DEF AskInv

LEMMA ToolUseKeeps ==
  ASSUME AskInv, ToolUse
  PROVE  AskInv'
<1>1. /\ TypeOK /\ PlaceInv /\ CallsInv /\ AnswersInv /\ WireInv /\ ExecutedInv
      /\ pc = "reply" /\ mode = "agent" /\ outcome = "none" /\ Whole
      /\ content = NoResults /\ round < MAX_TOOL_ROUNDS
  BY DEF AskInv, PlaceInv, TypeOK, ToolUse
<1>2. PICK n \in 0 .. MAX_CALLS, size \in TextSizes :
        /\ messages' = IF HasRoom THEN Append(messages, Message(ASSISTANT, Calls(n), size))
                       ELSE messages
        /\ IF n = 0 THEN /\ Return("answer")
                         /\ UNCHANGED << round, calls, done, content >>
           ELSE IF Len(messages') < MAX_MESSAGES
           THEN /\ calls' = Parsed(Calls(n)) /\ done' = 0 /\ content' = NoResults
                /\ pc' = "tools"
                /\ UNCHANGED << round, outcome >>
           ELSE /\ round' = Counted /\ pc' = "round"
                /\ UNCHANGED << calls, done, content, outcome >>
  BY DEF ToolUse
<1>3. UNCHANGED << mode, irq, tls, wire, executed, told >>
  BY DEF ToolUse
<1> DEFINE L == Len(messages)
           m == Message(ASSISTANT, Calls(n), size)
<1>4. messages \in Seq(Messages) /\ L \in Nat /\ L <= MAX_MESSAGES /\ MAX_MESSAGES \in Nat
  BY <1>1, LimitsAssumption DEF TypeOK, Messages, Roles
<1>5. /\ m \in Messages /\ m.role = ASSISTANT /\ m.ids = Calls(n)
      /\ Calls(n) \in Seq(Ids) /\ Len(Calls(n)) = n
  <2>1. Calls(n) \in Seq(Ids) /\ Len(Calls(n)) = n /\ size \in Nat
    BY <1>1, CallsTyped, LimitsAssumption
  <2> QED BY <2>1 DEF Message, Messages, Roles
<1>6. messages' = IF HasRoom THEN Append(messages, m) ELSE messages
  BY <1>2
<1> HIDE DEF m, L
<1>7. /\ content' = NoResults
      /\ \/ n = 0 /\ pc' = "idle" /\ outcome' = "answer" /\ round' = round
         \/ /\ n # 0 /\ pc' = "tools" /\ outcome' = "none" /\ round' = round
            /\ Len(messages') < MAX_MESSAGES /\ calls' = Parsed(Calls(n)) /\ done' = 0
         \/ n # 0 /\ pc' = "round" /\ outcome' = "none" /\ ~(Len(messages') < MAX_MESSAGES)
  <2>1. CASE n = 0
    BY <1>1, <1>2, <2>1 DEF Return
  <2>2. CASE n # 0 /\ Len(messages') < MAX_MESSAGES
    BY <1>1, <1>2, <2>2
  <2>3. CASE n # 0 /\ ~(Len(messages') < MAX_MESSAGES)
    BY <1>1, <1>2, <2>3
  <2> QED BY <2>1, <2>2, <2>3
<1>8. ASSUME HasRoom
      PROVE  /\ ToolsInv' /\ CallsInv' /\ AnswersInv' /\ (Spoilt => Spoilt')
             /\ Answers(messages) \subseteq Answers(messages')
  <2>1. L < MAX_MESSAGES /\ messages' = Append(messages, m)
    BY <1>6, <1>8 DEF HasRoom, L
  <2>2. /\ DOMAIN messages = 1 .. L /\ DOMAIN messages' = 1 .. L + 1
        /\ Len(messages') = L + 1
        /\ \A i \in 1 .. L : messages'[i] = messages[i]
        /\ messages'[L + 1] = m
    BY <1>4, <1>5, <2>1 DEF L
  <2>3. ToolsInv'
    <3> SUFFICES ASSUME pc' = "tools" PROVE ToolsInv'
      BY DEF ToolsInv
    <3>1. L + 1 \in 1 .. MAX_MESSAGES - 1 /\ calls' = Parsed(Calls(n)) /\ done' = 0
      BY <1>4, <1>7, <2>2
    <3>2. content'.ids = SubSeq(calls', 1, done')
      <4>1. calls' \in Seq(Ids)
        BY <1>1, <3>1, CallsTyped
      <4>2. SubSeq(calls', 1, 0) = << >>
        BY <4>1
      <4> QED BY <1>7, <3>1, <4>2 DEF NoResults
    <3> QED BY <1>5, <2>2, <3>1, <3>2 DEF ToolsInv
  <2>4. CallsInv'
    <3> SUFFICES ASSUME NEW i \in 1 .. L + 1,
                        messages'[i].role = ASSISTANT,
                        Len(messages'[i].ids) <= MAX_TOOL_CALLS, i < MAX_MESSAGES
                 PROVE  Waits(i)' \/ AnsweredAt(i)'
      BY <2>2 DEF CallsInv
    <3>1. CASE i = L + 1
      <4>1. pc' \in {"idle", "tools"}
        BY <1>4, <1>7, <2>2, <3>1
      <4> QED BY <2>2, <3>1, <4>1 DEF Waits
    <3>2. CASE i # L + 1
      <4>1. i \in 1 .. L /\ messages'[i] = messages[i]
        BY <1>4, <2>2, <3>2
      <4>2. ~Waits(i)
        BY <1>1 DEF Waits
      <4>3. AnsweredAt(i)
        BY <1>1, <2>2, <4>1, <4>2 DEF CallsInv
      <4>4. i + 1 \in 1 .. L /\ i < L + 1 /\ messages'[i + 1] = messages[i + 1]
        BY <1>4, <2>2, <4>1, <4>3 DEF AnsweredAt, L
      <4> QED BY <2>2, <4>1, <4>3, <4>4 DEF AnsweredAt
    <3> QED BY <3>1, <3>2
  <2>5. AnswersInv'
    <3> SUFFICES ASSUME NEW i \in 1 .. L + 1, messages'[i].role = TOOL
                 PROVE  /\ i > 1 /\ messages'[i - 1].role = ASSISTANT
                        /\ \/ TooLarge(messages'[i].size)
                           \/ /\ Legible(messages'[i])
                              /\ IsPrefix(messages'[i].ids, messages'[i - 1].ids)
      BY <2>2 DEF AnswersInv
    <3>1. i # L + 1
      BY <1>5, <2>2 DEF TOOL, ASSISTANT
    <3>2. i \in 1 .. L /\ i \in DOMAIN messages /\ messages'[i] = messages[i]
      BY <1>4, <2>2, <3>1
    <3>3. /\ i > 1 /\ messages[i - 1].role = ASSISTANT
          /\ \/ TooLarge(messages[i].size)
             \/ Legible(messages[i]) /\ IsPrefix(messages[i].ids, messages[i - 1].ids)
      BY <1>1, <3>2 DEF AnswersInv
    <3>4. messages'[i - 1] = messages[i - 1]
      BY <1>4, <2>2, <3>2, <3>3
    <3> QED BY <3>2, <3>3, <3>4
  <2>6. Spoilt => Spoilt'
    <3> SUFFICES ASSUME Spoilt PROVE Spoilt'
      OBVIOUS
    <3>1. CASE TooLarge(content.size)
      BY <1>1, <1>7, <3>1 DEF Spoilt
    <3>2. CASE \E i \in DOMAIN messages : TooLarge(messages[i].size)
      <4>1. PICK i \in DOMAIN messages : TooLarge(messages[i].size)
        BY <3>2
      <4>2. i \in DOMAIN messages' /\ messages'[i] = messages[i]
        BY <1>4, <2>2
      <4> QED BY <4>1, <4>2 DEF Spoilt
    <3> QED BY <3>1, <3>2 DEF Spoilt
  <2>7. Answers(messages) \subseteq Answers(messages')
    BY <1>4, <1>5, <2>1, AnswersGrow
  <2> QED BY <2>3, <2>4, <2>5, <2>6, <2>7
<1>9. ASSUME ~HasRoom
      PROVE  /\ ToolsInv' /\ CallsInv' /\ AnswersInv' /\ (Spoilt => Spoilt')
             /\ Answers(messages) \subseteq Answers(messages')
  <2>1. messages' = messages /\ ~(Len(messages') < MAX_MESSAGES)
    BY <1>6, <1>9 DEF HasRoom
  <2>2. ToolsInv'
    BY <1>7, <2>1 DEF ToolsInv
  <2>3. AnswersInv'
    BY <1>1, <2>1 DEF AnswersInv
  <2>4. CallsInv'
    <3> SUFFICES ASSUME NEW i \in DOMAIN messages,
                        messages[i].role = ASSISTANT,
                        Len(messages[i].ids) <= MAX_TOOL_CALLS, i < MAX_MESSAGES
                 PROVE  AnsweredAt(i)'
      BY <2>1 DEF CallsInv
    <3>1. ~Waits(i)
      BY <1>1 DEF Waits
    <3>2. AnsweredAt(i)
      BY <1>1, <3>1 DEF CallsInv
    <3> QED BY <2>1, <3>2 DEF AnsweredAt
  <2>5. Spoilt => Spoilt'
    BY <1>1, <1>7, <2>1 DEF Spoilt
  <2> QED BY <2>1, <2>2, <2>3, <2>4, <2>5
<1>10. /\ ToolsInv' /\ CallsInv' /\ AnswersInv' /\ (Spoilt => Spoilt')
       /\ Answers(messages) \subseteq Answers(messages')
  BY <1>8, <1>9
<1>11. ExecutedInv'
  <2>1. Spoilt \/ executed \subseteq Answers(messages) \cup ToSet(content.ids)
    BY <1>1 DEF ExecutedInv
  <2> QED BY <1>1, <1>3, <1>7, <1>10, <2>1 DEF ExecutedInv
<1>12. PlaceInv' /\ WireInv'
  BY <1>1, <1>3, <1>7 DEF PlaceInv, WireInv
<1>13. NothingUntold'
  BY <1>1, <1>3, ServerKnows DEF NothingUntold
<1>14. TypeOK'
  BY <1>1, ToolUseTypes
<1> QED BY <1>10, <1>11, <1>12, <1>13, <1>14 DEF AskInv

-----------------------------------------------------------------------------
LEMMA StepKeepsAsk == AskInv /\ [Next]_vars => AskInv'
<1> SUFFICES ASSUME AskInv, [Next]_vars PROVE AskInv'
  OBVIOUS
<1>1. CASE Ask \/ SetUp \/ Config
  BY <1>1, AskKeeps
<1>2. CASE Proceed
  BY <1>2, QuietKeeps, ToolUseKeeps, RecordKeeps DEF Proceed
<1>3. CASE Execute
  BY <1>3, ExecuteKeeps
<1>4. CASE Panic \/ Fault
  BY <1>4, QuietKeeps
<1>5. CASE Reboot
  BY <1>5, RebootKeeps
<1>6. CASE UNCHANGED vars
  <2>1. /\ UNCHANGED << pc, configured, mode, irq, round, messages, calls, done, content >>
        /\ UNCHANGED << tls, wire, executed, told, outcome >>
    BY <1>6 DEF vars, ask, ghosts
  <2>2. TypeOK'
    <3>1. TypeOK
      BY DEF AskInv
    <3>2. /\ pc' \in {"idle", "setup", "round", "connect", "handshake", "send", "receive",
                     "reply", "tools", "key"}
          /\ mode' \in {"agent", "report"} /\ irq' \in BOOLEAN /\ configured' \in BOOLEAN
          /\ outcome' \in {"none", "no key", "limit", "failed", "error", "answer"}
      BY <2>1, <3>1 DEF TypeOK
    <3>3. /\ round' \in 0 .. MAX_TOOL_ROUNDS
          /\ messages' \in Seq([role : {USER, ASSISTANT, TOOL}, ids : Seq(Ids), size : Nat])
          /\ Len(messages') <= MAX_MESSAGES
          /\ calls' \in Seq(Ids) /\ Len(calls') <= MAX_TOOL_CALLS /\ done' \in 0 .. Len(calls')
          /\ content'.ids \in Seq(Ids) /\ content'.size \in 0 .. CONTENT - 1
      BY <2>1, <3>1 DEF TypeOK
    <3>4. /\ tls' \in [in_use : BOOLEAN, connected : BOOLEAN, tcp : BOOLEAN]
          /\ wire' \in [announced : 0 .. REQUEST_BODY - 1, sent : 0 .. REQ - 1]
          /\ executed' \subseteq Ids /\ told' \subseteq Ids
      BY <2>1, <3>1 DEF TypeOK
    <3> QED BY <3>2, <3>3, <3>4, Zenon DEF TypeOK
  <2>5. PlaceInv' /\ ToolsInv' /\ NothingUntold'
    BY <2>1 DEF AskInv, PlaceInv, ToolsInv, NothingUntold
  <2>3. CallsInv' /\ AnswersInv'
    BY <2>1 DEF AskInv, CallsInv, AnswersInv, Waits, AnsweredAt
  <2>4. WireInv' /\ ExecutedInv'
    BY <2>1 DEF AskInv, WireInv, Whole, Request, BodyLength, ExecutedInv, Spoilt
  <2> QED BY <2>2, <2>3, <2>4, <2>5 DEF AskInv
<1> QED BY <1>1, <1>2, <1>3, <1>4, <1>5, <1>6 DEF Next

LEMMA AskAlways == Spec => []AskInv
BY InitTypes, StepKeepsAsk, PTL DEF Spec

(* The message array and the buffer of results keep within their bounds     *)
(* through every number of rounds, calls and failures.                      *)
THEOREM BuffersHold == Spec => []TypeOK
<1>1. AskInv => TypeOK
  BY DEF AskInv
<1> QED BY <1>1, AskAlways, PTL

(* A request that reaches the server whole has no message that is too large,*)
(* and so each of its calls has its answer, uncut, and each answer its call.*)
THEOREM CallsAreAnswered == Spec => []Answered
<1>1. ASSUME AskInv PROVE Answered
  <2> SUFFICES ASSUME mode = "agent", pc = "receive", Whole, NEW i \in DOMAIN messages
               PROVE  /\ (/\ messages[i].role = ASSISTANT
                          /\ Len(messages[i].ids) <= MAX_TOOL_CALLS /\ i < MAX_MESSAGES) =>
                           /\ i < Len(messages) /\ messages[i + 1].role = TOOL
                           /\ messages[i + 1].ids = messages[i].ids
                      /\ messages[i].role = TOOL =>
                           /\ Legible(messages[i])
                           /\ messages[i - 1].role = ASSISTANT
                           /\ IsPrefix(messages[i].ids, messages[i - 1].ids)
    BY DEF Answered
  <2>1. TypeOK /\ CallsInv /\ AnswersInv /\ WireInv
    BY <1>1 DEF AskInv
  <2>2. Fits(BodyLength)
    BY <2>1, RequestBounds DEF WireInv, Whole
  <2>3. \A j \in DOMAIN messages : ~TooLarge(messages[j].size)
    BY <2>1, <2>2, BodyBounds
  <2>4. ASSUME messages[i].role = ASSISTANT, Len(messages[i].ids) <= MAX_TOOL_CALLS,
               i < MAX_MESSAGES
        PROVE  /\ i < Len(messages) /\ messages[i + 1].role = TOOL
               /\ messages[i + 1].ids = messages[i].ids
    <3>1. AnsweredAt(i)
      BY <2>1, <2>4 DEF CallsInv, Waits
    <3>2. i + 1 \in DOMAIN messages
      <4>1. messages \in Seq(Messages) /\ i < Len(messages)
        BY <2>1, <3>1 DEF TypeOK, Messages, Roles, AnsweredAt
      <4> QED BY <4>1
    <3> QED BY <2>3, <3>1, <3>2 DEF AnsweredAt
  <2>5. ASSUME messages[i].role = TOOL
        PROVE  /\ Legible(messages[i]) /\ messages[i - 1].role = ASSISTANT
               /\ IsPrefix(messages[i].ids, messages[i - 1].ids)
    BY <2>1, <2>3, <2>5 DEF AnswersInv
  <2> QED BY <2>4, <2>5
<1> QED BY <1>1, AskAlways, PTL

(* An answer is shown only when the server has been told of every tool that *)
(* was executed: the request before it was whole, so that no result of it   *)
(* had been cut and the break for lack of room had not been taken.          *)
THEOREM ToolsAreTold == Spec => []NothingUntold
<1>1. AskInv => NothingUntold
  BY DEF AskInv
<1> QED BY <1>1, AskAlways, PTL
-----------------------------------------------------------------------------
(* How far a question is from its end: the steps of a request still to be   *)
(* made, those of a round, the calls still to be executed, the rounds left. *)
Waiting == pc \notin {"idle", "key"}
Leg == CASE pc = "connect" -> 5
         [] pc = "handshake" -> 4
         [] pc = "send" -> 3
         [] pc = "receive" -> 2
         [] OTHER -> 1
PerRound == MAX_TOOL_CALLS + 7
InRound == CASE pc = "round" -> PerRound
             [] pc = "tools" -> 1 + Len(calls) - done
             [] OTHER -> MAX_TOOL_CALLS + 1 + Leg
Most == 5 + (MAX_TOOL_ROUNDS + 1) * PerRound
Work == CASE mode = "report" -> Leg
          [] mode # "report" /\ pc = "setup" -> Most + 1
          [] OTHER -> 5 + (MAX_TOOL_ROUNDS - round) * PerRound + InRound
WorkBounded == Work \in 1 .. Most + 1

(* Every step of a question or of a crash report that does not end it leaves *)
(* less to do, also one that leads from the question to the report.         *)
WorkShrinks == [][Waiting => ~Waiting' \/ Work' < Work]_vars

LEMMA Sizes ==
  ASSUME TypeOK
  PROVE  /\ MAX_TOOL_CALLS \in Nat /\ PerRound \in Nat /\ MAX_TOOL_ROUNDS \in Nat
         /\ round \in Nat /\ round <= MAX_TOOL_ROUNDS
         /\ PerRound = MAX_TOOL_CALLS + 7
         /\ Leg \in 1 .. 5 /\ InRound \in 1 .. PerRound
<1>1. /\ MAX_TOOL_CALLS \in Nat /\ PerRound \in Nat /\ MAX_TOOL_ROUNDS \in Nat
      /\ PerRound = MAX_TOOL_CALLS + 7
  BY LimitsAssumption DEF PerRound
<1>2. round \in Nat /\ round <= MAX_TOOL_ROUNDS
  BY Counters
<1>3. Leg \in 1 .. 5
  BY DEF Leg
<1>4. Len(calls) \in Nat /\ Len(calls) <= MAX_TOOL_CALLS /\ done \in 0 .. Len(calls)
  BY Counters
<1>5. InRound \in {PerRound, 1 + Len(calls) - done, MAX_TOOL_CALLS + 1 + Leg}
  BY Zenon DEF InRound
<1>6. {PerRound, 1 + Len(calls) - done, MAX_TOOL_CALLS + 1 + Leg} \subseteq 1 .. PerRound
  <2> HIDE DEF PerRound, Leg
  <2> QED BY <1>1, <1>3, <1>4
<1> QED BY <1>1, <1>2, <1>3, <1>5, <1>6

LEMMA WorkInRange == TypeOK => WorkBounded
<1> SUFFICES ASSUME TypeOK PROVE WorkBounded
  OBVIOUS
<1> DEFINE n == MAX_TOOL_ROUNDS - round
<1>1. /\ n \in Nat /\ round \in Nat /\ MAX_TOOL_ROUNDS = n + round /\ PerRound \in Nat
      /\ Leg \in 1 .. 5 /\ InRound \in 1 .. PerRound
  BY Sizes
<1>2. Work = Leg \/ Work = Most + 1 \/ Work = 5 + n * PerRound + InRound
  BY DEF Work
<1>3. /\ n * PerRound \in Nat /\ round * PerRound \in Nat
      /\ (MAX_TOOL_ROUNDS + 1) * PerRound = n * PerRound + round * PerRound + PerRound
  <2> HIDE DEF n
  <2>1. n * PerRound \in Nat /\ round * PerRound \in Nat
    BY <1>1, Distribute
  <2>2. (n + round + 1) * PerRound = n * PerRound + round * PerRound + PerRound
    BY <1>1
  <2> QED BY <1>1, <2>1, <2>2
<1> DEFINE np == n * PerRound
           rp == round * PerRound
           all == (MAX_TOOL_ROUNDS + 1) * PerRound
<1>4. /\ Work = Leg \/ Work = Most + 1 \/ Work = 5 + np + InRound
      /\ np \in Nat /\ rp \in Nat /\ all = np + rp + PerRound /\ Most = 5 + all
  BY <1>2, <1>3 DEF Most
<1> HIDE DEF np, rp, all
<1>5. Work \in 1 .. Most + 1
  BY <1>1, <1>4
<1> QED BY <1>5 DEF WorkBounded, all

(* A step within a round, or within a report.                               *)
LEMMA WithinRound ==
  ASSUME TypeOK, round' = round, mode' = mode,
         mode = "report" => Leg' < Leg,
         mode = "agent" =>
           pc # "setup" /\ pc' # "setup" /\ InRound' \in Nat /\ InRound' < InRound
  PROVE  Work' < Work
<1>1. CASE mode = "report"
  BY <1>1 DEF Work
<1>2. CASE mode = "agent"
  <2> DEFINE np == (MAX_TOOL_ROUNDS - round) * PerRound
  <2>1. np \in Nat /\ InRound \in Nat /\ InRound' \in Nat
    <3>1. MAX_TOOL_ROUNDS - round \in Nat /\ PerRound \in Nat
      BY Sizes
    <3>2. InRound' \in Nat
      BY <1>2
    <3>3. InRound \in Nat
      BY Sizes
    <3>4. np \in Nat
      <4> HIDE DEF PerRound
      <4> QED BY <3>1, Distribute
    <3> QED BY <3>1, <3>2, <3>3, <3>4
  <2>2. Work = 5 + np + InRound /\ Work' = 5 + np + InRound'
    BY <1>2 DEF Work, PerRound
  <2>3. InRound' < InRound
    BY <1>2
  <2>4. \A a, b, c \in Nat : b < c => 5 + a + b < 5 + a + c
    OBVIOUS
  <2>5. 5 + np + InRound' < 5 + np + InRound
    BY <2>1, <2>3, <2>4, Zenon
  <2> QED BY <2>2, <2>5, Zenon
<1> QED BY <1>1, <1>2 DEF TypeOK

(* The step from a round to the next.                                       *)
LEMMA NextRound ==
  ASSUME TypeOK, TypeOK', mode = "agent", mode' = "agent", round' = round + 1,
         pc # "setup", pc' = "round"
  PROVE  Work' < Work
<1> DEFINE n == MAX_TOOL_ROUNDS - (round + 1)
<1>1. round \in Nat /\ MAX_TOOL_ROUNDS \in Nat /\ round + 1 <= MAX_TOOL_ROUNDS
  <2>1. round' \in 0 .. MAX_TOOL_ROUNDS
    BY DEF TypeOK
  <2> QED BY <2>1, Sizes
<1>2. PerRound \in Nat /\ InRound \in 1 .. PerRound /\ PerRound' = PerRound
  BY Sizes DEF PerRound
<1>3. n \in Nat /\ MAX_TOOL_ROUNDS - round = n + 1
  BY <1>1
<1>4. InRound' = PerRound
  BY DEF InRound, PerRound
<1>5. Work' = 5 + n * PerRound + PerRound
  BY <1>2, <1>4 DEF Work
<1>6. Work = 5 + (n + 1) * PerRound + InRound
  BY <1>3 DEF Work
<1> HIDE DEF n
<1>7. n * PerRound \in Nat /\ (n + 1) * PerRound = n * PerRound + PerRound
  BY <1>2, <1>3, Distribute
<1> DEFINE np == n * PerRound
           mp == (n + 1) * PerRound
<1>8. /\ Work' = 5 + np + PerRound /\ Work = 5 + mp + InRound
      /\ np \in Nat /\ mp = np + PerRound
  BY <1>5, <1>6, <1>7
<1> HIDE DEF np, mp
<1> QED BY <1>2, <1>8

(* From a question to the report of the panic that has ended it.            *)
LEMMA ToReport ==
  ASSUME TypeOK, mode = "agent", mode' = "report", pc' = "connect"
  PROVE  Work' < Work
<1>1. Work' = 5
  BY DEF Work, Leg
<1> DEFINE np == (MAX_TOOL_ROUNDS - round) * PerRound
           all == (MAX_TOOL_ROUNDS + 1) * PerRound
<1>2. np \in Nat /\ all \in Nat
  <2>1. /\ MAX_TOOL_ROUNDS - round \in Nat /\ MAX_TOOL_ROUNDS + 1 \in Nat
        /\ PerRound \in Nat
    BY Sizes
  <2> HIDE DEF PerRound
  <2> QED BY <2>1, Distribute
<1>3. InRound \in Nat /\ InRound >= 1
  BY Sizes
<1>4. Work = 5 + np + InRound \/ Work = 5 + all + 1
  BY DEF Work, Most
<1> HIDE DEF np, all
<1> QED BY <1>1, <1>2, <1>3, <1>4

(* From the set-up dialogue to the first round.                             *)
LEMMA SetUpShrinks ==
  ASSUME TypeOK, PlaceInv, SetUp
  PROVE  ~Waiting' \/ Work' < Work
<1>1. CASE Return("no key")
  BY <1>1 DEF Return, Waiting
<1>2. CASE Start
  <2>1. /\ pc = "setup" /\ pc' = "round" /\ round' = 0
        /\ mode = "agent" /\ mode' = "agent"
    BY <1>2 DEF SetUp, Start, PlaceInv, TypeOK
  <2> DEFINE np == MAX_TOOL_ROUNDS * PerRound
             all == (MAX_TOOL_ROUNDS + 1) * PerRound
  <2>2. MAX_TOOL_ROUNDS \in Nat /\ PerRound \in Nat /\ MAX_TOOL_ROUNDS - 0 = MAX_TOOL_ROUNDS
    BY Sizes
  <2>3. Work' = 5 + (MAX_TOOL_ROUNDS - 0) * PerRound + PerRound
    BY <2>1 DEF Work, InRound, PerRound
  <2>4. Work' = 5 + np + PerRound /\ Work = 5 + all + 1
    BY <2>1, <2>2, <2>3 DEF Work, Most
  <2>5. np \in Nat /\ all = np + PerRound
    BY <2>2, Distribute
  <2> HIDE DEF np, all
  <2> QED BY <2>2, <2>4, <2>5
<1> QED BY <1>1, <1>2 DEF SetUp

(* The legs of a request, each of which is behind the one before it.        *)
Legs == {"connect", "handshake", "send", "receive", "reply"}

LEMMA RequestShrinks ==
  ASSUME TypeOK, TypeOK',
         \/ Busy \/ NoConnection \/ Connected \/ HandshakeFails \/ HandshakeDone
         \/ SendFails \/ Send \/ NoReply \/ Reply
  PROVE  ~Waiting' \/ Work' < Work
<1>1. CASE ~Waiting'
  BY <1>1
<1>2. CASE Waiting'
  <2>1. /\ UNCHANGED << round, mode >>
        /\ \/ pc = "connect" /\ pc' = "handshake"
           \/ pc = "handshake" /\ pc' = "send"
           \/ pc = "send" /\ pc' = "receive"
           \/ pc = "receive" /\ pc' = "reply"
    BY <1>2 DEF Busy, NoConnection, Connected, HandshakeFails, HandshakeDone, SendFails,
                Send, NoReply, Reply, Return, Waiting, ask
  <2>2. Leg' < Leg /\ Leg \in 1 .. 5 /\ Leg' \in 1 .. 5
    BY <2>1 DEF Leg
  <2>3. /\ InRound = MAX_TOOL_CALLS + 1 + Leg /\ InRound' = MAX_TOOL_CALLS + 1 + Leg'
    BY <2>1 DEF InRound
  <2>4. InRound' \in Nat /\ InRound' < InRound
    <3>1. MAX_TOOL_CALLS \in Nat
      BY Limits
    <3>2. \A a, b \in 1 .. 5 : a < b =>
            MAX_TOOL_CALLS + 1 + a \in Nat /\ MAX_TOOL_CALLS + 1 + a < MAX_TOOL_CALLS + 1 + b
      BY ONLY <3>1
    <3> HIDE DEF Leg, InRound
    <3> QED BY ONLY <2>2, <2>3, <3>2, Zenon
  <2>5. pc # "setup" /\ pc' # "setup"
    BY <2>1
  <2> QED BY <2>1, <2>2, <2>4, <2>5, WithinRound
<1> QED BY <1>1, <1>2

LEMMA LoopShrinks ==
  ASSUME TypeOK, TypeOK', PlaceInv, LimitReached \/ StartRound \/ ErrorStatus \/ EndTurn
  PROVE  ~Waiting' \/ Work' < Work
<1>1. CASE LimitReached \/ ErrorStatus \/ EndTurn
  BY <1>1 DEF LimitReached, ErrorStatus, EndTurn, Return, Waiting
<1>2. CASE StartRound
  <2>1. /\ UNCHANGED << round, mode >> /\ pc = "round" /\ pc' = "connect" /\ mode = "agent"
    BY <1>2 DEF StartRound, ask, PlaceInv, TypeOK
  <2>2. InRound = MAX_TOOL_CALLS + 7 /\ InRound' = MAX_TOOL_CALLS + 1 + 5
    BY <2>1 DEF InRound, PerRound, Leg
  <2>3. InRound' \in Nat /\ InRound' < InRound
    BY <2>2, Limits
  <2> QED BY <2>1, <2>3, WithinRound
<1> QED BY <1>1, <1>2

LEMMA ToolUseShrinks ==
  ASSUME TypeOK, TypeOK', ToolUse
  PROVE  ~Waiting' \/ Work' < Work
<1>1. pc = "reply" /\ mode = "agent" /\ mode' = "agent"
  BY DEF ToolUse
<1>2. \/ ~Waiting'
      \/ pc' = "tools" /\ done' = 0 /\ round' = round
      \/ pc' = "round" /\ round' = round + 1
  BY DEF ToolUse, Return, Waiting, Counted
<1>3. CASE pc' = "tools" /\ done' = 0 /\ round' = round
  <2>1. InRound = MAX_TOOL_CALLS + 1 + 1 /\ InRound' = 1 + Len(calls') - 0
    BY <1>1, <1>3 DEF InRound, Leg
  <2>2. Len(calls') \in Nat /\ Len(calls') <= MAX_TOOL_CALLS
    <3>1. calls' \in Seq(Ids) /\ Len(calls') <= MAX_TOOL_CALLS
      BY DEF TypeOK
    <3> QED BY <3>1
  <2>3. InRound' \in Nat /\ InRound' < InRound
    <3>1. MAX_TOOL_CALLS \in Nat
      BY Limits
    <3>2. \A l \in Nat : l <= MAX_TOOL_CALLS =>
            1 + l - 0 \in Nat /\ 1 + l - 0 < MAX_TOOL_CALLS + 1 + 1
      BY ONLY <3>1
    <3>3. /\ 1 + Len(calls') - 0 \in Nat
          /\ 1 + Len(calls') - 0 < MAX_TOOL_CALLS + 1 + 1
      BY ONLY <2>2, <3>2, Zenon
    <3> HIDE DEF InRound
    <3> QED BY ONLY <2>1, <3>3, Zenon
  <2> QED BY <1>1, <1>3, <2>3, WithinRound
<1>4. CASE pc' = "round" /\ round' = round + 1
  BY <1>1, <1>4, NextRound
<1> QED BY <1>2, <1>3, <1>4

LEMMA ToolsShrink ==
  ASSUME TypeOK, TypeOK', PlaceInv, Execute \/ Record
  PROVE  Work' < Work
<1>1. pc = "tools" /\ mode = "agent" /\ mode' = "agent"
  BY DEF Execute, Record, PlaceInv, TypeOK
<1>2. CASE Execute
  <2>1. pc' = "tools" /\ UNCHANGED << round, calls >> /\ done # Len(calls)
    BY <1>1, <1>2 DEF Execute, NoMore
  <2>2. done' = Len(calls) \/ done' = done + 1
    BY <1>2 DEF Execute
  <2>3. Len(calls) \in Nat /\ done \in 0 .. Len(calls)
    BY Counters
  <2>4. InRound = 1 + Len(calls) - done /\ InRound' = 1 + Len(calls) - done'
    BY <1>1, <2>1 DEF InRound
  <2>5. InRound' \in Nat /\ InRound' < InRound
    BY <2>1, <2>2, <2>3, <2>4
  <2> QED BY <1>1, <2>1, <2>5, WithinRound
<1>3. CASE Record
  <2>1. pc' = "round" /\ round' = round + 1
    BY <1>3 DEF Record, Counted
  <2> QED BY <1>1, <2>1, NextRound
<1> QED BY <1>2, <1>3

(* A question and the crash report after it are over in a bounded number of  *)
(* steps, whatever Claude replies: each takes one from a measure that is at  *)
(* most 6 + (MAX_TOOL_ROUNDS + 1) * (MAX_TOOL_CALLS + 7).  This is the       *)
(* safety of AskReturns: what remains to be assumed is that steps are made.  *)
THEOREM QuestionsEnd == Spec => []WorkBounded /\ WorkShrinks
<1>1. AskInv => WorkBounded
  BY WorkInRange DEF AskInv
<1>2. AskInv /\ AskInv' /\ [Next]_vars => [Waiting => ~Waiting' \/ Work' < Work]_vars
  <2> SUFFICES ASSUME AskInv, AskInv', Next, Waiting
               PROVE  ~Waiting' \/ Work' < Work
    BY Zenon
  <2>1. TypeOK /\ TypeOK' /\ PlaceInv
    BY DEF AskInv
  <2>2. ~Ask /\ ~Config /\ ~Reboot
    BY DEF Ask, Config, Reboot, Waiting
  <2>3. Panic \/ Fault =>
          \/ ~Waiting'
          \/ mode = "agent" /\ mode' = "report" /\ pc' = "connect"
    BY DEF Panic, Fault, Reporting, Waiting
  <2> HIDE DEF Waiting, Work
  <2> QED
    BY <2>1, <2>2, <2>3, SetUpShrinks, RequestShrinks, LoopShrinks, ToolUseShrinks,
       ToolsShrink, ToReport
       DEF Next, Proceed
<1> QED BY <1>1, <1>2, AskAlways, PTL DEF Spec, WorkShrinks
=============================================================================

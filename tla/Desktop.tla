------------------------------- MODULE Desktop -------------------------------
(***************************************************************************)
(* The desktop (system/gui/init.lua), started by the shell's gui command:   *)
(* its event loop, the windows in their order, what the mouse holds, the    *)
(* menu, and the chat window whose question blocks the loop.  Input's       *)
(* interrupts come between any two steps.                                   *)
(*                                                                          *)
(* Positions and sizes are left out: a click hits any visible window, on    *)
(* any part of it, or none.  An identity in Ids is a window's table; it is  *)
(* used again when nothing refers to it.  There is one chat window at most; *)
(* the other applications stand for each other, with any number of windows. *)
(*                                                                          *)
(* Doubled, Forgotten, Beneath and Focused are wrong variants of the        *)
(* definition behind them; no action uses them.                             *)
(***************************************************************************)
EXTENDS Input

CONSTANTS Ids, Chats, None     \* windows; those of chat; no window

ASSUME DesktopAssumption == Chats \subseteq Ids /\ None \notin Ids

VARIABLES
  configured,      \* claude_is_configured: there is a key
  at,              \* "text", or where the loop is
  got,             \* the event input_poll has copied
  wins,            \* from back to front
  hidden,          \* those with vis = false
  waiting,         \* those of chat with a question
  drag, resize,    \* the window the mouse holds, or None
  ctx_menu,        \* its kind and the window it is about
  run

desktop == << wins, hidden, waiting, drag, resize, ctx_menu, run >>
vars == << input, configured, at, got, desktop >>

NoMenu == [kind |-> "none", win |-> None]
Places == {"text", "poll", "took", "handle", "asking", "leaving"}

Open == ToSet(wins)
Visible == Open \ hidden
get_focused ==
  IF Visible = {} THEN None ELSE wins[Max({i \in DOMAIN wins : wins[i] \in Visible})]

(* A table nothing refers to.                                               *)
Fresh == Ids \ (Open \cup {drag, resize, ctx_menu.win})

Others(w) ==
  IF w \in Open THEN RemoveAt(wins, CHOOSE i \in DOMAIN wins : wins[i] = w) ELSE wins

-----------------------------------------------------------------------------
Init ==
  /\ InputInit
  /\ configured \in BOOLEAN
  /\ at = "text" /\ got = NoEvent
  /\ wins = << >> /\ hidden = {} /\ waiting = {}
  /\ drag = None /\ resize = None /\ ctx_menu = NoMenu /\ run = TRUE

(* The shell's config command.                                              *)
Config ==
  /\ at = "text"
  /\ configured' \in BOOLEAN
  /\ UNCHANGED << input, at, got, desktop >>

(* Its gui command starts with whatever is in the queue from before.        *)
StartGui ==
  /\ at = "text"
  /\ gui_mode' = TRUE /\ at' = "poll" /\ burst' = 0
  /\ UNCHANGED << ring, mouse_btns, prev_btns, unheard, configured, got, desktop >>

-----------------------------------------------------------------------------
(* The loop takes events until there are none: input_poll copies the slot   *)
(* and moves the tail then.  Nobody looks at the slot again; it is blanked  *)
(* to have fewer states.                                                    *)
PollCopy ==
  /\ at = "poll" /\ ~IsEmpty
  /\ got' = queue[q_tail] /\ at' = "took"
  /\ UNCHANGED << input, configured, desktop >>

PollAdvance ==
  /\ at = "took"
  /\ q_tail' = Behind(q_tail) /\ at' = "handle"
  /\ queue' = [queue EXCEPT ![q_tail] = NoEvent]
  /\ UNCHANGED << q_head, gui_mode, mouse_btns, prev_btns, burst, unheard, configured, got,
                  desktop >>

Handle(type) ==
  /\ at = "handle" /\ got.type = type
  /\ at' = "poll" /\ got' = NoEvent
  /\ UNCHANGED << input, configured >>

(* wm_focus, wm_close, wm_minimize, wm_open, wm_open_with.                  *)
Doubled(w) == Append(wins, w)
Raised(w) == Append(Others(w), w)

Forgotten(held, w) == held
Released(held, w) == IF held = w THEN None ELSE held

Focus(w) == wins' = Raised(w)

Close(w) ==
  /\ wins' = Others(w)
  /\ hidden' = hidden \ {w} /\ waiting' = waiting \ {w}
  /\ drag' = Released(drag, w)
  /\ UNCHANGED << resize, run >>

Minimize(w) ==
  /\ hidden' = hidden \cup {w}
  /\ drag' = Released(drag, w)
  /\ UNCHANGED << waiting, resize, run >>

OpenNew(order, kind) ==
  /\ Fresh \cap kind # {}
  /\ wins' = Append(order, CHOOSE w \in Fresh \cap kind : TRUE)
  /\ UNCHANGED << hidden, waiting, drag, resize, run >>

(* From the dock, a menu or an icon: one that is there already, or a new one.*)
OpenApp ==
  \/ \E w \in Open : /\ hidden' = hidden \ {w}
                     /\ Focus(w)
                     /\ UNCHANGED << waiting, drag, resize, run >>
  \/ OpenNew(wins, Ids \ Chats)
  \/ Open \cap Chats = {} /\ OpenNew(wins, Chats)

Nothing == UNCHANGED << wins, hidden, waiting, drag, resize, run >>

-----------------------------------------------------------------------------
(* MOUSE_DOWN with the menu open: an item, or beside it.  The menus of the  *)
(* desktop, its icons and the power button are one.  Shutdown and Reboot    *)
(* end everything and are left out.                                         *)
ClickMenu ==
  /\ Handle("MOUSE_DOWN") /\ ctx_menu # NoMenu
  /\ \/ Nothing
     \/ ctx_menu.kind = "window" /\ Close(ctx_menu.win)
     \/ ctx_menu.kind = "window" /\ Minimize(ctx_menu.win) /\ UNCHANGED wins
     \/ ctx_menu.kind = "other" /\ OpenApp
     \/ /\ ctx_menu.kind = "other"
        /\ run' = FALSE
        /\ UNCHANGED << wins, hidden, waiting, drag, resize >>
  /\ ctx_menu' = NoMenu

Beneath(w) == wins
ToFront(w) == Raised(w)

RightClick ==
  /\ Handle("MOUSE_DOWN") /\ ctx_menu = NoMenu /\ got.code # "left"
  /\ \/ \E w \in Visible :
          wins' = ToFront(w) /\ ctx_menu' = [kind |-> "window", win |-> w]
     \/ UNCHANGED wins /\ ctx_menu' = [kind |-> "other", win |-> None]
  /\ UNCHANGED << hidden, waiting, drag, resize, run >>

(* A left click, unless a window is being dragged: on the dock, on nothing, *)
(* on a desktop icon, or on a part of a window.                             *)
LeftClick ==
  /\ Handle("MOUSE_DOWN") /\ ctx_menu = NoMenu /\ got.code = "left"
  /\ drag = None

ClickElsewhere ==
  /\ LeftClick
  /\ \/ Nothing /\ UNCHANGED ctx_menu
     \/ Nothing /\ ctx_menu' = [kind |-> "other", win |-> None]
     \/ OpenApp /\ UNCHANGED ctx_menu

ClickIgnored ==
  /\ Handle("MOUSE_DOWN") /\ ctx_menu = NoMenu /\ got.code = "left"
  /\ drag # None
  /\ UNCHANGED desktop

ClickWindow ==
  /\ LeftClick
  /\ \E w \in Visible :
       \/ Close(w)
       \/ Focus(w) /\ Minimize(w)
       \/ w \notin Chats /\ OpenNew(Raised(w), Ids \ Chats)
       \/ /\ Focus(w)
          /\ \/ resize' = w /\ UNCHANGED << drag, waiting >>
             \/ drag' = w /\ UNCHANGED << resize, waiting >>
             \/ /\ waiting' \in {waiting, waiting \cup ({w} \cap Chats)}
                /\ UNCHANGED << drag, resize >>
          /\ UNCHANGED << hidden, run >>
  /\ UNCHANGED ctx_menu

MouseUp ==
  /\ Handle("MOUSE_UP")
  /\ drag' = None /\ resize' = None
  /\ UNCHANGED << wins, hidden, waiting, ctx_menu, run >>

(* KEY_DOWN: the menu goes first; then Esc closes a window or the desktop.  *)
KeyDown ==
  /\ Handle("KEY_DOWN")
  /\ \/ ctx_menu # NoMenu /\ Nothing
     \/ ctx_menu = NoMenu /\ got.code = "esc" /\ get_focused # None /\ Close(get_focused)
     \/ /\ ctx_menu = NoMenu /\ got.code = "esc" /\ get_focused = None
        /\ run' = FALSE
        /\ UNCHANGED << wins, hidden, waiting, drag, resize >>
     \/ /\ ctx_menu = NoMenu /\ got.code # "esc"
        /\ waiting' \in {waiting,
             waiting \cup ({get_focused} \cap Chats)}
        /\ UNCHANGED << wins, hidden, drag, resize, run >>
  /\ ctx_menu' = NoMenu

(* Moves what is held, or is handed to the focused window; key releases     *)
(* are not looked at.                                                       *)
NoEffect ==
  /\ Handle("MOUSE_MOVE") \/ Handle("KEY_UP")
  /\ UNCHANGED desktop

HandleEvent ==
  \/ ClickMenu \/ RightClick \/ ClickElsewhere \/ ClickIgnored \/ ClickWindow
  \/ MouseUp \/ KeyDown \/ NoEffect

-----------------------------------------------------------------------------
(* The end of a frame: a visible chat window asks its question, which holds *)
(* the loop until it is answered; then the loop sleeps or ends.             *)
Focused == {get_focused} \cap waiting
Asking == Visible \cap waiting

NoEventLeft == at = "poll" /\ IsEmpty

Ask ==
  /\ NoEventLeft /\ run /\ Asking # {}
  /\ at' = "asking" /\ burst' = 0
  /\ UNCHANGED << ring, gui_mode, mouse_btns, prev_btns, unheard, configured, got, desktop >>

(* claos.ask is back, with an answer or an error.                           *)
Back ==
  /\ at = "asking"
  /\ waiting' = waiting \ Asking
  /\ at' = "poll" /\ burst' = 0
  /\ UNCHANGED << ring, gui_mode, mouse_btns, prev_btns, unheard, got, wins, hidden,
                  drag, resize, ctx_menu, run >>

Answered == configured /\ Back /\ UNCHANGED configured

(* Without a key, claos.ask starts the set-up dialogue of the text shell.   *)
(* The desktop has the keyboard: the dialogue ends only with what was typed *)
(* ahead, in text mode, and otherwise waits for ever.                       *)
SetUp == ~configured /\ Back /\ configured' \in BOOLEAN

NextFrame ==
  /\ NoEventLeft /\ run /\ Asking = {}
  /\ at' = "poll" /\ burst' = 0
  /\ UNCHANGED << ring, gui_mode, mouse_btns, prev_btns, unheard, configured, got, desktop >>

(* The last frame is drawn, and events still come, before the shell has the *)
(* keyboard again.                                                          *)
LeaveLoop ==
  /\ NoEventLeft /\ ~run
  /\ at' = "leaving" /\ burst' = 0
  /\ UNCHANGED << ring, gui_mode, mouse_btns, prev_btns, unheard, configured, got, desktop >>

EndGui ==
  /\ at = "leaving"
  /\ at' = "text" /\ gui_mode' = FALSE /\ burst' = 0
  /\ wins' = << >> /\ hidden' = {} /\ waiting' = {}
  /\ drag' = None /\ resize' = None /\ ctx_menu' = NoMenu /\ run' = TRUE
  /\ UNCHANGED << ring, mouse_btns, prev_btns, unheard, configured, got >>

Loop ==
  \/ PollCopy \/ PollAdvance \/ HandleEvent
  \/ Ask \/ Answered \/ NextFrame \/ LeaveLoop \/ EndGui

(* While a question is out, more comes than a frame would see.              *)
InterruptDesktop ==
  /\ Interrupts
  /\ UNCHANGED << configured, at, got, desktop >>

Next == Config \/ StartGui \/ Loop \/ SetUp \/ InterruptDesktop

Spec == Init /\ [][Next]_vars /\ WF_vars(Loop)

-----------------------------------------------------------------------------
(* Every window is in the order once; what is hidden or waits is open.      *)
TypeOK ==
  /\ InputTypeOK
  /\ at \in Places /\ got \in EventSet \cup {NoEvent}
  /\ run \in BOOLEAN /\ configured \in BOOLEAN
  /\ wins \in Seq(Ids) /\ IsInjective(wins)
  /\ Cardinality(Open \cap Chats) <= 1
  /\ hidden \subseteq Open /\ waiting \subseteq Open \cap Chats
  /\ {drag, resize} \subseteq Ids \cup {None}
  /\ ctx_menu \in [kind : {"none", "window", "other"}, win : Ids \cup {None}]

(* What is still to be read of the queue.                                   *)
Unread == IF at = "took" THEN Tail(Contents) ELSE Contents

Releases(es) == \E i \in DOMAIN es : es[i].type = "MOUSE_UP"

(* The mouse lets go of a window: it holds one only as long as the button   *)
(* is down, or its release is still to be handled, unless the queue was too *)
(* full to take the last release.                                           *)
GripEnds ==
  {drag, resize} # {None} =>
    \/ "left" \in mouse_btns \cup prev_btns
    \/ Releases(Unread) \/ got.type = "MOUSE_UP"
    \/ unheard

(* A window that is dragged is there to be seen.                            *)
DragIsOpen == drag # None => drag \in Visible

(* The menu's window is the one in front, so that Close closes what the     *)
(* user sees.                                                               *)
MenuOnTop == ctx_menu.kind = "window" => ctx_menu.win = get_focused

(* The ring hands on what was put in, once and in order.                    *)
MouseBatches ==
  {Moved(moved) \o Said(became) :
     moved \in BOOLEAN, became \in [ToSet(Buttons) -> {"none", "MOUSE_DOWN", "MOUSE_UP"}]}
KeyBatches ==
  {<< Event("KEY_DOWN", k) >> : k \in Keys} \cup {<< Event("KEY_UP", "none") >>}

AllBatches == MouseBatches \cup KeyBatches

Events == INSTANCE EventQueue WITH
  SIZE <- EVENT_QUEUE_SIZE, Batches <- AllBatches, None <- NoEvent,
  pending <- Unread, out <- got

QueueInOrder == Events!Spec

(* With a key, a question asked in a chat window is answered, or the window *)
(* is closed or minimised first: other windows and other events cannot hold *)
(* it up.                                                                   *)
ChatAnswered ==
  \A w \in Chats :
    configured /\ w \in waiting \ hidden ~> w \notin waiting \/ w \in hidden
=============================================================================

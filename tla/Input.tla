-------------------------------- MODULE Input --------------------------------
(***************************************************************************)
(* Keyboard and mouse (drivers/keyboard.c, drivers/mouse.c) and the event   *)
(* queue they fill for the desktop (gui/input.c).  The handlers run as      *)
(* interrupts between any two steps of the reader.                          *)
(*                                                                          *)
(* A mouse packet is taken whole.  Left out are positions, the modifiers,   *)
(* which only change the code of a key, the code of what is released, which *)
(* nobody looks at, the state of the keys that games poll, and the key      *)
(* buffer of the text shell, a ring of the same kind.                       *)
(* NotChecked and AlwaysTold are wrong variants of the definition behind    *)
(* them; no action uses them.                                               *)
(***************************************************************************)
EXTENDS Naturals, Sequences, FiniteSets, SequencesExt

CONSTANTS
  EVENT_QUEUE_SIZE,
  Buttons,             \* a sequence, in the order of their bits
  Keys,                \* those that have a character or a special code
  MAX_BURST            \* bound on the interrupts of one frame

ASSUME InputAssumption ==
  /\ EVENT_QUEUE_SIZE \in Nat \ {0, 1}
  /\ Buttons \in Seq(STRING) /\ "left" \in ToSet(Buttons)
  /\ MAX_BURST \in Nat

VARIABLES
  queue, q_head, q_tail,
  gui_mode,
  mouse_btns,          \* what is held, as the last packet says
  prev_btns,           \* what the events have said so far
  burst,               \* history: interrupts in this frame
  unheard              \* history: the last release did not fit in the queue

ring == << queue, q_head, q_tail >>
input == << ring, gui_mode, mouse_btns, prev_btns, burst, unheard >>

Event(t, c) == [type |-> t, code |-> c]
NoEvent == Event("none", "none")

-----------------------------------------------------------------------------
(* input_push drops what no longer fits.  The state of the ring is its      *)
(* argument, since one interrupt may push several events.                   *)
Slots == 0 .. EVENT_QUEUE_SIZE - 1
Behind(i) == (i + 1) % EVENT_QUEUE_SIZE

NotChecked(r) == FALSE
IsFull(r) == Behind(r.head) = q_tail

Put(r, e) ==
  IF IsFull(r) THEN [r EXCEPT !.unheard = @ \/ e.type = "MOUSE_UP"]
  ELSE [slots |-> [r.slots EXCEPT ![r.head] = e], head |-> Behind(r.head),
        unheard |-> r.unheard /\ e.type # "MOUSE_UP"]

IsEmpty == q_head = q_tail
Contents ==
  [i \in 1 .. (q_head + EVENT_QUEUE_SIZE - q_tail) % EVENT_QUEUE_SIZE |->
     queue[(q_tail + i - 1) % EVENT_QUEUE_SIZE]]

-----------------------------------------------------------------------------
InputInit ==
  /\ queue = [i \in Slots |-> NoEvent] /\ q_head = 0 /\ q_tail = 0
  /\ gui_mode = FALSE
  /\ mouse_btns = {} /\ prev_btns = {}
  /\ burst = 0 /\ unheard = FALSE

Push(batch) ==
  LET after[i \in 0 .. Len(batch)] ==
        IF i = 0 THEN [slots |-> queue, head |-> q_head, unheard |-> unheard]
        ELSE Put(after[i - 1], batch[i])
      r == after[Len(batch)]
  IN queue' = r.slots /\ q_head' = r.head /\ unheard' = r.unheard

Interrupt ==
  /\ burst < MAX_BURST
  /\ burst' = burst + 1

News(b, how) == Event(how, IF how = "MOUSE_UP" THEN "none" ELSE b)

(* The events for what has become of each button, in the order of the bits. *)
Said(became) ==
  LET upto[i \in 0 .. Len(Buttons)] ==
        IF i = 0 THEN << >>
        ELSE LET b == Buttons[i] IN
             IF became[b] = "none" THEN upto[i - 1] ELSE Append(upto[i - 1], News(b, became[b]))
  IN upto[Len(Buttons)]

Changes(now) ==
  Said([b \in ToSet(Buttons) |-> IF (b \in now) = (b \in prev_btns) THEN "none"
                                 ELSE IF b \in now THEN "MOUSE_DOWN" ELSE "MOUSE_UP"])

Moved(moved) == IF moved THEN << Event("MOUSE_MOVE", "none") >> ELSE << >>

(* mouse_handler with the last byte of a packet.  One that has overflowed   *)
(* is discarded when its buttons are already stored: the next packet tells  *)
(* what has changed.                                                        *)
AlwaysTold(now, told) == now
Told(now, told) == IF told THEN now ELSE prev_btns

MousePacket(now, moved, overflow) ==
  /\ Interrupt
  /\ mouse_btns' = now
  /\ LET told == gui_mode /\ ~overflow IN
     /\ IF told THEN Push(Moved(moved) \o Changes(now))
          ELSE UNCHANGED << queue, q_head, unheard >>
     /\ prev_btns' = Told(now, told)
  /\ UNCHANGED << q_tail, gui_mode >>

(* keyboard_handler, when the desktop has the keyboard.                     *)
KeyPressed(k) ==
  /\ gui_mode
  /\ Interrupt
  /\ Push(<< Event("KEY_DOWN", k) >>)
  /\ UNCHANGED << q_tail, gui_mode, mouse_btns, prev_btns >>

KeyReleased ==
  /\ gui_mode
  /\ Interrupt
  /\ Push(<< Event("KEY_UP", "none") >>)
  /\ UNCHANGED << q_tail, gui_mode, mouse_btns, prev_btns >>

Interrupts ==
  \/ \E now \in SUBSET ToSet(Buttons), moved, overflow \in BOOLEAN :
       MousePacket(now, moved, overflow)
  \/ KeyReleased \/ \E k \in Keys : KeyPressed(k)

-----------------------------------------------------------------------------
Codes == ToSet(Buttons) \cup Keys \cup {"none"}
Types == {"KEY_DOWN", "KEY_UP", "MOUSE_MOVE", "MOUSE_DOWN", "MOUSE_UP"}
EventSet == [type : Types, code : Codes]

InputTypeOK ==
  /\ queue \in [Slots -> EventSet \cup {NoEvent}] /\ {q_head, q_tail} \subseteq Slots
  /\ mouse_btns \subseteq ToSet(Buttons) /\ prev_btns \subseteq ToSet(Buttons)
  /\ burst \in 0 .. MAX_BURST
  /\ gui_mode \in BOOLEAN /\ unheard \in BOOLEAN
=============================================================================

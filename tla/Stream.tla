------------------------------- MODULE Stream -------------------------------
(* What the TLS client may rely on of a TCP connection: it is opened or is  *)
(* not; what is read is what the server has sent on this connection, from   *)
(* the first byte and in order; behind the end nothing is read; and it can  *)
(* be given up at any time.  A byte is its connection and its position.     *)
EXTENDS Naturals, Sequences

VARIABLES
  user,    \* what the client does with its connection
  port,    \* the number of the connection, a new one for each
  sent,    \* how many bytes the server has sent on it
  given    \* those the client has got
vars == << user, port, sent, given >>

Init == user = "idle" /\ port = 0 /\ sent = 0 /\ given = << >>

Open ==
  /\ user = "idle" /\ user' = "opening"
  /\ port' = port + 1 /\ sent' = 0
  /\ UNCHANGED given

Opened ==
  /\ user = "opening" /\ user' = "open"
  /\ UNCHANGED << port, sent, given >>

ServerSends ==
  /\ sent' = sent + 1
  /\ UNCHANGED << user, port, given >>

Read ==
  /\ user = "open"
  /\ \E n \in Len(given) + 1 .. sent : given' = [i \in 1 .. n |-> << port, i >>]
  /\ UNCHANGED << user, port, sent >>

End ==
  /\ user = "open" /\ user' = "ended"
  /\ UNCHANGED << port, sent, given >>

Close ==
  /\ user \in {"open", "ended"} /\ user' = "closing"
  /\ UNCHANGED << port, sent, given >>

(* The connection was refused or reset, or its closing is over.             *)
Gone ==
  /\ user # "idle" /\ user' = "idle"
  /\ given' = << >>
  /\ UNCHANGED << port, sent >>

Next == Open \/ Opened \/ ServerSends \/ Read \/ End \/ Close \/ Gone

Spec == Init /\ [][Next]_vars
=============================================================================

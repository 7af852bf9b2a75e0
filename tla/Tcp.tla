-------------------------------- MODULE Tcp --------------------------------
(***************************************************************************)
(* net/tcp.c and its only user, the TLS client, talking to a server.        *)
(*                                                                          *)
(* Two tasks share a connection.  The kernel task calls tcp_connect,        *)
(* tcp_send, tcp_recv and tcp_close, and can be preempted between any two   *)
(* of their steps; the net_poll task runs tcp_receive, which nothing        *)
(* preempts.  pc is where the kernel task is.                               *)
(*                                                                          *)
(* The server is external.  The network may lose, delay, repeat and reorder *)
(* segments: what the server has once sent can arrive at any time and any   *)
(* number of times, and so can what CLAOS has sent.  A connection is named  *)
(* by its local port, the only part of its address that differs; sequence   *)
(* numbers count from the initial one, which is taken to be the same for    *)
(* every connection, the worst case.  A wait of so many ticks may be over   *)
(* at any time.                                                             *)
(*                                                                          *)
(* AnyPort, Shifted, OneShort, Unchecked and NotGivenUp are wrong variants  *)
(* of the definition behind them; no action uses them.  They are there to   *)
(* see that the properties notice.                                          *)
(***************************************************************************)
EXTENDS Integers, Sequences, FiniteSets

CONSTANTS
  TCP_MAX_CONNECTIONS,
  TCP_RX_BUFFER_SIZE,  \* the ring holds one byte less
  MSS,                 \* the most tcp_send puts into a segment
  MAX_PORT,            \* bound on next_port: the connections ever made
  STREAM,              \* bytes the server has to send on a connection
  MAX_SEND             \* bound on the bytes sent on a connection

Slots == 0 .. TCP_MAX_CONNECTIONS - 1
Ports == 1 .. MAX_PORT

ASSUME TcpAssumption ==
  /\ TCP_MAX_CONNECTIONS \in Nat \ {0}
  /\ TCP_RX_BUFFER_SIZE \in Nat \ {0}
  /\ MSS \in Nat \ {0}
  /\ MAX_PORT \in Nat /\ STREAM \in Nat /\ MAX_SEND \in Nat

VARIABLES
  conn,       \* connections[c]
  next_port,  \* the global of that name
  pc,         \* where the kernel task is
  handle,     \* the connection it holds
  remaining,  \* tcp_send: bytes still to send
  received,   \* the bytes the kernel task has read from the connection
  to_peer,    \* every segment CLAOS has sent on its last connection
  peer        \* the server's end of each connection

claos == << conn, next_port, pc, handle, remaining, received >>
vars == << claos, to_peer, peer >>

States == {"CLOSED", "SYN_SENT", "ESTABLISHED", "FIN_WAIT_1", "FIN_WAIT_2",
           "LAST_ACK", "TIME_WAIT"}

(* idle: no connection; connecting, failed: the wait of tcp_connect and its  *)
(* way out; open: between calls; sending, sent: tcp_send before a segment   *)
(* and before seq is advanced; empty: tls_low_read has found the ring empty *)
(* and looks at the state; fin: tcp_close before the state changes;         *)
(* closing: its wait.                                                       *)
Places == {"idle", "connecting", "failed", "open", "sending", "sent", "empty",
           "eof", "fin", "closing"}

Flags == {"SYN", "ACK", "FIN", "RST"}
Segments == [port : Ports, flags : SUBSET Flags, seq : Nat, ack : Nat, len : Nat]

Unused == [state |-> "CLOSED", port |-> 0, seq |-> 0, ack |-> 0, rx |-> << >>]

Smaller(m, n) == IF m < n THEN m ELSE n
Larger(m, n) == IF m < n THEN n ELSE m

-----------------------------------------------------------------------------
(* tcp_send_segment.                                                        *)
Segment(c, flags, len) ==
  [port |-> conn[c].port, flags |-> flags, seq |-> conn[c].seq,
   ack |-> conn[c].ack, len |-> len]

Put(segments) == to_peer' = to_peer \cup segments

(* tcp_find_connection.                                                     *)
AnyPort(c, port) == conn[c].state # "CLOSED"
Matches(c, port) == conn[c].state # "CLOSED" /\ conn[c].port = port
Finds(c, port) == Matches(c, port) /\ \A d \in Slots : d < c => ~Matches(d, port)

(* The bytes of a segment of the server, each named by its position.        *)
Shifted(seg) == [i \in 1 .. seg.len |-> << seg.port, seg.seq + i >>]
Payload(seg) == [i \in 1 .. seg.len |-> << seg.port, seg.seq + i - 1 >>]

(* tcp_rx_write: what does not fit is dropped.                              *)
OneShort(rx, bytes) ==
  SubSeq(rx \o bytes, 1, Smaller(Len(rx) + Len(bytes), TCP_RX_BUFFER_SIZE - 2))
RxWrite(rx, bytes) ==
  SubSeq(rx \o bytes, 1, Smaller(Len(rx) + Len(bytes), TCP_RX_BUFFER_SIZE - 1))

Unchecked(c, seg) == seg.len > 0
Acceptable(c, seg) == seg.len > 0 /\ seg.seq = conn[c].ack

-----------------------------------------------------------------------------
(* What the server has ever sent on a connection.                           *)
NoPeer == [syn |-> FALSE, una |-> 0, sent |-> 1, fin |-> FALSE, rst |-> FALSE]

(* Its acknowledgments are left out, tcp_receive looks at none but that of   *)
(* the SYN.                                                                 *)
Seg(p, flags, seq, len) ==
  [port |-> p, flags |-> flags, seq |-> seq, len |-> len,
   ack |-> IF "SYN" \in flags THEN 1 ELSE 0]

Sent(p) ==
  LET s == peer[p]
  IN  (IF s.syn
         THEN {Seg(p, {"SYN", "ACK"}, 0, 0)} \cup
              UNION {{Seg(p, {"ACK"}, i, n) : n \in 0 .. s.sent - i} :
                       i \in 1 .. s.sent}
         ELSE {})
        \cup (IF s.fin
                THEN {Seg(p, {"FIN", "ACK"}, STREAM + 1 - n, n) : n \in 0 .. STREAM}
                ELSE {})
        \cup (IF s.rst THEN {Seg(p, {"RST"}, s.sent, 0)} ELSE {})

Init ==
  /\ conn = [c \in Slots |-> Unused]
  /\ next_port = 1
  /\ pc = "idle"
  /\ handle = 0
  /\ remaining = 0
  /\ received = << >>
  /\ to_peer = {}
  /\ peer = [p \in Ports |-> NoPeer]

-----------------------------------------------------------------------------
(* tcp_connect up to its wait.                                              *)
Connect ==
  /\ pc = "idle"
  /\ next_port <= MAX_PORT
  /\ \E c \in Slots :
       /\ conn[c].state = "CLOSED"
       /\ \A d \in Slots : d < c => conn[d].state # "CLOSED"
       /\ conn' = [conn EXCEPT ![c] = [Unused EXCEPT !.state = "SYN_SENT",
                                         !.port = next_port, !.seq = 1]]
       /\ handle' = c
  /\ to_peer' = {[port |-> next_port, flags |-> {"SYN"}, seq |-> 0, ack |-> 0,
                   len |-> 0]}
  /\ next_port' = next_port + 1
  /\ pc' = "connecting"
  /\ UNCHANGED << remaining, received, peer >>

(* The wait is over and the state is looked at ...                          *)
Connected ==
  /\ pc = "connecting"
  /\ conn[handle].state = "ESTABLISHED"
  /\ pc' = "open"
  /\ UNCHANGED << conn, next_port, handle, remaining, received, to_peer, peer >>

NotConnected ==
  /\ pc = "connecting"
  /\ conn[handle].state # "ESTABLISHED"
  /\ pc' = "failed"
  /\ UNCHANGED << conn, next_port, handle, remaining, received, to_peer, peer >>

(* ... and the connection given up.  The rest of its slot is not read again *)
(* before tcp_connect clears it.                                            *)
NotGivenUp == conn
GivenUp == [conn EXCEPT ![handle] = Unused]

GiveUp == conn' = GivenUp /\ received' = << >> /\ pc' = "idle"

ConnectFails ==
  /\ pc = "failed"
  /\ GiveUp
  /\ UNCHANGED << next_port, handle, remaining, to_peer, peer >>

(* tls_low_write asks tcp_send for no more than fits into one segment.      *)
Send ==
  /\ pc = "open"
  /\ conn[handle].state = "ESTABLISHED"
  /\ \E length \in 1 .. MSS :
       /\ conn[handle].seq + length <= MAX_SEND + 1
       /\ remaining' = length
  /\ pc' = "sending"
  /\ UNCHANGED << conn, next_port, handle, received, to_peer, peer >>

(* The loop of tcp_send: a segment is sent ...                              *)
Chunk == Smaller(remaining, MSS)

SendChunk ==
  /\ pc = "sending"
  /\ Put({Segment(handle, {"ACK"}, Chunk)})
  /\ pc' = "sent"
  /\ UNCHANGED << conn, next_port, handle, remaining, received, peer >>

(* ... or the lower layers refuse it and the caller is told ...             *)
SendFails ==
  /\ pc = "sending"
  /\ remaining' = 0
  /\ pc' = "open"
  /\ UNCHANGED << conn, next_port, handle, received, to_peer, peer >>

(* ... and seq follows.                                                     *)
AdvanceSeq ==
  /\ pc = "sent"
  /\ conn' = [conn EXCEPT ![handle].seq = @ + Chunk]
  /\ remaining' = remaining - Chunk
  /\ pc' = IF remaining' = 0 THEN "open" ELSE "sending"
  /\ UNCHANGED << next_port, handle, received, to_peer, peer >>

(* tls_low_read: tcp_recv takes what there is, up to the reader's buffer.   *)
Recv ==
  /\ pc = "open"
  /\ LET rx == conn[handle].rx
     IN  IF rx = << >>
           THEN pc' = "empty" /\ UNCHANGED << conn, received >>
           ELSE /\ \E n \in 1 .. Len(rx) :
                     /\ received' = received \o SubSeq(rx, 1, n)
                     /\ conn' = [conn EXCEPT ![handle].rx =
                                   SubSeq(rx, n + 1, Len(rx))]
                /\ UNCHANGED pc
  /\ UNCHANGED << next_port, handle, remaining, to_peer, peer >>

(* ... and when there was nothing, looks whether more can come.             *)
LookAgain ==
  /\ pc = "empty"
  /\ pc' = IF conn[handle].state = "ESTABLISHED" THEN "open" ELSE "eof"
  /\ UNCHANGED << conn, next_port, handle, remaining, received, to_peer, peer >>

(* tcp_close: the FIN is sent ...                                           *)
Close ==
  /\ pc \in {"open", "eof"}
  /\ IF conn[handle].state = "ESTABLISHED"
       THEN /\ Put({Segment(handle, {"FIN", "ACK"}, 0)})
            /\ pc' = "fin"
            /\ UNCHANGED << conn, received >>
       ELSE GiveUp /\ UNCHANGED to_peer
  /\ UNCHANGED << next_port, handle, remaining, peer >>

(* ... the state follows, whatever it has become meanwhile ...              *)
FinSent ==
  /\ pc = "fin"
  /\ conn' = [conn EXCEPT ![handle].seq = @ + 1,
                          ![handle].state = "FIN_WAIT_1"]
  /\ pc' = "closing"
  /\ UNCHANGED << next_port, handle, remaining, received, to_peer, peer >>

(* ... and the connection is closed when its wait is over.                  *)
Closed ==
  /\ pc = "closing"
  /\ GiveUp
  /\ UNCHANGED << next_port, handle, remaining, to_peer, peer >>

-----------------------------------------------------------------------------
(* tcp_receive, by the state of the connection the segment is for.          *)
ReceiveSynSent(c, seg) ==
  /\ conn[c].state = "SYN_SENT"
  /\ \/ /\ {"SYN", "ACK"} \subseteq seg.flags
        /\ seg.ack = conn[c].seq
        /\ conn' = [conn EXCEPT ![c].ack = seg.seq + 1,
                                ![c].state = "ESTABLISHED"]
        /\ Put({[Segment(c, {"ACK"}, 0) EXCEPT !.ack = seg.seq + 1]})
     \/ /\ "RST" \in seg.flags
        /\ conn' = [conn EXCEPT ![c].state = "CLOSED"]
        /\ UNCHANGED to_peer

ReceiveReset(c, seg) ==
  /\ conn[c].state = "ESTABLISHED"
  /\ "RST" \in seg.flags
  /\ conn' = [conn EXCEPT ![c].state = "CLOSED"]
  /\ UNCHANGED to_peer

(* Data in ESTABLISHED, acknowledged whether it was accepted or not.        *)
ReceiveData(c, seg) ==
  /\ conn[c].state = "ESTABLISHED"
  /\ seg.flags \cap {"RST", "FIN"} = {}
  /\ seg.len > 0
  /\ LET k == [conn[c] EXCEPT
                 !.rx = IF Acceptable(c, seg) THEN RxWrite(@, Payload(seg)) ELSE @,
                 !.ack = IF Acceptable(c, seg) THEN @ + seg.len ELSE @]
     IN  /\ conn' = [conn EXCEPT ![c] = k]
         /\ Put({[Segment(c, {"ACK"}, 0) EXCEPT !.ack = k.ack]})

(* The server's FIN, taken even when data before it is missing: it is       *)
(* acknowledged and answered with a FIN of CLAOS.                           *)
ReceiveFin(c, seg) ==
  /\ conn[c].state = "ESTABLISHED"
  /\ "FIN" \in seg.flags /\ "RST" \notin seg.flags
  /\ LET ack == seg.seq + seg.len + 1
     IN  /\ conn' = [conn EXCEPT
                       ![c].rx = IF Acceptable(c, seg)
                                   THEN RxWrite(@, Payload(seg)) ELSE @,
                       ![c].ack = ack,
                       ![c].seq = @ + 1,
                       ![c].state = "LAST_ACK"]
         /\ Put({[Segment(c, {"ACK"}, 0) EXCEPT !.ack = ack],
                 [Segment(c, {"FIN", "ACK"}, 0) EXCEPT !.ack = ack]})

(* In FIN_WAIT_1 and FIN_WAIT_2 data is ignored; a FIN is acknowledged as   *)
(* if it came without any.                                                  *)
FinAck(seg) == seg.seq + 1

ReceiveFinWait(c, seg) ==
  /\ conn[c].state \in {"FIN_WAIT_1", "FIN_WAIT_2"}
  /\ conn[c].state = "FIN_WAIT_1" => "ACK" \in seg.flags
  /\ IF "FIN" \in seg.flags
       THEN /\ conn' = [conn EXCEPT ![c].ack = FinAck(seg),
                                    ![c].state = "TIME_WAIT"]
            /\ Put({[Segment(c, {"ACK"}, 0) EXCEPT !.ack = FinAck(seg)]})
       ELSE /\ conn[c].state = "FIN_WAIT_1"
            /\ conn' = [conn EXCEPT ![c].state = "FIN_WAIT_2"]
            /\ UNCHANGED to_peer

ReceiveLastAck(c, seg) ==
  /\ conn[c].state = "LAST_ACK"
  /\ "ACK" \in seg.flags
  /\ conn' = [conn EXCEPT ![c].state = "CLOSED"]
  /\ UNCHANGED to_peer

Receive ==
  /\ \E p \in Ports : \E seg \in Sent(p) : \E c \in Slots :
       /\ Finds(c, p)
       /\ \/ ReceiveSynSent(c, seg)
          \/ ReceiveReset(c, seg)
          \/ ReceiveData(c, seg)
          \/ ReceiveFin(c, seg)
          \/ ReceiveFinWait(c, seg)
          \/ ReceiveLastAck(c, seg)
  /\ UNCHANGED << next_port, pc, handle, remaining, received, peer >>

-----------------------------------------------------------------------------
(* The server.  It sends no more than the window that every segment of      *)
(* CLAOS advertises, TCP_RX_BUFFER_SIZE, beyond what it knows acknowledged, *)
(* and may refuse or reset at any time.  On a connection CLAOS has left it  *)
(* does no more: nothing would notice.                                      *)
Current(p) == p = next_port - 1

PeerAccept(p) ==
  /\ Current(p) /\ ~peer[p].syn /\ ~peer[p].rst
  /\ \E seg \in to_peer : seg.port = p /\ "SYN" \in seg.flags
  /\ peer' = [peer EXCEPT ![p].syn = TRUE]
  /\ UNCHANGED << claos, to_peer >>

PeerReceive(p) ==
  /\ Current(p) /\ peer[p].syn
  /\ \E seg \in to_peer :
       /\ seg.port = p /\ seg.ack > peer[p].una
       /\ peer' = [peer EXCEPT ![p].una = seg.ack]
  /\ UNCHANGED << claos, to_peer >>

PeerSend(p) ==
  /\ Current(p) /\ peer[p].una >= 1
  /\ peer[p].sent <= STREAM
  /\ peer[p].sent < peer[p].una + TCP_RX_BUFFER_SIZE
  /\ peer' = [peer EXCEPT ![p].sent = @ + 1]
  /\ UNCHANGED << claos, to_peer >>

PeerFin(p) ==
  /\ Current(p) /\ peer[p].una >= 1
  /\ peer[p].sent = STREAM + 1
  /\ peer' = [peer EXCEPT ![p].fin = TRUE]
  /\ UNCHANGED << claos, to_peer >>

PeerReset(p) ==
  /\ Current(p)
  /\ peer' = [peer EXCEPT ![p].rst = TRUE]
  /\ UNCHANGED << claos, to_peer >>

Next ==
  \/ Connect
  \/ Connected
  \/ NotConnected
  \/ ConnectFails
  \/ Send
  \/ SendChunk
  \/ SendFails
  \/ AdvanceSeq
  \/ Recv
  \/ LookAgain
  \/ Close
  \/ FinSent
  \/ Closed
  \/ Receive
  \/ \E p \in Ports : \/ PeerAccept(p)
                      \/ PeerReceive(p)
                      \/ PeerSend(p)
                      \/ PeerFin(p)
                      \/ PeerReset(p)

Spec == Init /\ [][Next]_vars

-----------------------------------------------------------------------------
Connection == [state : States, port : 0 .. MAX_PORT, seq : Nat, ack : Nat,
               rx : Seq(Ports \X (1 .. STREAM))]

TypeOK ==
  /\ conn \in [Slots -> Connection]
  /\ \A c \in Slots : Len(conn[c].rx) < TCP_RX_BUFFER_SIZE
  /\ next_port \in 1 .. MAX_PORT + 1
  /\ pc \in Places
  /\ handle \in Slots
  /\ remaining \in 0 .. MAX_SEND
  /\ received \in Seq(Ports \X (1 .. STREAM))
  /\ to_peer \subseteq Segments
  /\ peer \in [Ports -> [syn : BOOLEAN, una : Nat, sent : Nat, fin : BOOLEAN,
                         rst : BOOLEAN]]

Holding == pc \notin {"idle", "connecting", "failed"}
Open(c) == conn[c].state \notin {"CLOSED", "SYN_SENT"}

(* CLAOS acknowledges nothing the server has not sent.                      *)
AckNotAhead ==
  \A c \in Slots :
    Open(c) => LET s == peer[conn[c].port]
               IN  conn[c].ack <= s.sent + (IF s.fin THEN 1 ELSE 0)

(* The pool never runs dry: between two calls of tls_connect every slot is  *)
(* free again, in whatever order the segments and the timeouts came.        *)
NoSlotLeaked == pc = "idle" => \A c \in Slots : conn[c].state = "CLOSED"

(* Bytes that have been acknowledged are kept for the reader: tcp.c, "ACK   *)
(* the data if we got any".  The server will not send them again.           *)
AckedIsKept ==
  Holding /\ conn[handle].state = "ESTABLISHED"
    => conn[handle].ack = 1 + Len(received) + Len(conn[handle].rx)

(* The connection as the TLS client sees it: pc and the server's end mapped *)
(* to the variables of Stream.                                              *)
SeenAs ==
  [idle |-> "idle", connecting |-> "opening", failed |-> "opening", open |-> "open",
   sending |-> "open", sent |-> "open", empty |-> "open", eof |-> "ended",
   fin |-> "closing", closing |-> "closing"]
Delivered == IF next_port = 1 THEN 0 ELSE peer[next_port - 1].sent - 1

Client == INSTANCE Stream WITH
  user <- SeenAs[pc], port <- next_port - 1, sent <- Delivered, given <- received

(* What tcp_recv hands to the TLS client is a stream: the bytes the server  *)
(* sent on this very connection, in order and without a gap, none before it *)
(* was sent, none behind the end that was reported, and nothing left over   *)
(* from an earlier connection.                                              *)
ReadsStream == Client!Spec
=============================================================================

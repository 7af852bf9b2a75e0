----------------------------- MODULE TcpProofs -----------------------------
(***************************************************************************)
(* The connections, for every number of slots and ports, every size of ring *)
(* and stream and every behaviour of server and network.  The argument: all *)
(* slots but the kernel task's are as tcp_connect finds them, so a segment  *)
(* can only reach the connection the kernel task holds, whose port no       *)
(* earlier connection had; and there, as long as the ring can hold what the *)
(* reader has not taken, ack is the number of bytes read and kept.          *)
(***************************************************************************)
EXTENDS Tcp, TLAPS

Byte == Ports \X (1 .. STREAM)

(* The server sends its stream and then its FIN.                            *)
PeerInv ==
  \A p \in Ports :
    /\ 1 <= peer[p].sent /\ peer[p].sent <= STREAM + 1
    /\ peer[p].fin => peer[p].sent = STREAM + 1

(* The connection of the kernel task is the only one, and the newest.       *)
HandleInv ==
  /\ \A c \in Slots : conn[c] = Unused \/ (c = handle /\ pc # "idle")
  /\ pc # "idle" => /\ next_port # 1
                    /\ conn[handle].port = next_port - 1
                    /\ conn[handle].seq >= 1

(* What a connection acknowledges has been sent.                            *)
Limit(p) == peer[p].sent + (IF peer[p].fin THEN 1 ELSE 0)

AckInv == pc # "idle" => conn[handle].ack <= Limit(conn[handle].port)

ConnInv == TypeOK /\ PeerInv /\ HandleInv /\ AckInv

(* Connection k and the bytes rd read from it: the stream from its start,   *)
(* and ack is where they end.                                               *)
InOrder(rd, k) ==
  /\ \A i \in 1 .. Len(rd) : rd[i] = << k.port, i >>
  /\ \A i \in 1 .. Len(k.rx) : k.rx[i] = << k.port, Len(rd) + i >>
  /\ k.state = "ESTABLISHED" => k.ack = 1 + Len(rd) + Len(k.rx)
  /\ k.state = "SYN_SENT" => Len(rd) = 0 /\ Len(k.rx) = 0

(* The server is never so far ahead of the reader that the ring could not   *)
(* hold what has been sent and not read.                                    *)
NotOverrun ==
  pc # "idle" =>
    peer[conn[handle].port].sent - 1 < Len(received) + TCP_RX_BUFFER_SIZE

StreamInv ==
  IF pc = "idle" THEN received = << >> ELSE InOrder(received, conn[handle])
-----------------------------------------------------------------------------
(* What the server's segments carry.                                        *)
GoodSegment(p, seg) ==
  /\ seg.port = p /\ seg.flags \subseteq Flags
  /\ seg.seq \in Nat /\ seg.len \in Nat
  /\ seg.len > 0 => seg.seq >= 1 /\ seg.seq + seg.len <= STREAM + 1
  /\ seg.len > 0 /\ "FIN" \notin seg.flags => seg.seq + seg.len <= peer[p].sent
  /\ "FIN" \in seg.flags => peer[p].fin /\ seg.seq + seg.len = STREAM + 1
  /\ "SYN" \in seg.flags => seg.seq = 0

LEMMA SegmentFacts ==
  ASSUME TypeOK, PeerInv, NEW p \in Ports, NEW seg \in Sent(p)
  PROVE  GoodSegment(p, seg)
<1>1. /\ peer[p].sent \in Nat /\ 1 <= peer[p].sent /\ peer[p].sent <= STREAM + 1
      /\ STREAM \in Nat
  BY TcpAssumption DEF TypeOK, PeerInv
<1>2. \/ seg = Seg(p, {"SYN", "ACK"}, 0, 0)
      \/ \E i \in 1 .. peer[p].sent : \E n \in 0 .. peer[p].sent - i :
           seg = Seg(p, {"ACK"}, i, n)
      \/ peer[p].fin /\ \E n \in 0 .. STREAM :
                          seg = Seg(p, {"FIN", "ACK"}, STREAM + 1 - n, n)
      \/ seg = Seg(p, {"RST"}, peer[p].sent, 0)
  BY DEF Sent
<1>3. CASE seg = Seg(p, {"SYN", "ACK"}, 0, 0)
  BY <1>3 DEF GoodSegment, Seg, Flags
<1>4. CASE \E i \in 1 .. peer[p].sent : \E n \in 0 .. peer[p].sent - i :
             seg = Seg(p, {"ACK"}, i, n)
  <2>1. PICK i \in 1 .. peer[p].sent : \E n \in 0 .. peer[p].sent - i :
               seg = Seg(p, {"ACK"}, i, n)
    BY <1>4
  <2>2. PICK n \in 0 .. peer[p].sent - i : seg = Seg(p, {"ACK"}, i, n)
    BY <2>1
  <2>3. i \in Nat /\ n \in Nat /\ i >= 1 /\ i + n <= peer[p].sent
    BY <1>1
  <2>4. seg.port = p /\ seg.flags = {"ACK"} /\ seg.seq = i /\ seg.len = n
    BY <2>2 DEF Seg
  <2> QED BY <1>1, <2>3, <2>4 DEF GoodSegment, Flags
<1>5. CASE peer[p].fin /\ \E n \in 0 .. STREAM :
                            seg = Seg(p, {"FIN", "ACK"}, STREAM + 1 - n, n)
  <2>1. PICK n \in 0 .. STREAM : seg = Seg(p, {"FIN", "ACK"}, STREAM + 1 - n, n)
    BY <1>5
  <2>2. /\ seg.port = p /\ seg.flags = {"FIN", "ACK"}
        /\ seg.seq = STREAM + 1 - n /\ seg.len = n
    BY <2>1 DEF Seg
  <2> QED BY <1>1, <1>5, <2>2 DEF GoodSegment, Flags
<1>6. CASE seg = Seg(p, {"RST"}, peer[p].sent, 0)
  <2>1. /\ seg.port = p /\ seg.flags = {"RST"} /\ seg.seq = peer[p].sent /\ seg.len = 0
    BY <1>6 DEF Seg
  <2> QED BY <1>1, <2>1 DEF GoodSegment, Flags
<1> QED BY <1>2, <1>3, <1>4, <1>5, <1>6

LEMMA PayloadBytes ==
  ASSUME NEW p \in Ports, NEW seg, GoodSegment(p, seg), seg.len > 0
  PROVE  /\ Payload(seg) \in Seq(Byte) /\ Len(Payload(seg)) = seg.len
         /\ \A i \in 1 .. seg.len : Payload(seg)[i] = << p, seg.seq + i - 1 >>
<1>1. /\ seg.len \in Nat /\ seg.seq \in Nat /\ seg.seq >= 1 /\ seg.port = p
      /\ seg.seq + seg.len <= STREAM + 1 /\ STREAM \in Nat
  BY TcpAssumption DEF GoodSegment
<1>2. \A i \in 1 .. seg.len : << p, seg.seq + i - 1 >> \in Byte
  BY <1>1 DEF Byte
<1>3. Payload(seg) = [i \in 1 .. seg.len |-> << p, seg.seq + i - 1 >>]
  BY <1>1 DEF Payload
<1>4. Payload(seg) \in [1 .. seg.len -> Byte]
  BY <1>2, <1>3
<1>5. \A n \in Nat : \A f \in [1 .. n -> Byte] : f \in Seq(Byte) /\ Len(f) = n
  OBVIOUS
<1>6. Payload(seg) \in Seq(Byte) /\ Len(Payload(seg)) = seg.len
  BY <1>1, <1>4, <1>5
<1> QED BY <1>3, <1>6

(* tcp_rx_write: what is in the ring stays, and all of the bytes follow it  *)
(* if there is room.                                                        *)
LEMMA RingWrite ==
  ASSUME NEW rx \in Seq(Byte), Len(rx) < TCP_RX_BUFFER_SIZE, NEW bytes \in Seq(Byte)
  PROVE  LET r == RxWrite(rx, bytes)
         IN  /\ r \in Seq(Byte) /\ Len(r) < TCP_RX_BUFFER_SIZE
             /\ Len(rx) + Len(bytes) < TCP_RX_BUFFER_SIZE =>
                  /\ Len(r) = Len(rx) + Len(bytes)
                  /\ \A i \in 1 .. Len(rx) : r[i] = rx[i]
                  /\ \A i \in 1 .. Len(bytes) : r[Len(rx) + i] = bytes[i]
<1> DEFINE all == rx \o bytes
           n == Smaller(Len(rx) + Len(bytes), TCP_RX_BUFFER_SIZE - 1)
<1>1. /\ Len(rx) \in Nat /\ Len(bytes) \in Nat
      /\ TCP_RX_BUFFER_SIZE \in Nat /\ TCP_RX_BUFFER_SIZE > 0
  BY TcpAssumption
<1>2. all \in Seq(Byte) /\ Len(all) = Len(rx) + Len(bytes)
  OBVIOUS
<1>3. /\ \A i \in 1 .. Len(rx) : all[i] = rx[i]
      /\ \A i \in 1 .. Len(bytes) : all[Len(rx) + i] = bytes[i]
  BY <1>1
<1>4. n \in 0 .. Len(all) /\ n < TCP_RX_BUFFER_SIZE
  BY <1>1, <1>2 DEF Smaller
<1>5. Len(rx) + Len(bytes) < TCP_RX_BUFFER_SIZE => n = Len(all)
  BY <1>1, <1>2 DEF Smaller
<1> HIDE DEF all, n
<1>6. /\ SubSeq(all, 1, n) \in Seq(Byte) /\ Len(SubSeq(all, 1, n)) = n
      /\ \A i \in 1 .. n : SubSeq(all, 1, n)[i] = all[i]
  BY <1>2, <1>4
<1>7. RxWrite(rx, bytes) = SubSeq(all, 1, n)
  BY DEF RxWrite, all, n
<1>8. \A i \in 1 .. Len(bytes) : Len(rx) + i \in 1 .. Len(all)
  BY <1>1, <1>2
<1>9. \A i \in 1 .. Len(rx) : i \in 1 .. Len(all)
  BY <1>1, <1>2
<1> QED BY <1>1, <1>2, <1>3, <1>4, <1>5, <1>6, <1>7, <1>8, <1>9

-----------------------------------------------------------------------------
(* A step that changes the connection of the kernel task.                   *)
LEMMA HandleChanged ==
  ASSUME TypeOK, HandleInv, pc # "idle", pc' # "idle",
         NEW k \in Connection, k.port = conn[handle].port, k.seq >= 1,
         Len(k.rx) < TCP_RX_BUFFER_SIZE,
         conn' = [conn EXCEPT ![handle] = k],
         UNCHANGED << handle, next_port >>
  PROVE  /\ conn' \in [Slots -> Connection]
         /\ \A c \in Slots : Len(conn'[c].rx) < TCP_RX_BUFFER_SIZE
         /\ HandleInv'
         /\ conn'[handle'] = k
<1>1. handle \in Slots /\ conn \in [Slots -> Connection]
  BY DEF TypeOK
<1>2. /\ conn' \in [Slots -> Connection]
      /\ \A c \in Slots : conn'[c] = IF c = handle THEN k ELSE conn[c]
  BY <1>1
<1>3. \A c \in Slots : Len(conn'[c].rx) < TCP_RX_BUFFER_SIZE
  BY <1>2 DEF TypeOK
<1>4. HandleInv'
  BY <1>1, <1>2 DEF HandleInv
<1> QED BY <1>1, <1>2, <1>3, <1>4

(* The kernel task's connection while there is one.                         *)
LEMMA HandleFacts ==
  ASSUME TypeOK, HandleInv, pc # "idle"
  PROVE  /\ handle \in Slots /\ conn[handle] \in Connection
         /\ conn[handle].state \in States
         /\ conn[handle].port \in Ports
         /\ conn[handle].seq \in Nat /\ conn[handle].seq >= 1
         /\ conn[handle].ack \in Nat
         /\ conn[handle].rx \in Seq(Byte)
         /\ Len(conn[handle].rx) < TCP_RX_BUFFER_SIZE
         /\ \A c \in Slots : conn[c].state # "CLOSED" => c = handle
<1>1. handle \in Slots /\ conn[handle] \in Connection
  BY DEF TypeOK
<1>2. next_port \in 1 .. MAX_PORT + 1 /\ next_port # 1 /\ MAX_PORT \in Nat
  BY TcpAssumption DEF TypeOK, HandleInv
<1>3. conn[handle].port \in Ports
  BY <1>2 DEF HandleInv, Ports
<1>4. \A c \in Slots : conn[c].state # "CLOSED" => c = handle
  BY DEF HandleInv, Unused
<1> QED BY <1>1, <1>3, <1>4 DEF TypeOK, HandleInv, Connection, Byte

(* What tcp_send_segment sends.                                             *)
LEMMA SegmentType ==
  ASSUME TypeOK, HandleInv, pc # "idle", NEW F \in SUBSET Flags, NEW n \in Nat
  PROVE  /\ Segment(handle, F, n) \in Segments
         /\ \A a \in Nat : [Segment(handle, F, n) EXCEPT !.ack = a] \in Segments
BY HandleFacts DEF Segment, Segments

LEMMA HandleStep ==
  ASSUME ConnInv, pc # "idle", pc' \in Places \ {"idle"},
         NEW k \in Connection, k.port = conn[handle].port, k.seq >= 1,
         Len(k.rx) < TCP_RX_BUFFER_SIZE, k.ack <= Limit(k.port),
         conn' = [conn EXCEPT ![handle] = k],
         UNCHANGED << handle, next_port, peer >>,
         remaining' \in 0 .. MAX_SEND, received' \in Seq(Byte),
         to_peer' \subseteq Segments
  PROVE  ConnInv' /\ conn'[handle'] = k
<1>1. /\ conn' \in [Slots -> Connection]
      /\ \A c \in Slots : Len(conn'[c].rx) < TCP_RX_BUFFER_SIZE
      /\ HandleInv'
      /\ conn'[handle'] = k
  BY HandleChanged DEF ConnInv
<1>2. TypeOK'
  BY <1>1 DEF ConnInv, TypeOK, Byte
<1>3. PeerInv'
  BY DEF ConnInv, PeerInv
<1>4. AckInv'
  BY <1>1 DEF AckInv, Limit
<1> QED BY <1>1, <1>2, <1>3, <1>4 DEF ConnInv

(* A step that leaves the connection alone.                                 *)
LEMMA SameHandle ==
  ASSUME ConnInv, pc # "idle", pc' \in Places \ {"idle"},
         UNCHANGED << conn, handle, next_port, peer >>,
         remaining' \in 0 .. MAX_SEND, received' \in Seq(Byte),
         to_peer' \subseteq Segments
  PROVE  ConnInv' /\ conn'[handle'] = conn[handle]
<1>1. TypeOK'
  BY DEF ConnInv, TypeOK, Byte
<1>2. PeerInv'
  BY DEF ConnInv, PeerInv
<1>3. HandleInv' /\ AckInv'
  BY DEF ConnInv, HandleInv, AckInv, Limit
<1> QED BY <1>1, <1>2, <1>3 DEF ConnInv

(* The connection is given up, and its slot is as it was before.            *)
LEMMA GivenUpStep ==
  ASSUME ConnInv, pc # "idle", GiveUp,
         UNCHANGED << handle, next_port, remaining, to_peer, peer >>
  PROVE  ConnInv' /\ pc' = "idle" /\ received' = << >>
<1>1. /\ conn' = [conn EXCEPT ![handle] = Unused]
      /\ pc' = "idle" /\ received' = << >>
  BY DEF GiveUp, GivenUp
<1>2. handle \in Slots /\ conn \in [Slots -> Connection]
  BY DEF ConnInv, TypeOK
<1>3. Unused \in Connection /\ Len(Unused.rx) < TCP_RX_BUFFER_SIZE
  BY TcpAssumption DEF Unused, Connection, States
<1>4. /\ conn' \in [Slots -> Connection]
      /\ \A c \in Slots : conn'[c] = IF c = handle THEN Unused ELSE conn[c]
  BY <1>1, <1>2, <1>3
<1>5. TypeOK'
  BY <1>1, <1>3, <1>4 DEF ConnInv, TypeOK, Places
<1>6. HandleInv'
  BY <1>1, <1>4 DEF ConnInv, HandleInv
<1>7. PeerInv' /\ AckInv'
  BY <1>1 DEF ConnInv, PeerInv, AckInv
<1> QED BY <1>1, <1>5, <1>6, <1>7 DEF ConnInv

(* What every step keeps: the stream's order, unless the ring is overrun.   *)
Keeps == /\ ConnInv'
         /\ NotOverrun /\ StreamInv => StreamInv'

LEMMA ConnectKeeps ==
  ASSUME ConnInv, Connect
  PROVE  Keeps
<1>1. PICK c \in Slots :
        /\ conn' = [conn EXCEPT ![c] = [Unused EXCEPT !.state = "SYN_SENT",
                                          !.port = next_port, !.seq = 1]]
        /\ handle' = c
  BY DEF Connect
<1>2. /\ pc = "idle" /\ pc' = "connecting"
      /\ next_port <= MAX_PORT /\ next_port' = next_port + 1
      /\ to_peer' = {[port |-> next_port, flags |-> {"SYN"}, seq |-> 0, ack |-> 0,
                      len |-> 0]}
      /\ UNCHANGED << remaining, received, peer >>
  BY DEF Connect
<1>3. next_port \in Ports /\ next_port' \in 1 .. MAX_PORT + 1 /\ next_port' # 1
      /\ next_port \in Nat /\ next_port \in 0 .. MAX_PORT
  BY <1>2, TcpAssumption DEF ConnInv, TypeOK, Ports
<1> DEFINE k == [Unused EXCEPT !.state = "SYN_SENT", !.port = next_port, !.seq = 1]
<1>4. /\ k \in Connection /\ k.rx = << >> /\ k.ack = 0 /\ k.port = next_port
      /\ k.seq = 1 /\ k.state = "SYN_SENT"
  <2>1. /\ Unused \in Connection /\ Unused.rx = << >> /\ Unused.ack = 0
    BY TcpAssumption DEF Unused, Connection, States
  <2>2. k \in Connection
    BY <1>3, <2>1 DEF Connection, States
  <2>3. k.state = "SYN_SENT" /\ k.port = next_port /\ k.seq = 1
    BY <2>1 DEF Connection
  <2>4. k.rx = Unused.rx /\ k.ack = Unused.ack
    BY <2>1 DEF Connection
  <2> QED BY <2>1, <2>2, <2>3, <2>4
<1> HIDE DEF k
<1>5. conn \in [Slots -> Connection]
  BY DEF ConnInv, TypeOK
<1>6. /\ conn' \in [Slots -> Connection]
      /\ \A d \in Slots : conn'[d] = IF d = c THEN k ELSE conn[d]
  BY <1>1, <1>4, <1>5 DEF k
<1>7. TypeOK'
  <2>1. to_peer' \subseteq Segments
    BY <1>2, <1>3 DEF Segments, Flags
  <2>2. \A d \in Slots : Len(conn'[d].rx) < TCP_RX_BUFFER_SIZE
    <3>1. Len(k.rx) = 0
      BY <1>4
    <3>2. \A d \in Slots : Len(conn[d].rx) < TCP_RX_BUFFER_SIZE
      BY DEF ConnInv, TypeOK
    <3>3. 0 < TCP_RX_BUFFER_SIZE
      BY TcpAssumption
    <3> HIDE DEF Slots
    <3>4. TAKE d \in Slots
    <3>5. conn'[d] = k \/ conn'[d] = conn[d]
      BY <1>6
    <3> QED BY <3>1, <3>2, <3>3, <3>5
  <2> QED BY <1>1, <1>2, <1>3, <1>6, <2>1, <2>2 DEF ConnInv, TypeOK, Places
<1>8. HandleInv'
  BY <1>1, <1>2, <1>3, <1>4, <1>6 DEF ConnInv, HandleInv
<1>9. PeerInv'
  BY <1>2 DEF ConnInv, PeerInv
<1>10. AckInv'
  <2>1. peer \in [Ports -> [syn : BOOLEAN, una : Nat, sent : Nat, fin : BOOLEAN,
                            rst : BOOLEAN]]
    BY DEF ConnInv, TypeOK
  <2>2. peer[next_port].sent \in Nat /\ peer' = peer
    BY <1>2, <1>3, <2>1
  <2>3. peer'[next_port].sent + (IF peer'[next_port].fin THEN 1 ELSE 0) >= 0
    BY <2>2
  <2>4. conn'[handle'].ack = 0 /\ conn'[handle'].port = next_port
    BY <1>1, <1>4, <1>6
  <2> QED BY <1>2, <2>2, <2>3, <2>4 DEF AckInv, Limit
<1>11. ASSUME StreamInv PROVE InOrder(received', conn'[handle'])
  <2>1. conn'[handle'] = k
    BY <1>1, <1>6
  <2> received = << >>
    BY <1>2, <1>11 DEF StreamInv
  <2>2. Len(received') = 0 /\ Len(k.rx) = 0 /\ 1 .. 0 = {}
    BY <1>2, <1>4
  <2>3. 1 .. Len(received') = {} /\ 1 .. Len(k.rx) = {}
    BY <2>2
  <2> QED BY <1>4, <2>1, <2>2, <2>3 DEF InOrder
<1>12. StreamInv => StreamInv'
  BY <1>2, <1>11 DEF StreamInv
<1> QED BY <1>7, <1>8, <1>9, <1>10, <1>12 DEF ConnInv, Keeps
(* The steps of the kernel task that leave the connection as it is.         *)
LEMMA SameStream ==
  ASSUME ConnInv, pc # "idle", pc' \in Places \ {"idle"},
         UNCHANGED << conn, handle, next_port, peer, received >>,
         remaining' \in 0 .. MAX_SEND, to_peer' \subseteq Segments
  PROVE  Keeps
<1>1. received' \in Seq(Byte)
  BY DEF ConnInv, TypeOK, Byte
<1>2. ConnInv' /\ conn'[handle'] = conn[handle]
  BY <1>1, SameHandle
<1>3. StreamInv => StreamInv'
  BY <1>2 DEF StreamInv
<1> QED BY <1>2, <1>3 DEF Keeps

LEMMA SendKeeps ==
  ASSUME ConnInv, Connected \/ NotConnected \/ Send \/ SendChunk \/ SendFails \/ LookAgain
  PROVE  Keeps
<1>1. remaining \in 0 .. MAX_SEND /\ to_peer \subseteq Segments
  BY DEF ConnInv, TypeOK
<1>2. CASE Connected \/ NotConnected \/ LookAgain
  BY <1>1, <1>2, SameStream DEF Connected, NotConnected, LookAgain, Places
<1>3. CASE Send
  <2>1. pc = "open"
    BY <1>3 DEF Send
  <2>2. PICK length \in 1 .. MSS :
          conn[handle].seq + length <= MAX_SEND + 1 /\ remaining' = length
    BY <1>3 DEF Send
  <2>3. conn[handle].seq \in Nat /\ conn[handle].seq >= 1
    BY <2>1, HandleFacts DEF ConnInv
  <2>4. remaining' \in 0 .. MAX_SEND
    BY <2>2, <2>3, TcpAssumption
  <2> QED BY <1>1, <1>3, <2>4, SameStream DEF Send, Places
<1>4. CASE SendFails
  <2>1. remaining' \in 0 .. MAX_SEND
    BY <1>4, TcpAssumption DEF SendFails
  <2> QED BY <1>1, <1>4, <2>1, SameStream DEF SendFails, Places
<1>5. CASE SendChunk
  <2>1. pc = "sending"
    BY <1>5 DEF SendChunk
  <2>2. Chunk \in Nat
    BY <1>1, TcpAssumption DEF Chunk, Smaller
  <2>3. Segment(handle, {"ACK"}, Chunk) \in Segments
    BY <2>1, <2>2, SegmentType DEF ConnInv, Flags
  <2>4. to_peer' \subseteq Segments
    BY <1>1, <1>5, <2>3 DEF SendChunk, Put
  <2> QED BY <1>1, <1>5, <2>4, SameStream DEF SendChunk, Places
<1> QED BY <1>2, <1>3, <1>4, <1>5
LEMMA AdvanceSeqKeeps ==
  ASSUME ConnInv, AdvanceSeq
  PROVE  Keeps
<1> DEFINE k == [conn[handle] EXCEPT !.seq = @ + Chunk]
<1>1. pc = "sent" /\ pc' \in {"open", "sending"}
  BY DEF AdvanceSeq
<1>2. /\ handle \in Slots /\ conn[handle] \in Connection
      /\ conn[handle].seq \in Nat /\ conn[handle].seq >= 1
      /\ Len(conn[handle].rx) < TCP_RX_BUFFER_SIZE
  BY <1>1, HandleFacts DEF ConnInv
<1>3. /\ remaining \in 0 .. MAX_SEND /\ Chunk \in Nat /\ Chunk <= remaining
      /\ to_peer \subseteq Segments /\ received \in Seq(Byte)
  BY TcpAssumption DEF ConnInv, TypeOK, Chunk, Smaller, Byte
<1>4. /\ k \in Connection /\ k.seq >= 1 /\ k.port = conn[handle].port
      /\ k.rx = conn[handle].rx /\ k.ack = conn[handle].ack
      /\ k.state = conn[handle].state
  <2>1. conn[handle].seq + Chunk \in Nat /\ conn[handle].seq + Chunk >= 1
    BY <1>2, <1>3
  <2> HIDE DEF Chunk
  <2>2. k \in Connection
    BY <1>2, <2>1 DEF Connection
  <2>3. k.seq = conn[handle].seq + Chunk
    BY <1>2 DEF Connection
  <2>4. /\ k.port = conn[handle].port /\ k.rx = conn[handle].rx
        /\ k.ack = conn[handle].ack /\ k.state = conn[handle].state
    BY <1>2 DEF Connection
  <2> QED BY <2>1, <2>2, <2>3, <2>4
<1>5. conn' = [conn EXCEPT ![handle] = k]
  BY DEF AdvanceSeq
<1> HIDE DEF k
<1>6. k.ack <= Limit(k.port)
  BY <1>1, <1>4 DEF ConnInv, AckInv
<1>7. remaining' \in 0 .. MAX_SEND
  BY <1>3, TcpAssumption DEF AdvanceSeq
<1>8. UNCHANGED << handle, next_port, peer, received, to_peer >>
  BY DEF AdvanceSeq
<1>9. pc' \in Places \ {"idle"} /\ received' \in Seq(Byte) /\ to_peer' \subseteq Segments
  BY <1>1, <1>3, <1>8 DEF Places
<1>10. ConnInv' /\ conn'[handle'] = k
  BY <1>1, <1>2, <1>4, <1>5, <1>6, <1>7, <1>8, <1>9, HandleStep
<1>11. StreamInv => StreamInv'
  BY <1>1, <1>4, <1>8, <1>10 DEF StreamInv, InOrder
<1> QED BY <1>10, <1>11 DEF Keeps

LEMMA FinSentKeeps ==
  ASSUME ConnInv, FinSent
  PROVE  Keeps
<1> DEFINE k == [conn[handle] EXCEPT !.seq = @ + 1, !.state = "FIN_WAIT_1"]
<1>1. pc = "fin" /\ pc' = "closing"
  BY DEF FinSent
<1>2. /\ handle \in Slots /\ conn[handle] \in Connection
      /\ conn[handle].seq \in Nat /\ conn[handle].seq >= 1
      /\ Len(conn[handle].rx) < TCP_RX_BUFFER_SIZE
      /\ conn \in [Slots -> Connection]
  BY <1>1, HandleFacts DEF ConnInv, TypeOK
<1>3. /\ remaining \in 0 .. MAX_SEND
      /\ to_peer \subseteq Segments /\ received \in Seq(Byte)
  BY DEF ConnInv, TypeOK, Byte
<1>4. /\ k \in Connection /\ k.seq >= 1 /\ k.port = conn[handle].port
      /\ k.rx = conn[handle].rx /\ k.ack = conn[handle].ack
      /\ k.state = "FIN_WAIT_1"
  <2>1. k \in Connection
    <3>1. conn[handle].seq + 1 \in Nat /\ "FIN_WAIT_1" \in States
      BY <1>2 DEF States
    <3> QED BY <1>2, <3>1 DEF Connection
  <2>2. k.seq = conn[handle].seq + 1 /\ k.state = "FIN_WAIT_1"
    BY <1>2 DEF Connection
  <2>3. /\ k.port = conn[handle].port /\ k.rx = conn[handle].rx
        /\ k.ack = conn[handle].ack
    BY <1>2 DEF Connection
  <2> QED BY <1>2, <2>1, <2>2, <2>3
<1>5. conn' = [conn EXCEPT ![handle] = k]
  BY <1>2 DEF FinSent
<1> HIDE DEF k
<1>6. k.ack <= Limit(k.port)
  BY <1>1, <1>4 DEF ConnInv, AckInv
<1>7. UNCHANGED << handle, next_port, peer, received, to_peer, remaining >>
  BY DEF FinSent
<1>8. pc' \in Places \ {"idle"}
  BY <1>1 DEF Places
<1>9. ConnInv' /\ conn'[handle'] = k
  BY <1>1, <1>2, <1>3, <1>4, <1>5, <1>6, <1>7, <1>8, HandleStep
<1>10. StreamInv => StreamInv'
  BY <1>1, <1>4, <1>7, <1>9 DEF StreamInv, InOrder
<1> QED BY <1>9, <1>10 DEF Keeps

LEMMA CloseKeeps ==
  ASSUME ConnInv, ConnectFails \/ Close \/ Closed
  PROVE  Keeps
<1>1. pc # "idle" /\ UNCHANGED << next_port, handle, remaining, peer >>
  BY DEF ConnectFails, Close, Closed
<1>2. CASE GiveUp /\ UNCHANGED to_peer
  <2>1. ConnInv' /\ pc' = "idle" /\ received' = << >>
    BY <1>1, <1>2, GivenUpStep
  <2> QED BY <2>1 DEF Keeps, StreamInv
<1>3. CASE /\ Put({Segment(handle, {"FIN", "ACK"}, 0)})
           /\ pc' = "fin"
           /\ UNCHANGED << conn, received >>
  <2>1. Segment(handle, {"FIN", "ACK"}, 0) \in Segments
    BY <1>1, SegmentType DEF ConnInv, Flags
  <2>2. to_peer' \subseteq Segments
    BY <1>3, <2>1 DEF Put, ConnInv, TypeOK
  <2>3. remaining' \in 0 .. MAX_SEND /\ pc' \in Places \ {"idle"}
    BY <1>1, <1>3 DEF ConnInv, TypeOK, Places
  <2> QED BY <1>1, <1>3, <2>2, <2>3, SameStream
<1> QED BY <1>2, <1>3 DEF ConnectFails, Close, Closed

(* rd and rx after the first n bytes of rx have moved to the end of rd.     *)
MovedTo(rd, rx, n, all, rest) ==
  /\ all \in Seq(Byte) /\ Len(all) = Len(rd) + n
  /\ rest \in Seq(Byte) /\ Len(rest) = Len(rx) - n
  /\ \A i \in 1 .. Len(rd) : all[i] = rd[i]
  /\ \A i \in 1 .. n : all[Len(rd) + i] = rx[i]
  /\ \A i \in 1 .. Len(rx) - n : rest[i] = rx[n + i]

LEMMA Moved ==
  ASSUME NEW rd \in Seq(Byte), NEW rx \in Seq(Byte), NEW n \in 1 .. Len(rx)
  PROVE  MovedTo(rd, rx, n, rd \o SubSeq(rx, 1, n), SubSeq(rx, n + 1, Len(rx)))
<1>1. n \in Nat /\ Len(rx) \in Nat /\ 1 <= n /\ n <= Len(rx)
  OBVIOUS
<1> DEFINE head == SubSeq(rx, 1, n)
           rest == SubSeq(rx, n + 1, Len(rx))
<1>2. head \in Seq(Byte) /\ Len(head) = n /\ \A i \in 1 .. n : head[i] = rx[i]
  BY <1>1
<1>3. /\ rest \in Seq(Byte) /\ Len(rest) = Len(rx) - n
      /\ \A i \in 1 .. Len(rx) - n : rest[i] = rx[n + i]
  BY <1>1
<1> HIDE DEF head
<1>4. /\ rd \o head \in Seq(Byte) /\ Len(rd \o head) = Len(rd) + n
      /\ \A i \in 1 .. Len(rd) : (rd \o head)[i] = rd[i]
      /\ \A i \in 1 .. n : (rd \o head)[Len(rd) + i] = head[i]
  BY <1>1, <1>2
<1> QED BY <1>2, <1>3, <1>4 DEF head, MovedTo

(* tcp_recv moves the beginning of the ring behind what was read before.    *)
LEMMA RecvKeeps ==
  ASSUME ConnInv, Recv
  PROVE  Keeps
<1> DEFINE rx == conn[handle].rx
<1>1. /\ pc = "open" /\ UNCHANGED << next_port, handle, remaining, to_peer, peer >>
  BY DEF Recv
<1>2. /\ handle \in Slots /\ conn[handle] \in Connection
      /\ conn[handle].seq \in Nat /\ conn[handle].seq >= 1
      /\ rx \in Seq(Byte) /\ Len(rx) < TCP_RX_BUFFER_SIZE
      /\ conn \in [Slots -> Connection]
  BY <1>1, HandleFacts DEF ConnInv, TypeOK
<1>3. /\ remaining \in 0 .. MAX_SEND
      /\ to_peer \subseteq Segments /\ received \in Seq(Byte)
  BY DEF ConnInv, TypeOK, Byte
<1>4. CASE pc' = "empty" /\ UNCHANGED << conn, received >>
  <2>1. pc' \in Places \ {"idle"}
    BY <1>4 DEF Places
  <2> QED BY <1>1, <1>3, <1>4, <2>1, SameStream
<1>5. CASE /\ rx # << >>
           /\ \E n \in 1 .. Len(rx) :
                /\ received' = received \o SubSeq(rx, 1, n)
                /\ conn' = [conn EXCEPT ![handle].rx = SubSeq(rx, n + 1, Len(rx))]
           /\ UNCHANGED pc
  <2>1. PICK n \in 1 .. Len(rx) :
          /\ received' = received \o SubSeq(rx, 1, n)
          /\ conn' = [conn EXCEPT ![handle].rx = SubSeq(rx, n + 1, Len(rx))]
    BY <1>5
  <2> DEFINE tail == SubSeq(rx, n + 1, Len(rx))
             k == [conn[handle] EXCEPT !.rx = tail]
  <2>2. MovedTo(received, rx, n, received', tail)
    BY <1>2, <1>3, <2>1, Moved
  <2>3. /\ k \in Connection /\ k.seq = conn[handle].seq
        /\ k.port = conn[handle].port /\ k.rx = tail
        /\ k.ack = conn[handle].ack /\ k.state = conn[handle].state
    <3>1. tail \in Seq(Byte)
      BY <2>2 DEF MovedTo
    <3> HIDE DEF tail, rx
    <3>2. k \in Connection
      BY <1>2, <3>1 DEF Connection, Byte
    <3>3. k.rx = tail
      BY <1>2 DEF Connection
    <3>4. /\ k.seq = conn[handle].seq /\ k.port = conn[handle].port
          /\ k.ack = conn[handle].ack /\ k.state = conn[handle].state
      BY <1>2 DEF Connection
    <3> QED BY <3>2, <3>3, <3>4
  <2>4. conn' = [conn EXCEPT ![handle] = k]
    BY <2>1
  <2> HIDE DEF k, tail, rx
  <2>5. /\ n \in Nat /\ Len(rx) \in Nat /\ Len(received) \in Nat
        /\ n <= Len(rx) /\ 1 <= n
        /\ Len(received') = Len(received) + n /\ Len(tail) = Len(rx) - n
    BY <1>2, <1>3, <2>2 DEF MovedTo
  <2>6. Len(k.rx) < TCP_RX_BUFFER_SIZE
    BY <1>2, <2>3, <2>5, TcpAssumption
  <2>7. k.ack <= Limit(k.port)
    BY <1>1, <2>3 DEF ConnInv, AckInv
  <2>8. pc' = "open" /\ pc' \in Places \ {"idle"} /\ received' \in Seq(Byte)
    BY <1>1, <1>5, <2>2 DEF Places, MovedTo
  <2>9. ConnInv' /\ conn'[handle'] = k
    BY <1>1, <1>2, <1>3, <2>3, <2>4, <2>6, <2>8, <2>7, HandleStep
  <2>10. ASSUME InOrder(received, conn[handle])
         PROVE  InOrder(received', k)
    <3>1. /\ \A i \in 1 .. Len(received) : received[i] = << k.port, i >>
          /\ \A i \in 1 .. Len(rx) : rx[i] = << k.port, Len(received) + i >>
          /\ k.state = "ESTABLISHED" => k.ack = 1 + Len(received) + Len(rx)
          /\ k.state = "SYN_SENT" => Len(received) = 0 /\ Len(rx) = 0
      BY <2>3, <2>10 DEF InOrder, rx
    <3>2. \A i \in 1 .. Len(received') : received'[i] = << k.port, i >>
      <4>1. TAKE i \in 1 .. Len(received')
      <4>2. i \in 1 .. Len(received) \/ i - Len(received) \in 1 .. n
        BY <2>5
      <4>3. CASE i \in 1 .. Len(received)
        BY <2>2, <3>1, <4>3 DEF MovedTo
      <4>4. CASE i - Len(received) \in 1 .. n
        <5> DEFINE j == i - Len(received)
        <5>1. j \in 1 .. n /\ j \in 1 .. Len(rx) /\ i = Len(received) + j
          BY <2>5, <4>4
        <5> HIDE DEF j
        <5>2. received'[Len(received) + j] = rx[j]
          BY <2>2, <5>1 DEF MovedTo
        <5> QED BY <3>1, <5>1, <5>2
      <4> QED BY <4>2, <4>3, <4>4
    <3>3. \A i \in 1 .. Len(k.rx) : k.rx[i] = << k.port, Len(received') + i >>
      <4>1. TAKE i \in 1 .. Len(k.rx)
      <4>2. i \in 1 .. Len(rx) - n /\ n + i \in 1 .. Len(rx)
            /\ Len(received) + (n + i) = Len(received') + i
        BY <2>3, <2>5
      <4>3. tail[i] = rx[n + i]
        BY <2>2, <4>2 DEF MovedTo
      <4> QED BY <2>3, <3>1, <4>2, <4>3
    <3>4. k.state = "ESTABLISHED" => k.ack = 1 + Len(received') + Len(k.rx)
      <4>1. 1 + Len(received) + Len(rx) = 1 + Len(received') + Len(k.rx)
        BY <2>3, <2>5
      <4> QED BY <3>1, <4>1
    <3>5. k.state # "SYN_SENT"
      BY <2>5, <3>1
    <3> QED BY <3>2, <3>3, <3>4, <3>5 DEF InOrder
  <2> QED BY <1>1, <2>8, <2>9, <2>10 DEF Keeps, StreamInv
<1> QED BY <1>1, <1>4, <1>5 DEF Recv
-----------------------------------------------------------------------------
(* A segment has been received, which changes the connection to k.          *)
LEMMA ReceivedStep ==
  ASSUME ConnInv, pc # "idle",
         UNCHANGED << next_port, pc, handle, remaining, received, peer >>,
         NEW k \in Connection, k.port = conn[handle].port, k.seq >= 1,
         Len(k.rx) < TCP_RX_BUFFER_SIZE, k.ack <= Limit(k.port),
         conn' = [conn EXCEPT ![handle] = k],
         to_peer' \subseteq Segments,
         NotOverrun /\ InOrder(received, conn[handle])
           => InOrder(received, k)
  PROVE  Keeps
<1>1. /\ remaining' \in 0 .. MAX_SEND /\ received' \in Seq(Byte)
      /\ pc' \in Places \ {"idle"}
  BY DEF ConnInv, TypeOK, Byte
<1>2. ConnInv' /\ conn'[handle'] = k
  BY <1>1, HandleStep
<1> QED BY <1>2 DEF Keeps, StreamInv

(* One that leaves the bytes of the connection alone.                       *)
LEMMA OtherReceived ==
  ASSUME ConnInv, pc # "idle",
         UNCHANGED << next_port, pc, handle, remaining, received, peer >>,
         NEW k \in Connection, k.port = conn[handle].port, k.seq >= 1,
         k.rx = conn[handle].rx, k.ack <= Limit(k.port),
         conn' = [conn EXCEPT ![handle] = k],
         to_peer' \subseteq Segments,
         k.state \notin {"ESTABLISHED", "SYN_SENT"}
  PROVE  Keeps
<1>1. Len(k.rx) < TCP_RX_BUFFER_SIZE
  BY HandleFacts DEF ConnInv
<1>2. InOrder(received, conn[handle]) => InOrder(received, k)
  BY DEF InOrder
<1> QED BY <1>1, <1>2, ReceivedStep

(* What tcp_receive knows of the connection it finds and of the segment.    *)
Found(c, p, seg) ==
  /\ c = handle /\ pc # "idle" /\ p = conn[handle].port /\ p \in Ports
  /\ GoodSegment(p, seg)
  /\ Limit(p) \in Nat /\ peer[p].sent \in Nat /\ peer[p].sent >= 1
  /\ peer[p].fin => Limit(p) = STREAM + 2
  /\ peer[p].sent <= Limit(p)

LEMMA FoundIsHandle ==
  ASSUME ConnInv, NEW p \in Ports, NEW seg \in Sent(p), NEW c \in Slots, Finds(c, p)
  PROVE  Found(c, p, seg)
<1>1. conn[c].state # "CLOSED" /\ conn[c].port = p
  BY DEF Finds, Matches
<1>2. c = handle /\ pc # "idle"
  BY <1>1 DEF ConnInv, HandleInv, Unused
<1>3. GoodSegment(p, seg)
  BY SegmentFacts DEF ConnInv
<1>4. /\ peer[p].sent \in Nat /\ peer[p].sent >= 1
      /\ peer[p].fin => peer[p].sent = STREAM + 1
  BY DEF ConnInv, TypeOK, PeerInv
<1>5. STREAM \in Nat
  BY TcpAssumption
<1> QED BY <1>1, <1>2, <1>3, <1>4, <1>5 DEF Found, Limit

(* The acknowledgments tcp_receive sends.                                   *)
LEMMA PutType ==
  ASSUME ConnInv, pc # "idle", NEW a \in Nat
  PROVE  /\ [Segment(handle, {"ACK"}, 0) EXCEPT !.ack = a] \in Segments
         /\ [Segment(handle, {"FIN", "ACK"}, 0) EXCEPT !.ack = a] \in Segments
         /\ to_peer \subseteq Segments
<1>1. {"ACK"} \in SUBSET Flags /\ {"FIN", "ACK"} \in SUBSET Flags
  BY DEF Flags
<1> QED BY <1>1, SegmentType DEF ConnInv, TypeOK

(* The segment closes the connection or only moves its state on.            *)
LEMMA StateKeeps ==
  ASSUME ConnInv, pc # "idle", NEW st \in States \ {"ESTABLISHED", "SYN_SENT"},
         conn' = [conn EXCEPT ![handle].state = st], UNCHANGED to_peer,
         UNCHANGED << next_port, pc, handle, remaining, received, peer >>
  PROVE  Keeps
<1> DEFINE k == [conn[handle] EXCEPT !.state = st]
<1>1. /\ handle \in Slots /\ conn[handle] \in Connection
      /\ conn[handle].seq >= 1 /\ conn \in [Slots -> Connection]
      /\ conn[handle].ack <= Limit(conn[handle].port)
      /\ to_peer \subseteq Segments
  BY HandleFacts DEF ConnInv, TypeOK, AckInv
<1>2. k \in Connection
  BY <1>1 DEF Connection
<1>3. k.state = st
  BY <1>1 DEF Connection
<1>4. /\ k.port = conn[handle].port /\ k.seq = conn[handle].seq
      /\ k.rx = conn[handle].rx /\ k.ack = conn[handle].ack
  BY <1>1 DEF Connection
<1>5. conn' = [conn EXCEPT ![handle] = k]
  BY <1>1
<1> HIDE DEF k
<1> QED BY <1>1, <1>2, <1>3, <1>4, <1>5, OtherReceived

LEMMA SynSentKeeps ==
  ASSUME ConnInv, NEW p, NEW seg, NEW c, Found(c, p, seg), ReceiveSynSent(c, seg),
         UNCHANGED << next_port, pc, handle, remaining, received, peer >>
  PROVE  Keeps
<1>1. c = handle /\ pc # "idle" /\ conn[handle].state = "SYN_SENT"
  BY DEF Found, ReceiveSynSent
<1>2. /\ handle \in Slots /\ conn[handle] \in Connection
      /\ conn[handle].seq >= 1
      /\ Len(conn[handle].rx) < TCP_RX_BUFFER_SIZE
      /\ conn \in [Slots -> Connection]
      /\ conn[handle].ack <= Limit(conn[handle].port)
  BY <1>1, HandleFacts DEF ConnInv, TypeOK, AckInv
<1>3. CASE /\ {"SYN", "ACK"} \subseteq seg.flags
           /\ conn' = [conn EXCEPT ![c].ack = seg.seq + 1,
                                   ![c].state = "ESTABLISHED"]
           /\ Put({[Segment(c, {"ACK"}, 0) EXCEPT !.ack = seg.seq + 1]})
  <2> DEFINE k == [conn[handle] EXCEPT !.ack = seg.seq + 1, !.state = "ESTABLISHED"]
  <2>1. seg.seq = 0 /\ seg.seq + 1 = 1 /\ seg.seq + 1 \in Nat /\ 1 <= Limit(p)
    BY <1>3 DEF Found, GoodSegment
  <2>2. k \in Connection
    <3>1. \A n \in Nat : [conn[handle] EXCEPT !.ack = n, !.state = "ESTABLISHED"] \in Connection
      BY <1>2 DEF Connection, States
    <3> QED BY <2>1, <3>1
  <2>3. k.ack = 1 /\ k.state = "ESTABLISHED"
    BY <1>2, <2>1 DEF Connection
  <2>4. /\ k.port = conn[handle].port /\ k.seq = conn[handle].seq
        /\ k.rx = conn[handle].rx
    BY <1>2 DEF Connection
  <2>5. conn' = [conn EXCEPT ![handle] = k]
    BY <1>1, <1>2, <1>3
  <2> HIDE DEF k
  <2>6. to_peer' \subseteq Segments
    <3>1. [Segment(handle, {"ACK"}, 0) EXCEPT !.ack = seg.seq + 1] \in Segments
      BY <1>1, <2>1, PutType
    <3>2. to_peer \subseteq Segments
      BY DEF ConnInv, TypeOK
    <3> QED BY <1>1, <1>3, <3>1, <3>2 DEF Put
  <2>7. InOrder(received, conn[handle]) => InOrder(received, k)
    BY <1>1, <2>3, <2>4 DEF InOrder
  <2>8. k.ack <= Limit(k.port)
    BY <2>1, <2>3, <2>4 DEF Found
  <2> QED BY <1>1, <1>2, <2>2, <2>4, <2>5, <2>6, <2>7, <2>8, ReceivedStep
<1>4. CASE conn' = [conn EXCEPT ![c].state = "CLOSED"] /\ UNCHANGED to_peer
  BY <1>1, <1>4, StateKeeps DEF States
<1> QED BY <1>3, <1>4 DEF ReceiveSynSent
(* The bytes of a segment that comes next follow what is in the ring.       *)
LEMMA Written ==
  ASSUME ConnInv, NEW p, NEW seg, NEW c, Found(c, p, seg), Acceptable(handle, seg)
  PROVE  LET rx == conn[handle].rx
             r == RxWrite(rx, Payload(seg))
         IN  /\ r \in Seq(Byte) /\ Len(r) < TCP_RX_BUFFER_SIZE
             /\ NotOverrun /\ InOrder(received, conn[handle])
                  /\ conn[handle].state = "ESTABLISHED" =>
                  /\ Len(r) = Len(rx) + seg.len
                  /\ \A i \in 1 .. Len(r) : r[i] = << p, Len(received) + i >>
<1> DEFINE rx == conn[handle].rx
           bytes == Payload(seg)
           r == RxWrite(rx, bytes)
<1>1. /\ pc # "idle" /\ p = conn[handle].port /\ p \in Ports
      /\ GoodSegment(p, seg) /\ seg.len > 0 /\ seg.seq = conn[handle].ack
  BY DEF Found, Acceptable
<1>2. /\ rx \in Seq(Byte) /\ Len(rx) < TCP_RX_BUFFER_SIZE
      /\ received \in Seq(Byte)
  BY <1>1, HandleFacts DEF ConnInv, TypeOK, Byte
<1>3. /\ bytes \in Seq(Byte) /\ Len(bytes) = seg.len
      /\ \A i \in 1 .. seg.len : bytes[i] = << p, seg.seq + i - 1 >>
  BY <1>1, PayloadBytes
<1> HIDE DEF bytes, rx
<1>4. /\ r \in Seq(Byte) /\ Len(r) < TCP_RX_BUFFER_SIZE
      /\ Len(rx) + Len(bytes) < TCP_RX_BUFFER_SIZE =>
           /\ Len(r) = Len(rx) + Len(bytes)
           /\ \A i \in 1 .. Len(rx) : r[i] = rx[i]
           /\ \A i \in 1 .. Len(bytes) : r[Len(rx) + i] = bytes[i]
  BY <1>2, <1>3, RingWrite
<1> HIDE DEF r
<1>5. ASSUME NotOverrun, InOrder(received, conn[handle]),
             conn[handle].state = "ESTABLISHED"
      PROVE  /\ Len(r) = Len(rx) + seg.len
             /\ \A i \in 1 .. Len(r) : r[i] = << p, Len(received) + i >>
  <2>1. /\ seg.seq = 1 + Len(received) + Len(rx)
        /\ \A i \in 1 .. Len(rx) : rx[i] = << p, Len(received) + i >>
    BY <1>1, <1>5 DEF InOrder, rx
  <2>2. /\ Len(rx) \in Nat /\ Len(received) \in Nat /\ seg.len \in Nat
        /\ TCP_RX_BUFFER_SIZE \in Nat /\ peer[p].sent \in Nat
        /\ seg.seq + seg.len <= peer[p].sent
    <3>1. /\ Len(rx) \in Nat /\ Len(received) \in Nat /\ TCP_RX_BUFFER_SIZE \in Nat
      BY <1>2, TcpAssumption
    <3>2. peer[p].sent \in Nat
      BY <1>1 DEF ConnInv, TypeOK
    <3>3. peer[p].fin => peer[p].sent = STREAM + 1
      BY <1>1 DEF ConnInv, PeerInv
    <3>4. seg.len \in Nat /\ seg.seq + seg.len <= peer[p].sent
      BY <1>1, <3>3 DEF GoodSegment
    <3> QED BY <3>1, <3>2, <3>4
  <2>3. Len(rx) + Len(bytes) < TCP_RX_BUFFER_SIZE
    BY <1>1, <1>3, <1>5, <2>1, <2>2 DEF NotOverrun
  <2>4. /\ Len(r) = Len(rx) + seg.len
        /\ \A i \in 1 .. Len(rx) : r[i] = rx[i]
        /\ \A i \in 1 .. seg.len : r[Len(rx) + i] = bytes[i]
    BY <1>3, <1>4, <2>3
  <2>5. ASSUME NEW i \in 1 .. Len(r)
        PROVE  r[i] = << p, Len(received) + i >>
    <3>1. i \in 1 .. Len(rx) \/ i - Len(rx) \in 1 .. seg.len
      BY <2>2, <2>4
    <3>2. CASE i \in 1 .. Len(rx)
      BY <2>1, <2>4, <3>2
    <3>3. CASE i - Len(rx) \in 1 .. seg.len
      <4> DEFINE j == i - Len(rx)
      <4>1. j \in 1 .. seg.len /\ i = Len(rx) + j
            /\ seg.seq + j - 1 = Len(received) + i
        BY <2>1, <2>2, <3>3
      <4> HIDE DEF j
      <4>2. r[Len(rx) + j] = << p, seg.seq + j - 1 >>
        BY <1>3, <2>4, <4>1
      <4> QED BY <4>1, <4>2
    <3> QED BY <3>1, <3>2, <3>3
  <2> QED BY <2>4, <2>5
<1> QED BY <1>4, <1>5 DEF r, rx, bytes

LEMMA DataKeeps ==
  ASSUME ConnInv, NEW p, NEW seg, NEW c, Found(c, p, seg), ReceiveData(c, seg),
         UNCHANGED << next_port, pc, handle, remaining, received, peer >>
  PROVE  Keeps
<1> DEFINE rx == conn[handle].rx
           good == Acceptable(handle, seg)
           r == RxWrite(rx, Payload(seg))
           k == [conn[handle] EXCEPT
                  !.rx = IF good THEN RxWrite(@, Payload(seg)) ELSE @,
                  !.ack = IF good THEN @ + seg.len ELSE @]
<1>1. /\ c = handle /\ pc # "idle" /\ conn[handle].state = "ESTABLISHED"
      /\ seg.flags \cap {"RST", "FIN"} = {} /\ seg.len > 0
      /\ p = conn[handle].port
  BY DEF Found, ReceiveData
<1>2. /\ handle \in Slots /\ conn[handle] \in Connection
      /\ conn[handle].seq >= 1 /\ conn[handle].ack \in Nat
      /\ rx \in Seq(Byte) /\ Len(rx) < TCP_RX_BUFFER_SIZE
      /\ conn \in [Slots -> Connection]
      /\ conn[handle].ack <= Limit(conn[handle].port)
  BY <1>1, HandleFacts DEF ConnInv, TypeOK, AckInv
<1>3. /\ conn' = [conn EXCEPT ![handle] = k]
      /\ to_peer' = to_peer \cup {[Segment(handle, {"ACK"}, 0) EXCEPT !.ack = k.ack]}
  BY <1>1 DEF ReceiveData, Put
<1>4. seg.len \in Nat /\ (good => conn[handle].ack + seg.len <= Limit(p))
  BY <1>1 DEF Found, GoodSegment, Acceptable
<1>5. good => /\ r \in Seq(Byte) /\ Len(r) < TCP_RX_BUFFER_SIZE
              /\ NotOverrun /\ InOrder(received, conn[handle]) =>
                   /\ Len(r) = Len(rx) + seg.len
                   /\ \A i \in 1 .. Len(r) : r[i] = << p, Len(received) + i >>
  BY <1>1, Written
<1> HIDE DEF good, r, rx
<1>6. /\ k.rx = IF good THEN r ELSE rx
      /\ k.ack = IF good THEN conn[handle].ack + seg.len ELSE conn[handle].ack
  BY <1>2 DEF Connection, r, rx
<1>7. /\ k.port = conn[handle].port /\ k.seq = conn[handle].seq
      /\ k.state = conn[handle].state
  BY <1>2 DEF Connection
<1>8. k.ack \in Nat /\ k.rx \in Seq(Byte)
  BY <1>2, <1>4, <1>5, <1>6
<1>9. k \in Connection
  <2>1. \A a \in Nat, x \in Seq(Byte) :
          [conn[handle] EXCEPT !.rx = x, !.ack = a] \in Connection
    BY <1>2 DEF Connection, Byte
  <2> DEFINE x == IF good THEN RxWrite(conn[handle].rx, Payload(seg)) ELSE conn[handle].rx
             a == IF good THEN conn[handle].ack + seg.len ELSE conn[handle].ack
  <2>2. x \in Seq(Byte) /\ a \in Nat
    BY <1>6, <1>8 DEF r, rx
  <2>3. k = [conn[handle] EXCEPT !.rx = x, !.ack = a]
    OBVIOUS
  <2> HIDE DEF x, a
  <2> QED BY <2>1, <2>2, <2>3
<1> HIDE DEF k
<1>10. to_peer' \subseteq Segments
  BY <1>1, <1>3, <1>8, PutType
<1>11. Len(k.rx) < TCP_RX_BUFFER_SIZE /\ k.ack <= Limit(k.port)
  BY <1>1, <1>2, <1>4, <1>5, <1>6, <1>7
<1>12. ASSUME NotOverrun, InOrder(received, conn[handle])
       PROVE  InOrder(received, k)
  <2>1. CASE ~good
    BY <1>6, <1>7, <1>12, <2>1 DEF InOrder, rx
  <2>2. CASE good
    <3>1. /\ \A i \in 1 .. Len(received) : received[i] = << k.port, i >>
          /\ conn[handle].ack = 1 + Len(received) + Len(rx)
      BY <1>1, <1>7, <1>12 DEF InOrder, rx
    <3>2. Len(rx) \in Nat /\ Len(received) \in Nat
      BY <1>2 DEF ConnInv, TypeOK
    <3>3. k.ack = 1 + Len(received) + Len(k.rx)
      <4>1. Len(r) = Len(rx) + seg.len
        BY <1>5, <1>12, <1>1, <2>2
      <4>2. k.ack = conn[handle].ack + seg.len /\ k.rx = r
        BY <1>6, <2>2
      <4>3. Len(k.rx) = Len(rx) + seg.len
        BY <4>1, <4>2
      <4>4. k.ack = 1 + Len(received) + Len(rx) + seg.len
        BY <3>1, <4>2
      <4>5. seg.len \in Nat
        BY <1>4
      <4> DEFINE a == Len(received)  n == Len(rx)  m == seg.len  l == Len(k.rx)
      <4>6. /\ a \in Nat /\ n \in Nat /\ m \in Nat /\ l = n + m
            /\ k.ack = 1 + a + n + m
        BY <3>2, <4>3, <4>4, <4>5
      <4> HIDE DEF a, n, m, l
      <4>7. k.ack = 1 + a + l
        BY ONLY <4>6
      <4> QED BY <4>7 DEF a, l
    <3>4. \A i \in 1 .. Len(k.rx) : k.rx[i] = << k.port, Len(received) + i >>
      BY <1>1, <1>5, <1>6, <1>7, <1>12, <2>2
    <3> QED BY <1>1, <1>7, <3>1, <3>3, <3>4 DEF InOrder
  <2> QED BY <2>1, <2>2
<1> QED BY <1>1, <1>2, <1>3, <1>7, <1>9, <1>10, <1>11, <1>12, ReceivedStep
LEMMA FinKeeps ==
  ASSUME ConnInv, NEW p, NEW seg, NEW c, Found(c, p, seg), ReceiveFin(c, seg),
         UNCHANGED << next_port, pc, handle, remaining, received, peer >>
  PROVE  Keeps
<1> DEFINE rx == conn[handle].rx
           good == Acceptable(handle, seg)
           r == RxWrite(rx, Payload(seg))
           ack == seg.seq + seg.len + 1
           k == [conn[handle] EXCEPT
                  !.rx = IF good THEN RxWrite(@, Payload(seg)) ELSE @,
                  !.ack = ack, !.seq = @ + 1, !.state = "LAST_ACK"]
<1>1. /\ c = handle /\ pc # "idle" /\ conn[handle].state = "ESTABLISHED"
      /\ "FIN" \in seg.flags /\ p = conn[handle].port
  BY DEF Found, ReceiveFin
<1>2. /\ handle \in Slots /\ conn[handle] \in Connection
      /\ conn[handle].seq \in Nat /\ conn[handle].seq >= 1
      /\ rx \in Seq(Byte) /\ Len(rx) < TCP_RX_BUFFER_SIZE
      /\ conn \in [Slots -> Connection]
  BY <1>1, HandleFacts DEF ConnInv, TypeOK
<1>3. conn' = [conn EXCEPT ![handle] = k]
  BY <1>1, <1>2 DEF ReceiveFin
<1>4. to_peer' = to_peer \cup {[Segment(handle, {"ACK"}, 0) EXCEPT !.ack = ack],
                               [Segment(handle, {"FIN", "ACK"}, 0) EXCEPT !.ack = ack]}
  BY <1>1 DEF ReceiveFin, Put
<1>5. ack \in Nat /\ ack <= Limit(p)
  BY <1>1, TcpAssumption DEF Found, GoodSegment
<1>6. good => /\ r \in Seq(Byte) /\ Len(r) < TCP_RX_BUFFER_SIZE
              /\ NotOverrun /\ InOrder(received, conn[handle]) =>
                   \A i \in 1 .. Len(r) : r[i] = << p, Len(received) + i >>
  BY <1>1, Written
<1> HIDE DEF good, r, rx, ack
<1>7. k.rx = IF good THEN r ELSE rx
  BY <1>2 DEF Connection, r, rx
<1>8. k.ack = ack /\ k.seq = conn[handle].seq + 1 /\ k.state = "LAST_ACK"
  BY <1>2 DEF Connection
<1>9. k.port = conn[handle].port
  BY <1>2 DEF Connection
<1>10. k \in Connection
  <2>1. \A x \in Seq(Byte), a \in Nat, n \in Nat :
          [conn[handle] EXCEPT !.rx = x, !.ack = a, !.seq = n, !.state = "LAST_ACK"]
            \in Connection
    BY <1>2 DEF Connection, Byte, States
  <2> DEFINE x == IF good THEN RxWrite(conn[handle].rx, Payload(seg)) ELSE conn[handle].rx
             n == conn[handle].seq + 1
  <2>2. n \in Nat
    BY <1>2
  <2>3. x \in Seq(Byte)
    BY <1>2, <1>6 DEF r, rx
  <2>4. k = [conn[handle] EXCEPT !.rx = x, !.ack = ack, !.seq = n, !.state = "LAST_ACK"]
    OBVIOUS
  <2> HIDE DEF x, n
  <2> QED BY <1>5, <2>1, <2>2, <2>3, <2>4
<1> HIDE DEF k
<1>11. to_peer' \subseteq Segments
  BY <1>1, <1>4, <1>5, PutType
<1>12. Len(k.rx) < TCP_RX_BUFFER_SIZE /\ k.ack <= Limit(k.port) /\ k.seq >= 1
  BY <1>1, <1>2, <1>5, <1>6, <1>7, <1>8, <1>9
<1>13. ASSUME NotOverrun, InOrder(received, conn[handle])
       PROVE  InOrder(received, k)
  <2>1. \A i \in 1 .. Len(received) : received[i] = << k.port, i >>
    BY <1>9, <1>13 DEF InOrder
  <2>2. \A i \in 1 .. Len(k.rx) : k.rx[i] = << k.port, Len(received) + i >>
    <3>1. CASE good
      BY <1>1, <1>6, <1>7, <1>9, <1>13, <3>1
    <3>2. CASE ~good
      BY <1>7, <1>9, <1>13, <3>2 DEF InOrder, rx
    <3> QED BY <3>1, <3>2
  <2> QED BY <1>8, <2>1, <2>2 DEF InOrder
<1> QED BY <1>1, <1>3, <1>9, <1>10, <1>11, <1>12, <1>13, ReceivedStep

LEMMA FinWaitKeeps ==
  ASSUME ConnInv, NEW p, NEW seg, NEW c, Found(c, p, seg), ReceiveFinWait(c, seg),
         UNCHANGED << next_port, pc, handle, remaining, received, peer >>
  PROVE  Keeps
<1>1. c = handle /\ pc # "idle" /\ p = conn[handle].port
  BY DEF Found
<1>2. /\ handle \in Slots /\ conn[handle] \in Connection
      /\ conn[handle].seq >= 1 /\ conn \in [Slots -> Connection]
  BY <1>1, HandleFacts DEF ConnInv, TypeOK
<1>3. CASE /\ "FIN" \in seg.flags
           /\ conn' = [conn EXCEPT ![c].ack = FinAck(seg), ![c].state = "TIME_WAIT"]
           /\ Put({[Segment(c, {"ACK"}, 0) EXCEPT !.ack = FinAck(seg)]})
  <2> DEFINE k == [conn[handle] EXCEPT !.ack = FinAck(seg), !.state = "TIME_WAIT"]
  <2>1. FinAck(seg) \in Nat /\ FinAck(seg) <= Limit(p)
    BY <1>3, TcpAssumption DEF Found, GoodSegment, FinAck
  <2>2. k \in Connection
    <3>1. \A n \in Nat : [conn[handle] EXCEPT !.ack = n, !.state = "TIME_WAIT"] \in Connection
      BY <1>2 DEF Connection, States
    <3> QED BY <2>1, <3>1
  <2>3. k.ack = FinAck(seg) /\ k.state = "TIME_WAIT"
    BY <1>2 DEF Connection
  <2>4. /\ k.port = conn[handle].port /\ k.seq = conn[handle].seq
        /\ k.rx = conn[handle].rx
    BY <1>2 DEF Connection
  <2>5. conn' = [conn EXCEPT ![handle] = k]
    BY <1>1, <1>2, <1>3
  <2> HIDE DEF k
  <2>6. to_peer' \subseteq Segments
    <3>1. [Segment(handle, {"ACK"}, 0) EXCEPT !.ack = FinAck(seg)] \in Segments
      BY <1>1, <2>1, PutType
    <3>2. to_peer \subseteq Segments
      BY DEF ConnInv, TypeOK
    <3> QED BY <1>1, <1>3, <3>1, <3>2 DEF Put
  <2> QED BY <1>1, <1>2, <2>1, <2>2, <2>3, <2>4, <2>5, <2>6, OtherReceived
<1>4. CASE conn' = [conn EXCEPT ![c].state = "FIN_WAIT_2"] /\ UNCHANGED to_peer
  BY <1>1, <1>4, StateKeeps DEF States
<1> QED BY <1>3, <1>4 DEF ReceiveFinWait

LEMMA ReceiveKeeps ==
  ASSUME ConnInv, Receive
  PROVE  Keeps
<1>1. UNCHANGED << next_port, pc, handle, remaining, received, peer >>
  BY DEF Receive
<1> DEFINE Handled(p, seg, c) ==
             /\ Finds(c, p)
             /\ \/ ReceiveSynSent(c, seg)
                \/ ReceiveReset(c, seg)
                \/ ReceiveData(c, seg)
                \/ ReceiveFin(c, seg)
                \/ ReceiveFinWait(c, seg)
                \/ ReceiveLastAck(c, seg)
<1>2. \E p \in Ports : \E seg \in Sent(p) : \E c \in Slots : Handled(p, seg, c)
  BY DEF Receive
<1>5. PICK p \in Ports : \E seg \in Sent(p) : \E c \in Slots : Handled(p, seg, c)
  BY <1>2
<1>6. PICK seg \in Sent(p) : \E c \in Slots : Handled(p, seg, c)
  BY <1>5
<1>7. PICK c \in Slots : Handled(p, seg, c)
  BY <1>6
<1>3. Found(c, p, seg)
  BY <1>7, FoundIsHandle
<1>4. CASE ReceiveReset(c, seg) \/ ReceiveLastAck(c, seg)
  BY <1>1, <1>3, <1>4, StateKeeps DEF ReceiveReset, ReceiveLastAck, Found, States
<1> QED BY <1>1, <1>7, <1>3, <1>4, SynSentKeeps, DataKeeps, FinKeeps, FinWaitKeeps

-----------------------------------------------------------------------------
(* The server only ever sends more.                                         *)
LEMMA PeerKeeps ==
  ASSUME ConnInv, NEW p \in Ports,
         \/ PeerAccept(p) \/ PeerReceive(p) \/ PeerSend(p) \/ PeerFin(p) \/ PeerReset(p)
  PROVE  Keeps
<1> DEFINE Peers == [syn : BOOLEAN, una : Nat, sent : Nat, fin : BOOLEAN, rst : BOOLEAN]
<1>1. UNCHANGED claos /\ UNCHANGED to_peer
  BY DEF PeerAccept, PeerReceive, PeerSend, PeerFin, PeerReset
<1>2. UNCHANGED << conn, next_port, pc, handle, remaining, received >>
  BY <1>1 DEF claos
<1>3. peer \in [Ports -> Peers] /\ to_peer \subseteq Segments
  BY DEF ConnInv, TypeOK
<1>4. PICK s \in Peers :
        /\ peer' = [peer EXCEPT ![p] = s]
        /\ s.sent \in peer[p].sent .. STREAM + 1
        /\ s.fin => s.sent = STREAM + 1
        /\ peer[p].fin => s.fin
  <2> DEFINE old == peer[p]
             Good(s) == /\ s \in Peers
                        /\ peer' = [peer EXCEPT ![p] = s]
                        /\ s.sent \in old.sent .. STREAM + 1
                        /\ s.fin => s.sent = STREAM + 1
                        /\ old.fin => s.fin
  <2>1. /\ old \in Peers /\ old.sent \in Nat /\ 1 <= old.sent /\ old.sent <= STREAM + 1
        /\ old.fin => old.sent = STREAM + 1
        /\ STREAM \in Nat /\ old.sent \in old.sent .. STREAM + 1
    BY <1>3, TcpAssumption DEF ConnInv, PeerInv
  <2>2. SUFFICES \E s : Good(s)
    OBVIOUS
  <2>3. CASE PeerAccept(p)
    <3> DEFINE s == [old EXCEPT !.syn = TRUE]
    <3>1. s \in Peers /\ s.sent = old.sent /\ s.fin = old.fin
      BY <2>1
    <3>2. peer' = [peer EXCEPT ![p] = s]
      BY <2>3 DEF PeerAccept
    <3> HIDE DEF s
    <3>5. Good(s)
      BY <2>1, <3>1, <3>2
    <3> QED BY <3>5
  <2>4. CASE PeerReceive(p)
    <3>1. PICK seg \in to_peer : peer' = [peer EXCEPT ![p].una = seg.ack]
      BY <2>4 DEF PeerReceive
    <3>2. seg.ack \in Nat
      BY <1>3 DEF Segments
    <3> DEFINE s == [old EXCEPT !.una = seg.ack]
    <3>3. s \in Peers /\ s.sent = old.sent /\ s.fin = old.fin
      BY <2>1, <3>2
    <3>4. peer' = [peer EXCEPT ![p] = s]
      BY <3>1
    <3> HIDE DEF s
    <3>5. Good(s)
      BY <2>1, <3>3, <3>4
    <3> QED BY <3>5
  <2>5. CASE PeerSend(p)
    <3> DEFINE s == [old EXCEPT !.sent = @ + 1]
    <3>1. old.sent + 1 \in old.sent .. STREAM + 1 /\ old.sent + 1 \in Nat /\ ~old.fin
      BY <2>1, <2>5 DEF PeerSend
    <3>2. s \in Peers
      BY <2>1, <3>1
    <3>3. s.sent = old.sent + 1 /\ s.fin = old.fin
      BY <2>1
    <3>4. peer' = [peer EXCEPT ![p] = s]
      BY <2>5 DEF PeerSend
    <3> HIDE DEF s
    <3>5. Good(s)
      BY <3>1, <3>2, <3>3, <3>4
    <3> QED BY <3>5
  <2>6. CASE PeerFin(p)
    <3> DEFINE s == [old EXCEPT !.fin = TRUE]
    <3>1. s \in Peers /\ s.sent = old.sent /\ s.fin
      BY <2>1
    <3>2. peer' = [peer EXCEPT ![p] = s] /\ old.sent = STREAM + 1
      BY <2>6 DEF PeerFin
    <3> HIDE DEF s
    <3>5. Good(s)
      BY <2>1, <3>1, <3>2
    <3> QED BY <3>5
  <2>7. CASE PeerReset(p)
    <3> DEFINE s == [old EXCEPT !.rst = TRUE]
    <3>1. s \in Peers /\ s.sent = old.sent /\ s.fin = old.fin
      BY <2>1
    <3>2. peer' = [peer EXCEPT ![p] = s]
      BY <2>7 DEF PeerReset
    <3> HIDE DEF s
    <3>5. Good(s)
      BY <2>1, <3>1, <3>2
    <3> QED BY <3>5
  <2> QED BY <2>3, <2>4, <2>5, <2>6, <2>7
<1>5. \A q \in Ports : peer'[q] = IF q = p THEN s ELSE peer[q]
  BY <1>3, <1>4
<1>6. peer' \in [Ports -> Peers]
  BY <1>3, <1>4
<1>7. TypeOK'
  BY <1>1, <1>2, <1>6 DEF ConnInv, TypeOK
<1>8. PeerInv'
  BY <1>3, <1>4, <1>5, TcpAssumption DEF ConnInv, PeerInv
<1>9. HandleInv'
  BY <1>2 DEF ConnInv, HandleInv
<1>10. \A q \in Ports : /\ peer[q].sent \in Nat /\ peer'[q].sent \in Nat
                        /\ peer[q].sent <= peer'[q].sent
                        /\ peer[q].fin => peer'[q].fin
  BY <1>3, <1>4, <1>5, TcpAssumption
<1>11. AckInv'
  <2>1. CASE pc = "idle"
    BY <1>2, <2>1 DEF AckInv
  <2>2. CASE pc # "idle"
    <3> DEFINE q == conn[handle].port
    <3>1. q \in Ports /\ conn[handle].ack \in Nat /\ conn[handle].ack <= Limit(q)
      BY <2>2, HandleFacts DEF ConnInv, AckInv
    <3>2. conn'[handle'].ack = conn[handle].ack /\ conn'[handle'].port = q
      BY <1>2
    <3> HIDE DEF q
    <3>3. conn[handle].ack <= peer'[q].sent + (IF peer'[q].fin THEN 1 ELSE 0)
      BY <1>10, <3>1 DEF Limit
    <3> QED BY <3>2, <3>3 DEF AckInv, Limit
  <2> QED BY <2>1, <2>2
<1>12. StreamInv => StreamInv'
  BY <1>2 DEF StreamInv
<1> QED BY <1>7, <1>8, <1>9, <1>11, <1>12 DEF ConnInv, Keeps
-----------------------------------------------------------------------------
LEMMA InitKeeps ==
  ASSUME Init
  PROVE  ConnInv /\ StreamInv
<1>1. /\ conn = [c \in Slots |-> Unused] /\ next_port = 1 /\ pc = "idle" /\ handle = 0
      /\ remaining = 0 /\ received = << >> /\ to_peer = {}
      /\ peer = [p \in Ports |-> NoPeer]
  BY DEF Init
<1>2. Unused \in Connection /\ Len(Unused.rx) < TCP_RX_BUFFER_SIZE
  BY TcpAssumption DEF Unused, Connection, States
<1>3. TypeOK
  <2>1. /\ next_port \in 1 .. MAX_PORT + 1 /\ handle \in Slots
        /\ remaining \in 0 .. MAX_SEND
    BY <1>1, TcpAssumption DEF Slots
  <2>2. NoPeer \in [syn : BOOLEAN, una : Nat, sent : Nat, fin : BOOLEAN, rst : BOOLEAN]
    BY DEF NoPeer
  <2> QED BY <1>1, <1>2, <2>1, <2>2 DEF TypeOK, Places
<1>4. PeerInv
  BY <1>1, TcpAssumption DEF PeerInv, NoPeer
<1>5. HandleInv /\ AckInv
  BY <1>1 DEF HandleInv, AckInv
<1> QED BY <1>1, <1>3, <1>4, <1>5 DEF ConnInv, StreamInv

LEMMA StepKeeps ==
  ASSUME ConnInv, [Next]_vars
  PROVE  Keeps
<1>1. CASE Next
  BY <1>1, ConnectKeeps, SendKeeps, AdvanceSeqKeeps, FinSentKeeps, CloseKeeps,
     RecvKeeps, ReceiveKeeps, PeerKeeps DEF Next
<1>2. CASE UNCHANGED vars
  <2>1. UNCHANGED << conn, next_port, pc, handle, remaining, received, to_peer, peer >>
    BY <1>2 DEF vars, claos
  <2>2. ConnInv'
    BY <2>1 DEF ConnInv, TypeOK, PeerInv, HandleInv, AckInv, Limit
  <2>3. StreamInv => StreamInv'
    BY <2>1 DEF StreamInv
  <2> QED BY <2>2, <2>3 DEF Keeps
<1> QED BY <1>1, <1>2

LEMMA ConnAlways == Spec => []ConnInv
<1>1. ConnInv /\ [Next]_vars => ConnInv'
  BY StepKeeps DEF Keeps
<1> QED BY <1>1, InitKeeps, PTL DEF Spec

(* The connections and their rings stay what tcp.c declares: no more bytes  *)
(* in a ring than fit, ports only of connections made.                      *)
THEOREM TcpTypes == Spec => []TypeOK
<1>1. ConnInv => TypeOK
  BY DEF ConnInv
<1> QED BY <1>1, ConnAlways, PTL

(* tcp_receive acknowledges nothing the server has not sent, whatever the   *)
(* network does with the segments of this and of earlier connections.       *)
THEOREM AcksWhatWasSent == Spec => []AckNotAhead
<1>1. ASSUME ConnInv PROVE AckNotAhead
  <2>1. ASSUME NEW c \in Slots, Open(c)
        PROVE  conn[c].ack <= Limit(conn[c].port)
    <3>1. c = handle /\ pc # "idle"
      BY <1>1, <2>1 DEF ConnInv, HandleInv, Open, Unused
    <3> QED BY <1>1, <3>1 DEF ConnInv, AckInv
  <2> QED BY <2>1 DEF AckNotAhead, Limit
<1> QED BY <1>1, ConnAlways, PTL

(* After tcp_close, and after a tcp_connect that fails, every connection is *)
(* free again, wherever the segments came in between.                       *)
THEOREM SlotsComeBack == Spec => []NoSlotLeaked
<1>1. ConnInv => NoSlotLeaked
  BY DEF ConnInv, HandleInv, NoSlotLeaked, Unused
<1> QED BY <1>1, ConnAlways, PTL

LEMMA StreamAlways ==
  Spec /\ []NotOverrun => [](ConnInv /\ StreamInv)
<1>1. ConnInv /\ StreamInv /\ NotOverrun /\ [Next]_vars => (ConnInv /\ StreamInv)'
  BY StepKeeps DEF Keeps
<1> QED BY <1>1, InitKeeps, PTL DEF Spec

(* What the TLS client has read is the beginning of what the server sent on *)
(* this very connection, and what waits in the ring is what comes next:     *)
(* nothing is lost, repeated or swapped, and nothing is left over from an   *)
(* earlier connection.                                                      *)
ReadIsPrefix ==
  Holding => LET all == received \o conn[handle].rx
             IN  all = [i \in 1 .. Len(all) |-> << conn[handle].port, i >>]

(* So it is as long as the server does not overrun the ring: tcp_rx_write   *)
(* drops what does not fit.                                                 *)
THEOREM StreamIsRead == Spec /\ []NotOverrun => []ReadIsPrefix
<1>1. ASSUME ConnInv, StreamInv PROVE ReadIsPrefix
  <2> DEFINE rx == conn[handle].rx
             port == conn[handle].port
             all == received \o rx
  <2> SUFFICES ASSUME Holding PROVE all = [i \in 1 .. Len(all) |-> << port, i >>]
    BY DEF ReadIsPrefix
  <2>1. pc # "idle"
    BY DEF Holding
  <2>2. /\ rx \in Seq(Byte) /\ received \in Seq(Byte)
    BY <1>1, <2>1, HandleFacts DEF ConnInv, TypeOK, Byte
  <2>3. /\ \A i \in 1 .. Len(received) : received[i] = << port, i >>
        /\ \A i \in 1 .. Len(rx) : rx[i] = << port, Len(received) + i >>
    BY <1>1, <2>1 DEF StreamInv, InOrder
  <2> HIDE DEF rx, port
  <2>4. /\ all \in Seq(Byte) /\ Len(all) = Len(received) + Len(rx)
        /\ \A i \in 1 .. Len(received) : all[i] = received[i]
        /\ \A i \in 1 .. Len(rx) : all[Len(received) + i] = rx[i]
    BY <2>2
  <2> HIDE DEF all
  <2>5. ASSUME NEW i \in 1 .. Len(all) PROVE all[i] = << port, i >>
    <3>1. i \in 1 .. Len(received) \/ i - Len(received) \in 1 .. Len(rx)
      BY <2>2, <2>4
    <3>2. CASE i \in 1 .. Len(received)
      BY <2>3, <2>4, <3>2
    <3>3. CASE i - Len(received) \in 1 .. Len(rx)
      <4> DEFINE j == i - Len(received)
      <4>1. j \in 1 .. Len(rx) /\ i = Len(received) + j
        BY <2>2, <2>4, <3>3
      <4> HIDE DEF j
      <4> QED BY <2>3, <2>4, <4>1
    <3> QED BY <3>1, <3>2, <3>3
  <2>6. all = [i \in 1 .. Len(all) |-> all[i]]
    BY <2>4
  <2> QED BY <2>5, <2>6
<1> QED BY <1>1, StreamAlways, PTL

(* As long as the server does not overrun the ring, every byte tcp_receive  *)
(* has acknowledged is in the ring or has been read.                        *)
THEOREM AckedBytesStay == Spec /\ []NotOverrun => []AckedIsKept
<1>1. ConnInv /\ StreamInv => AckedIsKept
  BY DEF AckedIsKept, StreamInv, InOrder, Holding
<1> QED BY <1>1, StreamAlways, PTL

(* A stream that is smaller than the ring cannot overrun it, however slowly *)
(* it is read ...                                                           *)
LEMMA NeverOverrun ==
  ASSUME STREAM < TCP_RX_BUFFER_SIZE
  PROVE  Spec => []NotOverrun
<1>1. ASSUME ConnInv PROVE NotOverrun
  <2> SUFFICES ASSUME pc # "idle"
               PROVE  peer[conn[handle].port].sent - 1
                        < Len(received) + TCP_RX_BUFFER_SIZE
    BY DEF NotOverrun
  <2> DEFINE p == conn[handle].port
  <2>1. p \in Ports
    BY <1>1, HandleFacts DEF ConnInv
  <2> HIDE DEF p
  <2>2. /\ peer[p].sent \in Nat /\ peer[p].sent <= STREAM + 1
        /\ Len(received) \in Nat /\ STREAM \in Nat /\ TCP_RX_BUFFER_SIZE \in Nat
    BY <1>1, <2>1, TcpAssumption DEF ConnInv, TypeOK, PeerInv
  <2>3. peer[p].sent - 1 < Len(received) + TCP_RX_BUFFER_SIZE
    BY <2>2
  <2> QED BY <2>3 DEF p
<1> QED BY <1>1, ConnAlways, PTL

(* ... so both hold without a condition.                                    *)
COROLLARY ShortStreams ==
  ASSUME STREAM < TCP_RX_BUFFER_SIZE
  PROVE  Spec => [](ReadIsPrefix /\ AckedIsKept)
BY NeverOverrun, StreamIsRead, AckedBytesStay, PTL
-----------------------------------------------------------------------------
(* The refinement.  It needs one fact more, that no byte is there before it *)
(* has been sent.                                                           *)
SentInv ==
  pc # "idle" =>
    1 + Len(received) + Len(conn[handle].rx) <= peer[conn[handle].port].sent

LEMMA RingLength ==
  ASSUME NEW rx \in Seq(Byte), NEW bytes \in Seq(Byte)
  PROVE  /\ RxWrite(rx, bytes) \in Seq(Byte)
         /\ Len(RxWrite(rx, bytes)) <= Len(rx) + Len(bytes)
<1> DEFINE all == rx \o bytes
           n == Smaller(Len(rx) + Len(bytes), TCP_RX_BUFFER_SIZE - 1)
<1>1. /\ Len(rx) \in Nat /\ Len(bytes) \in Nat
      /\ TCP_RX_BUFFER_SIZE \in Nat /\ TCP_RX_BUFFER_SIZE > 0
  BY TcpAssumption
<1>2. all \in Seq(Byte) /\ Len(all) = Len(rx) + Len(bytes)
  OBVIOUS
<1>3. n \in 0 .. Len(all)
  BY <1>1, <1>2 DEF Smaller
<1> HIDE DEF all, n
<1>4. SubSeq(all, 1, n) \in Seq(Byte) /\ Len(SubSeq(all, 1, n)) = n
  BY <1>2, <1>3
<1>5. RxWrite(rx, bytes) = SubSeq(all, 1, n)
  BY DEF RxWrite, all, n
<1> QED BY <1>1, <1>2, <1>3, <1>4, <1>5

(* A step on the connection of the kernel task that adds as many bytes as   *)
(* the server is ahead of ack, or none.                                     *)
LEMMA SentStep ==
  ASSUME ConnInv, SentInv, pc # "idle", pc' # "idle", handle' = handle,
         conn'[handle].port = conn[handle].port,
         peer'[conn[handle].port].sent \in Nat,
         peer'[conn[handle].port].sent >= peer[conn[handle].port].sent,
         Len(received') \in Nat, Len(conn'[handle].rx) \in Nat,
         Len(received') + Len(conn'[handle].rx) = Len(received) + Len(conn[handle].rx)
  PROVE  SentInv'
<1> DEFINE p == conn[handle].port
           a == Len(received)
           n == Len(conn[handle].rx)
           b == Len(received')
           c == Len(conn'[handle].rx)
           s == peer[p].sent
           t == peer'[p].sent
<1>1. /\ a \in Nat /\ n \in Nat /\ b \in Nat /\ c \in Nat /\ s \in Nat /\ t \in Nat
      /\ 1 + a + n <= s /\ s <= t /\ b + c = a + n
  <2>1. p \in Ports /\ conn[handle].rx \in Seq(Byte) /\ received \in Seq(Byte)
    BY HandleFacts DEF ConnInv, TypeOK, Byte
  <2>2. peer[p].sent \in Nat
    BY <2>1 DEF ConnInv, TypeOK
  <2>3. 1 + a + n <= s
    BY DEF SentInv
  <2>4. a \in Nat /\ n \in Nat
    BY <2>1
  <2> QED BY <2>2, <2>3, <2>4
<1> HIDE DEF a, n, b, c, s, t
<1>2. 1 + b + c <= t
  BY ONLY <1>1
<1> QED BY <1>2 DEF SentInv, b, c, t

LEMMA RecvSent ==
  ASSUME ConnInv, SentInv, Recv
  PROVE  SentInv'
<1> DEFINE rx == conn[handle].rx
<1>1. /\ pc = "open" /\ pc' # "idle" /\ handle' = handle /\ peer' = peer
      /\ handle \in Slots /\ conn \in [Slots -> Connection] /\ conn[handle] \in Connection
      /\ rx \in Seq(Byte) /\ received \in Seq(Byte)
      /\ peer[conn[handle].port].sent \in Nat
  BY HandleFacts DEF Recv, ConnInv, TypeOK, Byte
<1>2. CASE UNCHANGED << conn, received >>
  BY <1>1, <1>2, SentStep
<1>3. CASE \E n \in 1 .. Len(rx) :
             /\ received' = received \o SubSeq(rx, 1, n)
             /\ conn' = [conn EXCEPT ![handle].rx = SubSeq(rx, n + 1, Len(rx))]
  <2>1. PICK n \in 1 .. Len(rx) :
          /\ received' = received \o SubSeq(rx, 1, n)
          /\ conn' = [conn EXCEPT ![handle].rx = SubSeq(rx, n + 1, Len(rx))]
    BY <1>3
  <2> DEFINE tail == SubSeq(rx, n + 1, Len(rx))
  <2>2. MovedTo(received, rx, n, received', tail)
    BY <1>1, <2>1, Moved
  <2>3. conn'[handle].rx = tail /\ conn'[handle].port = conn[handle].port
    BY <1>1, <2>1 DEF Connection
  <2> HIDE DEF tail, rx
  <2>4. /\ Len(received') = Len(received) + n /\ Len(tail) = Len(rx) - n
        /\ n \in Nat /\ n <= Len(rx) /\ Len(rx) \in Nat /\ Len(received) \in Nat
    BY <1>1, <2>2 DEF MovedTo
  <2>5. /\ Len(received') \in Nat /\ Len(tail) \in Nat
        /\ Len(received') + Len(tail) = Len(received) + Len(rx)
    BY <2>4
  <2> QED BY <1>1, <2>3, <2>5, SentStep DEF rx
<1> QED BY <1>2, <1>3 DEF Recv

(* Data, with a FIN or without: what is accepted begins at ack, where the    *)
(* bytes kept so far end, and has been sent.                                *)
LEMMA AcceptedSent ==
  ASSUME ConnInv, StreamInv, SentInv, NEW p, NEW seg, Found(handle, p, seg),
         conn[handle].state = "ESTABLISHED", pc' = pc,
         UNCHANGED << handle, received, peer >>,
         conn'[handle].port = conn[handle].port,
         conn'[handle].rx = IF Acceptable(handle, seg)
                              THEN RxWrite(conn[handle].rx, Payload(seg)) ELSE conn[handle].rx
  PROVE  SentInv'
<1>1. /\ pc # "idle" /\ p = conn[handle].port /\ p \in Ports /\ GoodSegment(p, seg)
      /\ peer[p].sent \in Nat
  BY DEF Found
<1>2. conn[handle].rx \in Seq(Byte) /\ received \in Seq(Byte)
  BY <1>1, HandleFacts DEF ConnInv, TypeOK, Byte
<1>3. CASE ~Acceptable(handle, seg)
  BY <1>1, <1>2, <1>3, SentStep
<1>4. CASE Acceptable(handle, seg)
  <2> DEFINE a == Len(received)
             n == Len(conn[handle].rx)
             m == seg.len
             r == Len(conn'[handle].rx)
             s == peer[p].sent
             q == seg.seq
  <2>1. m > 0 /\ q = 1 + a + n
    BY <1>1, <1>4 DEF Acceptable, StreamInv, InOrder
  <2>2. q + m <= s /\ m \in Nat
    <3>1. peer[p].fin => s = STREAM + 1
      BY <1>1 DEF ConnInv, PeerInv
    <3> QED BY <1>1, <2>1, <3>1 DEF GoodSegment
  <2>3. Payload(seg) \in Seq(Byte) /\ Len(Payload(seg)) = m
    BY <1>1, <2>1, PayloadBytes
  <2>4. r <= n + m /\ r \in Nat
    BY <1>2, <1>4, <2>3, RingLength
  <2>5. a \in Nat /\ n \in Nat /\ s \in Nat
    BY <1>1, <1>2
  <2> HIDE DEF a, n, m, r, s, q
  <2>6. 1 + a + r <= s
    BY ONLY <2>1, <2>2, <2>4, <2>5
  <2> QED BY <1>1, <2>6 DEF SentInv, a, r, s
<1> QED BY <1>3, <1>4

LEMMA ReceiveSent ==
  ASSUME ConnInv, StreamInv, SentInv, Receive
  PROVE  SentInv'
<1>1. PICK p \in Ports : \E seg \in Sent(p) : \E c \in Slots :
        /\ Finds(c, p)
        /\ \/ ReceiveSynSent(c, seg) \/ ReceiveReset(c, seg) \/ ReceiveData(c, seg)
           \/ ReceiveFin(c, seg) \/ ReceiveFinWait(c, seg) \/ ReceiveLastAck(c, seg)
  BY DEF Receive
<1>2. PICK seg \in Sent(p) : \E c \in Slots :
        /\ Finds(c, p)
        /\ \/ ReceiveSynSent(c, seg) \/ ReceiveReset(c, seg) \/ ReceiveData(c, seg)
           \/ ReceiveFin(c, seg) \/ ReceiveFinWait(c, seg) \/ ReceiveLastAck(c, seg)
  BY <1>1
<1>3. PICK c \in Slots :
        /\ Finds(c, p)
        /\ \/ ReceiveSynSent(c, seg) \/ ReceiveReset(c, seg) \/ ReceiveData(c, seg)
           \/ ReceiveFin(c, seg) \/ ReceiveFinWait(c, seg) \/ ReceiveLastAck(c, seg)
  BY <1>2
<1>4. /\ c = handle /\ pc # "idle" /\ Found(handle, p, seg)
      /\ handle \in Slots /\ conn[handle] \in Connection /\ conn \in [Slots -> Connection]
      /\ conn[handle].rx \in Seq(Byte) /\ received \in Seq(Byte)
      /\ peer[conn[handle].port].sent \in Nat
  <2>1. Found(c, p, seg)
    BY <1>3, FoundIsHandle
  <2>2. c = handle /\ pc # "idle"
    BY <2>1 DEF Found
  <2> QED BY <2>1, <2>2, HandleFacts DEF ConnInv, TypeOK, Byte
<1>5. pc' = pc /\ UNCHANGED << handle, received, peer >>
  BY DEF Receive
<1>6. CASE \/ ReceiveSynSent(handle, seg) \/ ReceiveReset(handle, seg)
           \/ ReceiveFinWait(handle, seg) \/ ReceiveLastAck(handle, seg)
  <2>1. conn'[handle].rx = conn[handle].rx /\ conn'[handle].port = conn[handle].port
    BY <1>4, <1>6 DEF ReceiveSynSent, ReceiveReset, ReceiveFinWait, ReceiveLastAck, Connection
  <2> QED BY <1>4, <1>5, <2>1, SentStep
<1>7. CASE ReceiveData(handle, seg) \/ ReceiveFin(handle, seg)
  <2>1. /\ conn[handle].state = "ESTABLISHED"
        /\ conn'[handle].port = conn[handle].port
        /\ conn'[handle].rx = IF Acceptable(handle, seg)
                                THEN RxWrite(conn[handle].rx, Payload(seg))
                                ELSE conn[handle].rx
    <3>1. CASE ReceiveData(handle, seg)
      <4> DEFINE k == [conn[handle] EXCEPT
                         !.rx = IF Acceptable(handle, seg)
                                  THEN RxWrite(@, Payload(seg)) ELSE @,
                         !.ack = IF Acceptable(handle, seg) THEN @ + seg.len ELSE @]
      <4>1. conn[handle].state = "ESTABLISHED" /\ conn' = [conn EXCEPT ![handle] = k]
        BY <3>1 DEF ReceiveData
      <4>2. /\ k.port = conn[handle].port
            /\ k.rx = IF Acceptable(handle, seg)
                        THEN RxWrite(conn[handle].rx, Payload(seg))
                        ELSE conn[handle].rx
        BY <1>4 DEF Connection
      <4> HIDE DEF k
      <4>3. conn'[handle] = k
        BY <1>4, <4>1
      <4> QED BY <4>1, <4>2, <4>3
    <3>2. CASE ReceiveFin(handle, seg)
      BY <1>4, <3>2 DEF ReceiveFin, Connection
    <3> QED BY <1>7, <3>1, <3>2
  <2> QED BY <1>4, <1>5, <2>1, AcceptedSent
<1> QED BY <1>3, <1>4, <1>6, <1>7

(* A step of the server sends one byte of the connection, or none.          *)
LEMMA SentGrows ==
  ASSUME TypeOK, NEW p \in Ports,
         PeerAccept(p) \/ PeerReceive(p) \/ PeerSend(p) \/ PeerFin(p) \/ PeerReset(p)
  PROVE  /\ \A q \in Ports : q # p => peer'[q].sent = peer[q].sent
         /\ peer'[p].sent = peer[p].sent \/ peer'[p].sent = peer[p].sent + 1
         /\ p = next_port - 1 /\ UNCHANGED claos
<1> DEFINE End == [syn : BOOLEAN, una : Nat, sent : Nat, fin : BOOLEAN, rst : BOOLEAN]
<1>1. peer \in [Ports -> End] /\ peer[p] \in End
  BY DEF TypeOK
<1>2. CASE PeerAccept(p)
  BY <1>1, <1>2 DEF PeerAccept, Current
<1>3. CASE PeerReceive(p)
  <2>1. PICK seg \in to_peer : peer' = [peer EXCEPT ![p].una = seg.ack]
    BY <1>3 DEF PeerReceive
  <2> QED BY <1>1, <1>3, <2>1 DEF PeerReceive, Current
<1>4. CASE PeerSend(p)
  BY <1>1, <1>4 DEF PeerSend, Current
<1>5. CASE PeerFin(p)
  BY <1>1, <1>5 DEF PeerFin, Current
<1>6. CASE PeerReset(p)
  BY <1>1, <1>6 DEF PeerReset, Current
<1> QED BY <1>2, <1>3, <1>4, <1>5, <1>6

LEMMA SentKeeps ==
  ASSUME ConnInv, StreamInv, SentInv, Next
  PROVE  SentInv'
<1>1. CASE Recv
  BY <1>1, RecvSent
<1>2. CASE Receive
  BY <1>2, ReceiveSent
<1>3. CASE Connect
  <2>1. PICK c \in Slots :
          conn' = [conn EXCEPT ![c] = [Unused EXCEPT !.state = "SYN_SENT",
                                         !.port = next_port, !.seq = 1]]
          /\ handle' = c
    BY <1>3 DEF Connect
  <2>2. conn'[handle'].rx = << >> /\ conn'[handle'].port = next_port
    BY <2>1 DEF ConnInv, TypeOK, Unused
  <2>3. next_port \in Ports /\ received' = << >> /\ peer' = peer
    BY <1>3, TcpAssumption DEF Connect, ConnInv, TypeOK, Ports, StreamInv
  <2>4. peer[next_port].sent >= 1
    BY <2>3 DEF ConnInv, PeerInv
  <2> QED BY <2>2, <2>3, <2>4 DEF SentInv
<1>4. CASE pc' = "idle"
  BY <1>4 DEF SentInv
<1>5. ASSUME \/ Connected \/ NotConnected \/ ConnectFails \/ Send \/ SendChunk \/ SendFails
             \/ AdvanceSeq \/ LookAgain \/ Close \/ FinSent \/ Closed
             \/ \E p \in Ports : PeerAccept(p) \/ PeerReceive(p) \/ PeerSend(p)
                                 \/ PeerFin(p) \/ PeerReset(p),
             pc' # "idle"
      PROVE  SentInv'
  <2>1. /\ pc # "idle" /\ handle' = handle /\ received' = received
        /\ \/ conn' = conn
           \/ conn' = [conn EXCEPT ![handle].seq = @ + Chunk]
           \/ conn' = [conn EXCEPT ![handle].seq = @ + 1, ![handle].state = "FIN_WAIT_1"]
    BY <1>5 DEF Connected, NotConnected, ConnectFails, Send, SendChunk, SendFails, AdvanceSeq,
                LookAgain, Close, FinSent, Closed, GiveUp, PeerAccept, PeerReceive, PeerSend,
                PeerFin, PeerReset, claos
  <2>2. /\ handle \in Slots /\ conn \in [Slots -> Connection] /\ conn[handle] \in Connection
        /\ conn[handle].rx \in Seq(Byte) /\ received \in Seq(Byte)
        /\ conn[handle].port \in Ports
    BY <2>1, HandleFacts DEF ConnInv, TypeOK, Byte
  <2>3. conn'[handle].rx = conn[handle].rx /\ conn'[handle].port = conn[handle].port
    BY <2>1, <2>2 DEF Connection
  <2>4. \A q \in Ports : peer'[q].sent = peer[q].sent \/ peer'[q].sent = peer[q].sent + 1
    <3>1. CASE peer' = peer
      BY <3>1
    <3>2. ASSUME NEW p \in Ports,
                 PeerAccept(p) \/ PeerReceive(p) \/ PeerSend(p) \/ PeerFin(p) \/ PeerReset(p)
          PROVE  \A q \in Ports : peer'[q].sent = peer[q].sent
                                   \/ peer'[q].sent = peer[q].sent + 1
      BY <3>2, SentGrows DEF ConnInv
    <3> QED BY <1>5, <3>1, <3>2
              DEF Connected, NotConnected, ConnectFails, Send, SendChunk, SendFails,
                  AdvanceSeq, LookAgain, Close, FinSent, Closed
  <2>5. peer[conn[handle].port].sent \in Nat
    BY <2>2 DEF ConnInv, TypeOK
  <2> QED BY <1>5, <2>1, <2>2, <2>3, <2>4, <2>5, SentStep
<1> QED BY <1>1, <1>2, <1>3, <1>4, <1>5 DEF Next

LEMMA SentAlways ==
  Spec /\ []NotOverrun => [](ConnInv /\ StreamInv /\ SentInv)
<1>1. Init => SentInv
  BY DEF Init, SentInv
<1>2. ConnInv /\ StreamInv /\ SentInv /\ [Next]_vars => SentInv'
  BY SentKeeps DEF vars, claos, SentInv
<1> QED BY <1>1, <1>2, StreamAlways, PTL DEF Spec

(* A connection nobody has made is one no server has sent on.               *)
Fresh == \A p \in Ports : p >= next_port => peer[p].sent = 1

LEMMA FreshKeeps ==
  ASSUME TypeOK, Fresh, [Next]_vars
  PROVE  Fresh'
<1>1. next_port \in Nat
  BY TcpAssumption DEF TypeOK
<1>2. CASE UNCHANGED << next_port, peer >>
  BY <1>2 DEF Fresh
<1>3. CASE Connect
  <2>1. next_port' = next_port + 1 /\ peer' = peer
    BY <1>3 DEF Connect
  <2> QED BY <1>1, <2>1 DEF Fresh, Ports
<1>4. ASSUME NEW p \in Ports,
             PeerAccept(p) \/ PeerReceive(p) \/ PeerSend(p) \/ PeerFin(p) \/ PeerReset(p)
      PROVE  Fresh'
  <2>1. /\ \A q \in Ports : q # p => peer'[q].sent = peer[q].sent
        /\ p = next_port - 1 /\ next_port' = next_port
    BY <1>4, SentGrows DEF claos
  <2> QED BY <1>1, <2>1 DEF Fresh, Ports
<1>5. CASE \/ Connected \/ NotConnected \/ ConnectFails \/ Send \/ SendChunk \/ SendFails
           \/ AdvanceSeq \/ Recv \/ LookAgain \/ Close \/ FinSent \/ Closed \/ Receive
  BY <1>2, <1>5 DEF Connected, NotConnected, ConnectFails, Send, SendChunk, SendFails,
                    AdvanceSeq, Recv, LookAgain, Close, FinSent, Closed, Receive
<1> QED BY <1>2, <1>3, <1>4, <1>5 DEF Next, vars, claos

LEMMA SeenValues ==
  /\ SeenAs["idle"] = "idle" /\ SeenAs["connecting"] = "opening"
  /\ SeenAs["failed"] = "opening" /\ SeenAs["open"] = "open"
  /\ SeenAs["sending"] = "open" /\ SeenAs["sent"] = "open" /\ SeenAs["empty"] = "open"
  /\ SeenAs["eof"] = "ended" /\ SeenAs["fin"] = "closing" /\ SeenAs["closing"] = "closing"
BY DEF SeenAs

LEMMA InitClient == Init => Client!Init
<1> SUFFICES ASSUME Init PROVE Client!Init
  OBVIOUS
<1>1. pc = "idle" /\ next_port = 1 /\ received = << >>
  BY DEF Init
<1> QED BY <1>1, SeenValues DEF Client!Init, Delivered

(* A step of the kernel task that is none of its own for the TLS client.    *)
LEMMA UnseenStep ==
  ASSUME SeenAs[pc'] = SeenAs[pc], UNCHANGED << next_port, peer, received >>
  PROVE  UNCHANGED Client!vars
BY DEF Client!vars, Delivered

LEMMA ConnectOpens ==
  ASSUME ConnInv, StreamInv, Fresh, Connect
  PROVE  Client!Open
<1>1. /\ pc = "idle" /\ pc' = "connecting" /\ next_port' = next_port + 1
      /\ next_port <= MAX_PORT /\ received' = received /\ peer' = peer
  BY DEF Connect
<1>2. next_port \in Ports /\ next_port \in Nat /\ next_port >= 1
  BY <1>1, TcpAssumption DEF ConnInv, TypeOK, Ports
<1>3. Delivered' = 0
  <2>1. Delivered' = IF next_port' = 1 THEN 0 ELSE peer'[next_port' - 1].sent - 1
    BY DEF Delivered
  <2>2. next_port' # 1 /\ next_port' - 1 = next_port
    BY <1>1, <1>2
  <2>3. peer[next_port].sent = 1
    BY <1>2 DEF Fresh
  <2> QED BY <1>1, <2>1, <2>2, <2>3
<1>4. next_port' - 1 = (next_port - 1) + 1
  BY <1>1, <1>2
<1> QED BY <1>1, <1>3, <1>4, SeenValues DEF Client!Open

(* Bytes are taken from the ring: the stream goes on where it was.          *)
LEMMA RecvReads ==
  ASSUME ConnInv, StreamInv, SentInv, ConnInv', StreamInv', SentInv', Recv,
         received' # received
  PROVE  Client!Read
<1> DEFINE port == next_port - 1
           rx == conn[handle].rx
           n == Len(received')
<1>1. /\ pc = "open" /\ pc' = "open"
      /\ UNCHANGED << next_port, handle, peer >>
  BY DEF Recv
<1>2. PICK k \in 1 .. Len(rx) : received' = received \o SubSeq(rx, 1, k)
  BY DEF Recv
<1>3. received \in Seq(Byte) /\ rx \in Seq(Byte) /\ received' \in Seq(Byte)
  BY <1>1, HandleFacts DEF ConnInv, TypeOK, Byte
<1>4. n = Len(received) + k
  BY <1>2, <1>3, Moved DEF MovedTo
<1>5. conn'[handle'].port = port
  BY <1>1 DEF ConnInv, HandleInv
<1>6. received' = [i \in 1 .. n |-> << port, i >>]
  <2>1. \A i \in 1 .. n : received'[i] = << port, i >>
    BY <1>1, <1>5 DEF StreamInv, InOrder
  <2>2. received' = [i \in 1 .. n |-> received'[i]]
    BY <1>3
  <2> QED BY <2>1, <2>2
<1>7. n <= Delivered
  <2> DEFINE s == peer[port].sent
             c == Len(conn'[handle'].rx)
  <2>1. 1 + n + c <= s
    BY <1>1, <1>5 DEF SentInv
  <2>2. c \in Nat /\ n \in Nat
    <3>1. conn'[handle'] \in Connection
      BY DEF ConnInv, TypeOK
    <3> QED BY <1>3, <3>1 DEF Connection
  <2>3. Delivered = s - 1 /\ s \in Nat
    <3>1. next_port # 1 /\ port \in Ports
      BY <1>1, HandleFacts DEF ConnInv, HandleInv
    <3> QED BY <3>1 DEF Delivered, ConnInv, TypeOK
  <2> HIDE DEF s, c, n
  <2> QED BY <2>1, <2>2, <2>3
<1>8. n \in Len(received) + 1 .. Delivered
  <2>1. k \in Nat /\ k >= 1 /\ Len(received) \in Nat
    BY <1>3
  <2>2. Delivered \in Int
    <3>1. next_port # 1 /\ port \in Ports
      BY <1>1, HandleFacts DEF ConnInv, HandleInv
    <3> QED BY <3>1 DEF Delivered, ConnInv, TypeOK
  <2> HIDE DEF n
  <2> QED BY <1>4, <1>7, <2>1, <2>2
<1>9. \E m \in Len(received) + 1 .. Delivered :
        received' = [i \in 1 .. m |-> << port, i >>]
  BY <1>6, <1>8
<1>10. UNCHANGED << SeenAs[pc], next_port - 1, Delivered >>
  BY <1>1 DEF Delivered
<1> QED BY <1>1, <1>9, <1>10, SeenValues DEF Client!Read

(* A step of the server sends the next byte, or nothing the client sees.    *)
LEMMA PeerSends ==
  ASSUME TypeOK, NEW p \in Ports,
         PeerAccept(p) \/ PeerReceive(p) \/ PeerSend(p) \/ PeerFin(p) \/ PeerReset(p)
  PROVE  Client!ServerSends \/ UNCHANGED Client!vars
<1>1. /\ peer'[p].sent = peer[p].sent \/ peer'[p].sent = peer[p].sent + 1
      /\ p = next_port - 1 /\ UNCHANGED << pc, next_port, received >>
  BY SentGrows DEF claos
<1>2. next_port # 1 /\ peer[p].sent \in Nat /\ next_port \in Nat
  BY <1>1, TcpAssumption DEF TypeOK, Ports
<1>3. Delivered = peer[p].sent - 1 /\ Delivered' = peer'[p].sent - 1
  BY <1>1, <1>2 DEF Delivered
<1>4. CASE peer'[p].sent = peer[p].sent
  BY <1>1, <1>3, <1>4 DEF Client!vars
<1>5. CASE peer'[p].sent = peer[p].sent + 1
  <2>1. Delivered' = Delivered + 1
    BY <1>2, <1>3, <1>5
  <2> QED BY <1>1, <2>1 DEF Client!ServerSends
<1> QED BY <1>1, <1>4, <1>5

LEMMA GiveUpIsGone ==
  ASSUME GiveUp, UNCHANGED << next_port, peer >>, SeenAs[pc] # "idle"
  PROVE  Client!Gone
<1>1. pc' = "idle" /\ received' = << >>
  BY DEF GiveUp
<1>2. Delivered' = Delivered
  BY DEF Delivered
<1> QED BY <1>1, <1>2, SeenValues DEF Client!Gone

StreamSafe == ConnInv /\ StreamInv /\ SentInv /\ Fresh

LEMMA StepClient ==
  StreamSafe /\ StreamSafe' /\ [Next]_vars => [Client!Next]_(Client!vars)
<1> SUFFICES ASSUME StreamSafe, StreamSafe', [Next]_vars
             PROVE  Client!Next \/ UNCHANGED Client!vars
  OBVIOUS
<1> USE SeenValues
<1>1. CASE Connect
  BY <1>1, ConnectOpens DEF StreamSafe, Client!Next
<1>2. CASE Connected
  <2>1. /\ pc = "connecting" /\ pc' = "open" /\ UNCHANGED << next_port, peer, received >>
        /\ Delivered' = Delivered
    BY <1>2 DEF Connected, Delivered
  <2>2. Client!Opened
    BY <2>1 DEF Client!Opened
  <2> QED BY <2>2 DEF Client!Next
<1>3. CASE NotConnected \/ Send \/ SendChunk \/ SendFails \/ AdvanceSeq \/ FinSent \/ Receive
  <2>1. SeenAs[pc'] = SeenAs[pc] /\ UNCHANGED << next_port, peer, received >>
    BY <1>3 DEF NotConnected, Send, SendChunk, SendFails, AdvanceSeq, FinSent, Receive
  <2> QED BY <2>1, UnseenStep
<1>4. CASE ConnectFails \/ Closed
  <2>1. GiveUp /\ UNCHANGED << next_port, peer >> /\ SeenAs[pc] # "idle"
    BY <1>4 DEF ConnectFails, Closed
  <2> QED BY <2>1, GiveUpIsGone DEF Client!Next
<1>5. CASE Recv
  <2>1. CASE received' = received
    <3>1. SeenAs[pc'] = SeenAs[pc] /\ UNCHANGED << next_port, peer >>
      BY <1>5 DEF Recv
    <3> QED BY <2>1, <3>1, UnseenStep
  <2>2. CASE received' # received
    BY <1>5, <2>2, RecvReads DEF StreamSafe, Client!Next
  <2> QED BY <2>1, <2>2
<1>6. CASE LookAgain
  <2>1. /\ pc = "empty" /\ pc' \in {"open", "eof"}
        /\ UNCHANGED << next_port, peer, received >> /\ Delivered' = Delivered
    BY <1>6 DEF LookAgain, Delivered
  <2>2. CASE pc' = "open"
    BY <2>1, <2>2, UnseenStep
  <2>3. CASE pc' = "eof"
    <3>1. Client!End
      BY <2>1, <2>3 DEF Client!End
    <3> QED BY <3>1 DEF Client!Next
  <2> QED BY <2>1, <2>2, <2>3
<1>7. CASE Close
  <2>1. pc \in {"open", "eof"} /\ UNCHANGED << next_port, peer >> /\ Delivered' = Delivered
    BY <1>7 DEF Close, Delivered
  <2>2. CASE GiveUp
    BY <2>1, <2>2, GiveUpIsGone DEF Client!Next
  <2>3. CASE pc' = "fin" /\ received' = received
    <3>1. Client!Close
      BY <2>1, <2>3 DEF Client!Close
    <3> QED BY <3>1 DEF Client!Next
  <2> QED BY <1>7, <2>2, <2>3 DEF Close
<1>8. ASSUME NEW p \in Ports,
             PeerAccept(p) \/ PeerReceive(p) \/ PeerSend(p) \/ PeerFin(p) \/ PeerReset(p)
      PROVE  Client!Next \/ UNCHANGED Client!vars
  BY <1>8, PeerSends DEF StreamSafe, ConnInv, Client!Next
<1>9. CASE UNCHANGED vars
  BY <1>9, UnseenStep DEF vars, claos
<1> QED BY <1>1, <1>2, <1>3, <1>4, <1>5, <1>6, <1>7, <1>8, <1>9 DEF Next

(* To the TLS client a connection is a stream, as long as the server does   *)
(* not overrun the ring: it reads the bytes of this connection, in order    *)
(* and none before it was sent, whatever the network does to the segments.  *)
THEOREM TcpIsStream == Spec /\ []NotOverrun => ReadsStream
<1>1. Init => Fresh
  BY DEF Init, Fresh, NoPeer
<1>2. ConnInv /\ Fresh /\ [Next]_vars => Fresh'
  BY FreshKeeps DEF ConnInv
<1>3. Spec /\ []NotOverrun => []StreamSafe
  <2>1. ConnInv /\ StreamInv /\ SentInv /\ Fresh <=> StreamSafe
    BY DEF StreamSafe
  <2> QED BY <1>1, <1>2, <2>1, SentAlways, PTL DEF Spec
<1> QED BY <1>3, InitClient, StepClient, PTL DEF Spec, ReadsStream, Client!Spec

(* A server whose answer is smaller than the ring cannot overrun it.        *)
COROLLARY ShortAnswers ==
  ASSUME STREAM < TCP_RX_BUFFER_SIZE
  PROVE  Spec => ReadsStream
BY NeverOverrun, TcpIsStream, PTL
=============================================================================

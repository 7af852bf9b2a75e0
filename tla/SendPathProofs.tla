--------------------------- MODULE SendPathProofs ---------------------------
(***************************************************************************)
(* The ARP cache under the way out, for every set of hosts and every size   *)
(* of the cache, and net_poll's one wait.  The argument: as long as the     *)
(* cache has an empty entry, whoever has been heard is in it; and net_poll  *)
(* sends over IPv4 only after the web server has got a segment, which went  *)
(* through the gateway, so the gateway has been heard before.               *)
(*                                                                          *)
(* The second half follows a packet down to the ring, for every number of   *)
(* descriptors: how far tail, tx_cur and the NIC's head lie apart while     *)
(* net_poll sends from within e1000_send (RingInv), and what the buffers    *)
(* below hold until the NIC has read them (IpInv, FrameInv, DnsInv).        *)
(***************************************************************************)
EXTENDS SendPath, Iteration, TLAPS

Heard(h) == heard[h] # Broadcast
Parts == [header : Content, data : Content]
Frames == [header : [to : Macs \cup {Broadcast}, arp : BOOLEAN], data : Parts]

(* The types of what TypeOK leaves open.                                    *)
TypeInv ==
  /\ TypeOK
  /\ eth_tx_buf \in Frames /\ tx_buffer \in Frames
  /\ heard \in [Hosts -> Macs \cup {Broadcast}]
  /\ asked \subseteq 0 .. MAX_QUERIES
  /\ at = "dns_id" => dns_query_id < MAX_QUERIES

(* Who is in the cache has been heard, and whoever has been heard is in the *)
(* cache unless it is full.                                                 *)
CacheInv ==
  /\ CacheIsCurrent
  /\ \A i \in Entries : arp_cache[i].ip # Nobody => Heard(arp_cache[i].ip)
  /\ \A h \in Hosts : Heard(h) /\ ~Known(h) => Empty = {}

(* Wherever a segment is on its way, the gateway has been heard.            *)
GatewayInv ==
  /\ spoken => Heard(Gateway)
  /\ eth_tx_buf.data = Whole("segment") => Heard(Gateway)
  /\ tx_buffer.data = Whole("segment") => Heard(Gateway)
  /\ at \in {"eth_header", "eth_data"} /\ packet # "request" => Heard(Gateway)

(* net_poll waits because the gateway's entry has been overwritten.         *)
HaltInv == halted => Heard(Gateway) /\ ~Known(Gateway)

IInv == TypeInv /\ CacheInv /\ GatewayInv /\ HaltInv

-----------------------------------------------------------------------------
LEMMA Sizes ==
  /\ E1000_NUM_TX_DESC \in Nat /\ E1000_NUM_TX_DESC >= 4
  /\ 0 \in Ring
BY SendPathAssumption DEF Ring

LEMMA NextInRing == \A i \in Ring : Next1(i) \in Ring
BY Sizes DEF Ring, Next1

LEMMA MinIsElement ==
  ASSUME NEW S \in SUBSET Entries, S # {}
  PROVE  Min(S) \in S
<1>1. S \in SUBSET Nat
  BY DEF Entries
<1>2. PICK x \in S : \A y \in S : x <= y
  BY <1>1, LeastElement
<1> QED BY <1>2 DEF Min

(* arp_cache_add never hands out a place outside the cache.                 *)
LEMMA PlaceInCache == \A ip : Place(ip) \in Entries
<1> TAKE ip
<1>1. Known(ip) => Min(Entry(ip)) \in Entries
  BY MinIsElement DEF Known, Entry
<1>2. Empty # {} => Min(Empty) \in Entries
  BY MinIsElement DEF Empty
<1> QED BY <1>1, <1>2, SendPathAssumption DEF Place, Entries

LEMMA GatewayIsHost == Gateway \in Hosts /\ Gateway # Nobody
BY SendPathAssumption

LEMMA KnownMacType ==
  ASSUME TypeInv, Known(Gateway)
  PROVE  MacOf(Gateway) \in Macs \cup {Broadcast}
<1>1. Min(Entry(Gateway)) \in Entries
  BY MinIsElement DEF Known, Entry
<1> QED BY <1>1 DEF MacOf, TypeInv, TypeOK

LEMMA KnownIsHeard ==
  ASSUME CacheInv, NEW h \in Hosts, Known(h)
  PROVE  Heard(h)
<1>1. PICK i \in Entries : arp_cache[i].ip = h
  BY DEF Known, Entry
<1> QED BY <1>1, SendPathAssumption DEF CacheInv

LEMMA LengthType == \A p \in Packets \cup {"none"} : LengthOf[p] \in 0 .. 2
BY DEF LengthOf

LEMMA FrameData == \A f \in Frames : f.data \in Parts
BY DEF Frames

LEMMA InitIInv == Init => IInv
<1> SUFFICES ASSUME Init PROVE IInv
  OBVIOUS
<1>1. TypeInv
  <2>1. /\ at \in Steps /\ job \in Jobs \cup {"none"} /\ packet \in Packets \cup {"none"}
        /\ "none" \in Content
    BY DEF Init, Steps, Packets, Content
  <2>2. eth_tx_buf \in Frames /\ tx_buffer \in Frames /\ ipv4_tx_buf \in Parts
    BY <2>1 DEF Init, Frames, Parts, Two, Whole, EthHeader, IsArp
  <2>3. descs \in [Ring -> 0 .. 2] /\ tx_cur \in Ring /\ old_cur \in Ring /\ tdt \in Ring
    BY Sizes DEF Init
  <2>4. /\ arp_cache \in [Entries -> [ip : Hosts \cup {Nobody}, mac : Macs \cup {Broadcast}]]
        /\ heard \in [Hosts -> Macs \cup {Broadcast}]
    BY DEF Init
  <2>5. 0 \in 0 .. MAX_QUERIES
    BY SendPathAssumption
  <2> QED BY <2>1, <2>2, <2>3, <2>4, <2>5, FrameData DEF Init, TypeInv, TypeOK, Parts
<1>2. CacheInv /\ HaltInv
  BY DEF Init, CacheInv, CacheIsCurrent, Heard, HaltInv
<1>3. GatewayInv
  BY DEF Init, GatewayInv, Two, Whole
<1> QED BY <1>1, <1>2, <1>3 DEF IInv
-----------------------------------------------------------------------------
(* The NIC's part: the descriptors, the status and what reaches the servers.*)
LEMMA TransmitsType ==
  ASSUME TypeInv, NEW ds \in [Ring -> 0 .. 2], NEW done, NEW content \in Frames,
         NEW tail \in Ring, Transmits(ds, done, content, tail)
  PROVE  /\ descs' \in [Ring -> 0 .. 2] /\ dd' \in BOOLEAN /\ tdt' \in Ring
         /\ asked' \subseteq 0 .. MAX_QUERIES
         /\ spoken' => spoken \/ content.data = Whole("segment")
<1>1. asked' \subseteq 0 .. MAX_QUERIES
  BY DEF Transmits, TypeInv, TypeOK
<1>2. spoken' => spoken \/ content.data = Whole("segment")
  <2> DEFINE out == OnWire(ds, content, tail)
  <2>1. \A f \in out : f.content = content
    BY DEF OnWire
  <2>2. spoken' = (spoken \/ \E f \in out : f.content.data = Whole("segment"))
    BY DEF Transmits
  <2> HIDE DEF out
  <2> QED BY <2>1, <2>2
<1>3. descs' \in [Ring -> 0 .. 2] /\ tdt' \in Ring
  BY DEF Transmits
<1>4. dd' \in BOOLEAN
  BY DEF Transmits
<1> QED BY <1>1, <1>2, <1>3, <1>4

(* The parts of TypeInv about the way of a packet, about the buffers, about *)
(* the NIC, and about the cache and the resolver.                           *)
TaskType ==
  /\ at \in Steps /\ job \in Jobs \cup {"none"} /\ packet \in Packets \cup {"none"}
  /\ dest_mac \in Macs \cup {Broadcast} /\ old_cur \in Ring
  /\ at = "dns_id" => dns_query_id < MAX_QUERIES
BuffersType == ipv4_tx_buf \in Parts /\ eth_tx_buf \in Frames /\ tx_buffer \in Frames
NicType ==
  /\ descs \in [Ring -> 0 .. 2] /\ dd \in BOOLEAN /\ tx_cur \in Ring /\ tdt \in Ring
  /\ asked \subseteq 0 .. MAX_QUERIES
CacheType ==
  /\ arp_cache \in [Entries -> [ip : Hosts \cup {Nobody}, mac : Macs \cup {Broadcast}]]
  /\ heard \in [Hosts -> Macs \cup {Broadcast}]
  /\ halted \in BOOLEAN
DnsType ==
  /\ dns_query_id \in 0 .. MAX_QUERIES /\ resolved_ip \in 0 .. MAX_QUERIES
  /\ dns_response_received \in BOOLEAN

LEMMA TypeParts == TypeInv <=> TaskType /\ BuffersType /\ NicType /\ CacheType /\ DnsType
BY FrameData DEF TypeInv, TypeOK, TaskType, BuffersType, NicType, CacheType, DnsType, Parts

LEMMA TypePartsNext ==
  TypeInv' <=> TaskType' /\ BuffersType' /\ NicType' /\ CacheType' /\ DnsType'
BY TypeParts, PTL

(* What every step of the kernel task leaves alone.                         *)
LEMMA StepKeeps ==
  ASSUME TypeInv, NEW from, NEW to \in Steps, Step(from, to)
  PROVE  /\ CacheType' /\ at' \in Steps /\ at = from /\ at' = to /\ ~halted
         /\ UNCHANGED << arp_cache, heard, halted >>
BY TypeParts DEF Step, CacheType

LEMMA KernelTaskType == ASSUME TypeInv, KernelTask PROVE TypeInv'
<1>0. TaskType /\ BuffersType /\ NicType /\ CacheType /\ DnsType
  BY TypeParts
<1> USE DEF TaskType, DnsType, Steps
<1>1. CASE SendSegment
  <2>1. TaskType' /\ CacheType'
    BY <1>0, <1>1, StepKeeps DEF SendSegment, Jobs
  <2>2. BuffersType' /\ NicType' /\ DnsType'
    BY <1>0, <1>1 DEF SendSegment, buffers, nic, dns, BuffersType, NicType
  <2> QED BY <2>1, <2>2, TypePartsNext
<1>2. CASE DnsReset
  <2>1. TaskType' /\ CacheType'
    BY <1>0, <1>2, StepKeeps DEF DnsReset, Jobs
  <2>2. BuffersType' /\ NicType'
    BY <1>0, <1>2 DEF DnsReset, buffers, nic, BuffersType, NicType
  <2>3. DnsType'
    <3>1. resolved_ip' = 0 /\ dns_response_received' = FALSE /\ dns_query_id' = dns_query_id
      BY <1>2 DEF DnsReset, Emptied
    <3>2. 0 \in 0 .. MAX_QUERIES
      BY SendPathAssumption
    <3> QED BY <1>0, <3>1, <3>2
  <2> QED BY <2>1, <2>2, <2>3, TypePartsNext
<1>3. CASE DnsNextId
  <2>1. TaskType' /\ CacheType' /\ dns_query_id < MAX_QUERIES
    BY <1>0, <1>3, StepKeeps DEF DnsNextId
  <2>2. BuffersType' /\ NicType' /\ DnsType'
    BY <1>0, <1>3, <2>1, SendPathAssumption DEF DnsNextId, buffers, nic, BuffersType, NicType
  <2> QED BY <2>1, <2>2, TypePartsNext
<1>4. CASE IpHeader \/ IpData
  <2>1. TaskType' /\ CacheType'
    BY <1>0, <1>4, StepKeeps DEF IpHeader, IpData
  <2>2. BuffersType'
    BY <1>0, <1>4 DEF IpHeader, IpData, BuffersType, Parts, Content, Packets
  <2>3. NicType' /\ DnsType'
    BY <1>0, <1>4 DEF IpHeader, IpData, nic, dns, NicType
  <2> QED BY <2>1, <2>2, <2>3, TypePartsNext
<1>5. CASE Resolve
  <2>1. Known(Gateway) => MacOf(Gateway) \in Macs \cup {Broadcast}
    BY KnownMacType
  <2>2. TaskType' /\ CacheType'
    BY <1>0, <1>5, <2>1, StepKeeps DEF Resolve, Packets
  <2>3. BuffersType' /\ NicType' /\ DnsType'
    BY <1>0, <1>5 DEF Resolve, buffers, nic, dns, BuffersType, NicType
  <2> QED BY <2>2, <2>3, TypePartsNext
<1>6. CASE WriteEthHeader
  <2>1. TaskType' /\ CacheType'
    BY <1>0, <1>6, StepKeeps DEF WriteEthHeader
  <2>2. BuffersType'
    <3>1. EthHeader(packet, dest_mac) \in [to : Macs \cup {Broadcast}, arp : BOOLEAN]
      BY <1>0 DEF EthHeader, IsArp
    <3> QED BY <1>0, <1>6, <3>1 DEF WriteEthHeader, BuffersType, Frames
  <2>3. NicType' /\ DnsType'
    BY <1>0, <1>6 DEF WriteEthHeader, nic, dns, NicType
  <2> QED BY <2>1, <2>2, <2>3, TypePartsNext
<1>7. CASE WriteEthData
  <2>1. TaskType' /\ CacheType'
    BY <1>0, <1>7, StepKeeps DEF WriteEthData
  <2>2. Payload \in Parts
    BY <1>0 DEF BuffersType, Payload, Whole, Two, Parts, Content, Packets
  <2>3. BuffersType'
    BY <1>0, <1>7, <2>2 DEF WriteEthData, BuffersType, Frames
  <2>4. NicType' /\ DnsType'
    BY <1>0, <1>7 DEF WriteEthData, nic, dns, NicType
  <2> QED BY <2>1, <2>3, <2>4, TypePartsNext
<1>8. CASE CopyFrame
  <2>1. TaskType' /\ CacheType'
    BY <1>0, <1>8, StepKeeps DEF CopyFrame
  <2>2. BuffersType' /\ NicType' /\ DnsType'
    BY <1>0, <1>8 DEF CopyFrame, BuffersType, NicType, nic, dns
  <2> QED BY <2>1, <2>2, TypePartsNext
<1>9. CASE FillDescriptor
  <2>1. TaskType' /\ CacheType'
    BY <1>0, <1>9, StepKeeps DEF FillDescriptor, NicType
  <2>2. NicType'
    BY <1>0, <1>9, LengthType DEF FillDescriptor, NicType
  <2>3. BuffersType' /\ DnsType'
    BY <1>0, <1>9 DEF FillDescriptor, BuffersType, buffers, dns
  <2> QED BY <2>1, <2>2, <2>3, TypePartsNext
<1>10. CASE PublishIndex \/ ClearStatus
  <2>1. TaskType' /\ CacheType'
    BY <1>0, <1>10, StepKeeps DEF PublishIndex, ClearStatus
  <2>2. NicType'
    BY <1>0, <1>10, NextInRing DEF PublishIndex, ClearStatus, NicType
  <2>3. BuffersType' /\ DnsType'
    BY <1>0, <1>10 DEF PublishIndex, ClearStatus, BuffersType, buffers, dns
  <2> QED BY <2>1, <2>2, <2>3, TypePartsNext
<1>11. CASE WriteTail
  <2>1. TaskType' /\ CacheType'
    BY <1>0, <1>11, StepKeeps DEF WriteTail
  <2>2. NicType'
    BY <1>0, <1>11, NextInRing, TransmitsType DEF WriteTail, NicType, BuffersType
  <2>3. BuffersType' /\ DnsType'
    BY <1>0, <1>11 DEF WriteTail, BuffersType, buffers, dns
  <2> QED BY <2>1, <2>2, <2>3, TypePartsNext
<1>12. CASE Finish
  <2>1. CacheType' /\ at' \in Steps /\ at' # "dns_id"
    BY <1>12, StepKeeps DEF Finish, Back
  <2>2. TaskType'
    BY <1>0, <1>12, <2>1, Sizes DEF Finish, Return, Sent
  <2>3. BuffersType' /\ NicType' /\ DnsType'
    BY <1>0, <1>12 DEF Finish, Sent, BuffersType, NicType, buffers, dns
  <2> QED BY <2>1, <2>2, <2>3, TypePartsNext
<1>13. CASE ArpFound \/ ArpTimeout
  <2>1. CacheType' /\ at' \in Steps /\ at' # "dns_id"
    BY <1>13, StepKeeps DEF ArpFound, ArpTimeout, Back
  <2>2. Known(Gateway) => MacOf(Gateway) \in Macs \cup {Broadcast}
    BY KnownMacType
  <2>3. TaskType'
    BY <1>0, <1>13, <2>1, <2>2 DEF ArpFound, ArpTimeout, Return, Packets
  <2>4. BuffersType' /\ NicType' /\ DnsType'
    BY <1>0, <1>13 DEF ArpFound, ArpTimeout, BuffersType, NicType, buffers, nic, dns
  <2> QED BY <2>1, <2>3, <2>4, TypePartsNext
<1>14. CASE DnsReturns
  <2>1. TaskType' /\ CacheType'
    BY <1>0, <1>14, StepKeeps DEF DnsReturns
  <2>2. BuffersType' /\ NicType' /\ DnsType'
    BY <1>0, <1>14 DEF DnsReturns, BuffersType, NicType, buffers, nic
  <2> QED BY <2>1, <2>2, TypePartsNext
<1> QED BY <1>1, <1>2, <1>3, <1>4, <1>5, <1>6, <1>7, <1>8, <1>9, <1>10, <1>11, <1>12, <1>13,
           <1>14 DEF KernelTask

-----------------------------------------------------------------------------
(* What net_poll sends is well formed and is no segment of the kernel task. *)
LEMMA SendFromPollType ==
  ASSUME TypeInv, NEW p \in Replies \cup {"request"}, NEW mac \in Macs \cup {Broadcast},
         SendFromPoll(p, mac)
  PROVE  /\ BuffersType' /\ NicType'
         /\ tx_buffer'.data = Whole(p) /\ eth_tx_buf'.data = Whole(p)
         /\ spoken' => spoken
<1>1. p \in Packets /\ p # "segment" /\ Whole(p) \in Parts
  BY DEF Packets, Replies, Whole, Two, Parts, Content
<1>2. ipv4_tx_buf' \in Parts
  BY <1>1, TypeParts DEF SendFromPoll, BuffersType
<1>3. Two(EthHeader(p, mac), Whole(p)) \in Frames
  <2>1. EthHeader(p, mac) \in [to : Macs \cup {Broadcast}, arp : BOOLEAN]
    BY DEF EthHeader, IsArp
  <2> QED BY <1>1, <2>1 DEF Two, Frames
<1>4. /\ eth_tx_buf' \in Frames /\ tx_buffer' \in Frames
      /\ tx_buffer'.data = Whole(p) /\ eth_tx_buf'.data = Whole(p)
  <2>1. eth_tx_buf' = Two(EthHeader(p, mac), Whole(p)) /\ tx_buffer' = eth_tx_buf'
    BY DEF SendFromPoll
  <2>2. Two(EthHeader(p, mac), Whole(p)).data = Whole(p)
    BY DEF Two
  <2> QED BY <1>3, <2>1, <2>2
<1>5. Index \in Ring /\ tx_cur' \in Ring /\ tx_cur' = Next1(Index)
  BY TypeParts, NextInRing DEF NicType, Index, SendFromPoll
<1>6. [descs EXCEPT ![Index] = LengthOf[p]] \in [Ring -> 0 .. 2]
  BY <1>1, <1>5, TypeParts, LengthType DEF NicType
<1>7. Transmits([descs EXCEPT ![Index] = LengthOf[p]], dd /\ Index # old_cur, tx_buffer', tx_cur')
  BY DEF SendFromPoll
<1>8. /\ descs' \in [Ring -> 0 .. 2] /\ dd' \in BOOLEAN /\ tdt' \in Ring
      /\ asked' \subseteq 0 .. MAX_QUERIES
      /\ spoken' => spoken \/ tx_buffer'.data = Whole("segment")
  <2> DEFINE ds == [descs EXCEPT ![Index] = LengthOf[p]]
             done == dd /\ Index # old_cur
  <2>1. ASSUME NEW content \in Frames, NEW tail \in Ring, Transmits(ds, done, content, tail)
        PROVE  /\ descs' \in [Ring -> 0 .. 2] /\ dd' \in BOOLEAN /\ tdt' \in Ring
               /\ asked' \subseteq 0 .. MAX_QUERIES
               /\ spoken' => spoken \/ content.data = Whole("segment")
    BY <1>6, <2>1, TransmitsType
  <2> HIDE DEF ds, done
  <2> QED BY <1>4, <1>5, <1>7, <2>1 DEF ds, done
<1>9. Whole(p) # Whole("segment")
  BY <1>1 DEF Whole, Two
<1> QED BY <1>2, <1>4, <1>5, <1>8, <1>9 DEF BuffersType, NicType

LEMMA NetPollType == ASSUME TypeInv, NetPoll PROVE TypeInv'
<1>0. TaskType /\ BuffersType /\ NicType /\ CacheType /\ DnsType
  BY TypeParts
<1>1. UNCHANGED << at, job, packet, dest_mac, old_cur >>
  BY DEF NetPoll, PollArp, PollSegment, PollAnswer, Polls
<1>2. CASE PollArp
  <2>1. PICK ip \in Hosts, mac \in Macs :
          /\ arp_cache' = [arp_cache EXCEPT ![Place(ip)] = [ip |-> ip, mac |-> mac]]
          /\ heard' = [heard EXCEPT ![ip] = mac]
          /\ Silent \/ SendFromPoll("reply", mac)
    BY <1>2 DEF PollArp, Macs
  <2>3. BuffersType' /\ NicType'
    <3>1. CASE Silent
      BY <1>0, <3>1 DEF Silent, buffers, nic, BuffersType, NicType
    <3>2. CASE SendFromPoll("reply", mac)
      BY <3>2, SendFromPollType DEF Replies
    <3> QED BY <2>1, <3>1, <3>2
  <2>4. CacheType'
    BY <1>0, <1>2, <2>1, PlaceInCache DEF CacheType, PollArp
  <2>5. TaskType' /\ DnsType'
    BY <1>0, <1>1, <1>2 DEF PollArp, dns, TaskType, DnsType
  <2> QED BY <2>3, <2>4, <2>5, TypePartsNext
<1>3. CASE PollSegment
  <2>1. BuffersType' /\ NicType'
    <3>1. CASE Known(Gateway)
      BY <1>3, <3>1, KnownMacType, SendFromPollType DEF PollSegment, Replies
    <3>2. CASE ~Known(Gateway)
      BY <1>3, <3>2, SendFromPollType DEF PollSegment
    <3> QED BY <3>1, <3>2
  <2>2. CacheType' /\ TaskType' /\ DnsType'
    BY <1>0, <1>1, <1>3 DEF PollSegment, dns, CacheType, TaskType, DnsType
  <2> QED BY <2>1, <2>2, TypePartsNext
<1>4. CASE PollAnswer
  <2>1. PICK id \in asked : /\ id = dns_query_id
                            /\ dns_response_received' = TRUE
                            /\ resolved_ip' \in {id, resolved_ip}
    BY <1>4 DEF PollAnswer, IsOurs
  <2>2. BuffersType' /\ NicType'
    BY <1>0, <1>4 DEF PollAnswer, Silent, buffers, nic, BuffersType, NicType
  <2>3. CacheType' /\ TaskType' /\ DnsType'
    BY <1>0, <1>1, <1>4, <2>1 DEF PollAnswer, CacheType, TaskType, DnsType
  <2> QED BY <2>2, <2>3, TypePartsNext
<1> QED BY <1>2, <1>3, <1>4 DEF NetPoll

-----------------------------------------------------------------------------
(* The cache: what arp_receive learns, and that nobody else writes to it.   *)
LEMMA PollArpCache == ASSUME TypeInv, CacheInv, PollArp PROVE CacheInv'
<1>1. PICK ip \in Hosts, mac \in Macs :
        /\ arp_cache' = [arp_cache EXCEPT ![Place(ip)] = [ip |-> ip, mac |-> mac]]
        /\ heard' = [heard EXCEPT ![ip] = mac]
  BY DEF PollArp, Macs
<1> DEFINE place == Place(ip)
<1>2. mac # Broadcast /\ place \in Entries /\ ip # Nobody
  BY PlaceInCache, SendPathAssumption
<1>3. /\ \A i \in Entries : arp_cache'[i] = IF i = place THEN [ip |-> ip, mac |-> mac]
                                             ELSE arp_cache[i]
      /\ \A h \in Hosts : heard'[h] = IF h = ip THEN mac ELSE heard[h]
  BY <1>1, <1>2 DEF TypeInv, TypeOK
<1>4. \A i \in Entries : i # place => arp_cache[i].ip # ip
  <2>1. CASE Known(ip)
    <3>1. place \in Entry(ip)
      BY <2>1, MinIsElement DEF Known, Entry, Place
    <3> QED BY <1>2, <3>1 DEF CacheInv, CacheIsCurrent, Entry
  <2>2. CASE ~Known(ip)
    BY <2>2 DEF Known, Entry
  <2> QED BY <2>1, <2>2
<1>5. \A i \in Entries : arp_cache[i].ip \in Hosts \cup {Nobody}
  BY DEF TypeInv, TypeOK
<1> HIDE DEF place
<1>6. CacheIsCurrent'
  BY <1>2, <1>3, <1>4, <1>5 DEF CacheInv, CacheIsCurrent
<1>7. \A i \in Entries : arp_cache'[i].ip # Nobody => heard'[arp_cache'[i].ip] # Broadcast
  BY <1>2, <1>3, <1>5 DEF CacheInv, Heard
<1>8. ASSUME NEW h \in Hosts, heard'[h] # Broadcast, ~Known(h)' PROVE Empty' = {}
  <2>1. h # ip
    BY <1>2, <1>3, <1>8 DEF Known, Entry
  <2>2. Heard(h)
    BY <1>3, <1>8, <2>1 DEF Heard
  <2>3. CASE Known(h)
    <3>1. place \in Entry(h) /\ ~Known(ip) /\ Empty = {}
      <4>1. PICK i \in Entries : arp_cache[i].ip = h
        BY <2>3 DEF Known, Entry
      <4>2. i = place
        BY <1>3, <1>8, <4>1 DEF Known, Entry
      <4>3. h # Nobody
        BY SendPathAssumption
      <4>4. ~Known(ip)
        <5> SUFFICES ASSUME Known(ip) PROVE FALSE
          OBVIOUS
        <5>1. place \in Entry(ip)
          BY MinIsElement DEF Known, Entry, Place, place
        <5> QED BY <2>1, <4>1, <4>2, <5>1 DEF Entry
      <4>5. Empty = {}
        <5> SUFFICES ASSUME Empty # {} PROVE FALSE
          OBVIOUS
        <5>1. place \in Empty
          BY <4>4, MinIsElement DEF Empty, Place, place
        <5> QED BY <4>1, <4>2, <4>3, <5>1 DEF Empty
      <4> QED BY <4>1, <4>2, <4>4, <4>5 DEF Entry
    <3> QED BY <1>2, <1>3, <3>1 DEF Empty
  <2>4. CASE ~Known(h)
    <3>1. Empty = {}
      BY <2>2, <2>4 DEF CacheInv
    <3> QED BY <1>2, <1>3, <3>1 DEF Empty
  <2> QED BY <2>3, <2>4
<1> QED BY <1>6, <1>7, <1>8 DEF CacheInv, Heard

LEMMA CacheKept ==
  ASSUME CacheInv, UNCHANGED << arp_cache, heard >>
  PROVE  CacheInv'
BY DEF CacheInv, CacheIsCurrent, Heard, Known, Entry, Empty

LEMMA OthersKeepCache ==
  ASSUME TypeInv, \/ KernelTask \/ PollSegment \/ PollAnswer
  PROVE  UNCHANGED << arp_cache, heard >>
<1>1. CASE KernelTask
  BY <1>1 DEF KernelTask, SendSegment, DnsReset, DnsNextId, IpHeader, IpData, Resolve,
     WriteEthHeader, WriteEthData, CopyFrame, FillDescriptor, PublishIndex, ClearStatus,
     WriteTail, Finish, ArpFound, ArpTimeout, DnsReturns, Step
<1>2. CASE PollSegment \/ PollAnswer
  BY <1>2 DEF PollSegment, PollAnswer
<1> QED BY <1>1, <1>2

-----------------------------------------------------------------------------
(* The gateway, once heard, stays heard.                                    *)
LEMMA HeardStays ==
  ASSUME TypeInv, Next, Heard(Gateway)
  PROVE  Heard(Gateway)'
<1>1. CASE PollArp
  <2>1. PICK ip \in Hosts, mac \in Macs : heard' = [heard EXCEPT ![ip] = mac]
    BY <1>1 DEF PollArp, Macs
  <2> QED BY <2>1, SendPathAssumption DEF Heard, TypeInv
<1>2. CASE ~PollArp
  BY <1>2, OthersKeepCache DEF Next, NetPoll, Heard
<1> QED BY <1>1, <1>2

LEMMA KernelTaskGateway ==
  ASSUME TypeInv, CacheInv, GatewayInv, KernelTask
  PROVE  GatewayInv'
<1>1. Heard(Gateway) => Heard(Gateway)'
  BY HeardStays DEF Next
<1>2. Known(Gateway) => Heard(Gateway)
  BY KnownIsHeard, GatewayIsHost
<1>3. CASE SendSegment \/ DnsReset \/ DnsNextId \/ IpHeader \/ IpData
  BY <1>1, <1>3 DEF SendSegment, DnsReset, DnsNextId, IpHeader, IpData, Step, GatewayInv, buffers
<1>4. CASE Resolve
  BY <1>1, <1>2, <1>4 DEF Resolve, Step, GatewayInv, buffers
<1>5. CASE WriteEthHeader
  <2>1. eth_tx_buf'.data = eth_tx_buf.data
    BY <1>5 DEF WriteEthHeader, TypeInv, Frames
  <2> QED BY <1>1, <1>5, <2>1 DEF WriteEthHeader, Step, GatewayInv
<1>6. CASE WriteEthData
  <2>1. eth_tx_buf'.data = Payload
    BY <1>6 DEF WriteEthData, TypeInv, Frames
  <2>2. packet = "request" => Payload # Whole("segment")
    BY DEF Payload, Whole, Two
  <2> QED BY <1>1, <1>6, <2>1, <2>2 DEF WriteEthData, Step, GatewayInv
<1>7. CASE CopyFrame \/ FillDescriptor \/ PublishIndex \/ ClearStatus
  BY <1>1, <1>7 DEF CopyFrame, FillDescriptor, PublishIndex, ClearStatus, Step, GatewayInv, buffers
<1>8. CASE WriteTail
  <2>1. spoken' => spoken \/ tx_buffer.data = Whole("segment")
    BY <1>8, TransmitsType, TypeParts, NextInRing
       DEF WriteTail, TaskType, BuffersType, NicType
  <2> QED BY <1>1, <1>8, <2>1 DEF WriteTail, Step, GatewayInv, buffers
<1>9. CASE Finish
  <2>1. at' \notin {"eth_header", "eth_data"}
    BY <1>9 DEF Finish, Step, Back
  <2> QED BY <1>1, <1>9, <2>1 DEF Finish, Sent, GatewayInv, buffers
<1>10. CASE ArpFound
  BY <1>1, <1>2, <1>10 DEF ArpFound, GatewayInv, buffers
<1>11. CASE ArpTimeout
  <2>1. at' \notin {"eth_header", "eth_data"}
    BY <1>11 DEF ArpTimeout, Step, Back
  <2> QED BY <1>1, <1>11, <2>1 DEF ArpTimeout, GatewayInv, buffers
<1>12. CASE DnsReturns
  BY <1>1, <1>12 DEF DnsReturns, Step, GatewayInv, buffers
<1> QED BY <1>3, <1>4, <1>5, <1>6, <1>7, <1>8, <1>9, <1>10, <1>11, <1>12 DEF KernelTask

LEMMA NetPollGateway ==
  ASSUME TypeInv, CacheInv, GatewayInv, NetPoll
  PROVE  GatewayInv'
<1>1. Heard(Gateway) => Heard(Gateway)'
  BY HeardStays DEF Next
<1>2. UNCHANGED << at, packet >>
  BY DEF NetPoll, PollArp, PollSegment, PollAnswer, Polls
<1>3. CASE Silent
  BY <1>1, <1>2, <1>3 DEF Silent, GatewayInv, buffers
<1>4. ASSUME NEW p \in Replies \cup {"request"}, NEW mac \in Macs \cup {Broadcast},
             SendFromPoll(p, mac)
      PROVE  GatewayInv'
  <2>1. Whole(p) # Whole("segment")
    BY DEF Whole, Two, Replies
  <2> QED BY <1>1, <1>2, <1>4, <2>1, SendFromPollType DEF GatewayInv
<1>5. CASE PollArp
  <2>1. PICK mac \in Macs : Silent \/ SendFromPoll("reply", mac)
    BY <1>5 DEF PollArp, Macs
  <2> QED BY <1>3, <1>4, <2>1 DEF Replies
<1>6. CASE PollSegment
  <2>1. CASE Known(Gateway)
    BY <1>4, <1>6, <2>1, KnownMacType DEF PollSegment, Replies
  <2>2. CASE ~Known(Gateway)
    BY <1>4, <1>6, <2>2 DEF PollSegment
  <2> QED BY <2>1, <2>2
<1>7. CASE PollAnswer
  BY <1>3, <1>7 DEF PollAnswer
<1> QED BY <1>5, <1>6, <1>7 DEF NetPoll

(* net_poll comes to wait only for a gateway that has been heard, since a   *)
(* segment went through it, and forgotten; then nothing moves any more.     *)
LEMMA NextHalt ==
  ASSUME TypeInv, GatewayInv, HaltInv, Next
  PROVE  HaltInv'
<1>1. ~halted
  BY DEF Next, KernelTask, SendSegment, DnsReset, DnsNextId, IpHeader, IpData, Resolve,
     WriteEthHeader, WriteEthData, CopyFrame, FillDescriptor, PublishIndex, ClearStatus,
     WriteTail, Finish, ArpFound, ArpTimeout, DnsReturns, Step,
     NetPoll, PollArp, PollSegment, PollAnswer, Polls
<1>2. CASE PollSegment
  <2>1. halted' => ~Known(Gateway) /\ spoken
    BY <1>1, <1>2 DEF PollSegment
  <2>2. UNCHANGED << arp_cache, heard >>
    BY <1>2 DEF PollSegment
  <2> QED BY <2>1, <2>2 DEF HaltInv, GatewayInv, Heard, Known, Entry
<1>3. CASE ~PollSegment
  <2>1. ~halted'
    BY <1>1, <1>3 DEF Next, KernelTask, SendSegment, DnsReset, DnsNextId, IpHeader, IpData,
       Resolve, WriteEthHeader, WriteEthData, CopyFrame, FillDescriptor, PublishIndex,
       ClearStatus, WriteTail, Finish, ArpFound, ArpTimeout, DnsReturns, Step,
       NetPoll, PollArp, PollAnswer
  <2> QED BY <2>1 DEF HaltInv
<1> QED BY <1>2, <1>3

-----------------------------------------------------------------------------
LEMMA StutterIInv == ASSUME IInv, UNCHANGED vars PROVE IInv'
<1>1. TypeInv'
  BY DEF IInv, TypeInv, TypeOK, vars, task, buffers, nic, dns
<1>2. CacheInv'
  BY CacheKept DEF IInv, vars
<1>3. GatewayInv' /\ HaltInv'
  BY DEF IInv, GatewayInv, HaltInv, Heard, Known, Entry, vars, task, buffers
<1> QED BY <1>1, <1>2, <1>3 DEF IInv

LEMMA NextIInv == IInv /\ [Next]_vars => IInv'
<1> SUFFICES ASSUME IInv, [Next]_vars PROVE IInv'
  OBVIOUS
<1>1. CASE Next
  <2>1. TypeInv'
    BY <1>1, KernelTaskType, NetPollType DEF Next, IInv
  <2>2. CacheInv'
    BY <1>1, PollArpCache, OthersKeepCache, CacheKept DEF Next, NetPoll, IInv
  <2>3. GatewayInv'
    BY <1>1, KernelTaskGateway, NetPollGateway DEF Next, IInv
  <2>4. HaltInv'
    BY <1>1, NextHalt DEF IInv
  <2> QED BY <2>1, <2>2, <2>3, <2>4 DEF IInv
<1>2. CASE UNCHANGED vars
  BY <1>2, StutterIInv
<1> QED BY <1>1, <1>2

LEMMA SpecIInv == Spec => []IInv
BY InitIInv, NextIInv, PTL DEF Spec

(* A full cache without the gateway means one host more than it has         *)
(* entries: its entries are different hosts, all of them heard.             *)
LEMMA HaltIsEviction == IInv => NoWaitInPoll
<1> SUFFICES ASSUME IInv, halted
             PROVE  Cardinality({h \in Hosts : heard[h] # Broadcast}) > ARP_CACHE_SIZE
  BY DEF NoWaitInPoll
<1> DEFINE H == {h \in Hosts : heard[h] # Broadcast}
           f == [i \in Entries |-> arp_cache[i].ip]
<1>1. Gateway \in H /\ ~Known(Gateway) /\ Empty = {}
  BY GatewayIsHost DEF IInv, HaltInv, CacheInv, Heard
<1>2. \A i \in Entries : arp_cache[i].ip \in Hosts /\ arp_cache[i].ip # Nobody
                        /\ arp_cache[i].ip # Gateway
  BY <1>1 DEF Empty, Known, Entry, IInv, TypeInv, TypeOK
<1>3. f \in Injection(Entries, H \ {Gateway})
  <2>1. \A i \in Entries : f[i] \in H \ {Gateway}
    BY <1>2 DEF IInv, CacheInv, Heard
  <2>2. \A i, j \in Entries : f[i] = f[j] => i = j
    BY <1>2 DEF IInv, CacheInv, CacheIsCurrent
  <2> QED BY <2>1, <2>2 DEF Injection, IsInjective
<1>4. IsFiniteSet(H)
  BY SendPathAssumption, FS_Subset
<1> HIDE DEF H, f
<1>5. IsFiniteSet(H \ {Gateway}) /\ Cardinality(H \ {Gateway}) = Cardinality(H) - 1
  BY <1>1, <1>4, FS_RemoveElement
<1>6. Cardinality(Entries) <= Cardinality(H \ {Gateway})
  BY <1>3, <1>5, FS_Injection
<1>7. Cardinality(Entries) = ARP_CACHE_SIZE
  BY SendPathAssumption, FS_Interval DEF Entries
<1>8. Cardinality(H) \in Nat
  BY <1>4, FS_CardinalityType
<1> QED BY <1>5, <1>6, <1>7, <1>8, SendPathAssumption DEF H

-----------------------------------------------------------------------------
(* The way of one packet.  How far the ring's index a is ahead of b:        *)
Away(a, b) == (a - b) % E1000_NUM_TX_DESC

Published == {"publish", "arm", "tail"}
InFrame == {"eth_data", "copy", "fill"} \cup Published

(* What the kernel task sends, by where it is.                              *)
TaskInv ==
  /\ at = "idle" => job = "none"
  /\ at \in {"dns_id", "dns_wait"} => job = "query"
  /\ at \in {"ip_header", "ip_data"} => job \in Jobs
  /\ at \in {"idle", "dns_id", "dns_wait", "ip_header", "ip_data"} => packet = "none"
  /\ at = "resolve" => \/ job \in Jobs /\ packet = "none"
                       \/ job = "none" /\ packet = "request" /\ ~Known(Gateway)
  /\ at = "arp_wait" => packet = "request"
  /\ at \in InFrame \cup {"eth_header", "finish"} =>
       packet \in {job, "request"} /\ packet # "none"

(* The tail register lags no further behind tx_cur than net_poll has sent   *)
(* between the kernel task's reading and writing of it.                     *)
RingInv ==
  /\ in_window \in 0 .. MAX_IN_WINDOW
  /\ at \notin Published => Away(tx_cur, tdt) <= MAX_IN_WINDOW
  /\ at = "publish" => /\ Away(tx_cur, old_cur) = in_window
                       /\ in_window > 0 => tdt = tx_cur
                       /\ Away(tx_cur, tdt) <= MAX_IN_WINDOW
  /\ at \in {"arm", "tail"} =>
       /\ Away(tx_cur, old_cur) \in 1 .. in_window + 1
       /\ in_window <= 1 => Away(tx_cur, tdt) <= MAX_IN_WINDOW + 1

(* ipv4_tx_buf holds the job as far as it is built, unless disturbed.       *)
IpInv ==
  "ip" \notin disturbed =>
    /\ at = "ip_data" => ipv4_tx_buf.header = job
    /\ job \in Jobs /\ (at \in {"resolve", "eth_header", "eth_data", "arp_wait"}
                          \/ packet = "request")
         => ipv4_tx_buf = Whole(job)

(* And so does the frame, on its way into the ring.                         *)
FrameInv ==
  "frame" \notin disturbed =>
    /\ at \in InFrame => eth_tx_buf.header = EthHeader(packet, dest_mac)
    /\ at \in InFrame \ {"eth_data"} /\ (packet = "request" \/ "ip" \notin disturbed)
         => eth_tx_buf.data = Whole(packet)
    /\ at \in InFrame \ {"eth_data", "copy"} => tx_buffer = eth_tx_buf
    /\ at \in Published => /\ descs[old_cur] = LengthOf[packet] /\ in_window = 0
                           /\ Away(old_cur, tdt) <= MAX_IN_WINDOW
    /\ at = "finish" => Away(tx_cur, old_cur) = in_window + 1

(* The answer kept is to the question asked, unless it came too early.      *)
DnsInv ==
  /\ job = "query" /\ ~stale => resolved_ip \in {0, dns_query_id}
  /\ at = "dns_id" /\ ~stale => resolved_ip = 0

WayInv == TaskInv /\ RingInv /\ IpInv /\ FrameInv /\ DnsInv

-----------------------------------------------------------------------------
(* The ring, for any number of descriptors.                                 *)
LEMMA Modulus ==
  ASSUME NEW n \in Nat \ {0}, NEW x \in Int, -n <= x, x < 2 * n
  PROVE  x % n = IF x < 0 THEN x + n ELSE IF x < n THEN x ELSE x - n
OBVIOUS

LEMMA AwayCases ==
  ASSUME NEW a \in Ring, NEW b \in Ring
  PROVE  Away(a, b) = IF a >= b THEN a - b ELSE a - b + E1000_NUM_TX_DESC
<1>1. /\ E1000_NUM_TX_DESC \in Nat \ {0} /\ a - b \in Int
      /\ -E1000_NUM_TX_DESC <= a - b /\ a - b < E1000_NUM_TX_DESC
  BY Sizes DEF Ring
<1>2. a - b < 2 * E1000_NUM_TX_DESC
  BY <1>1
<1>3. a - b < 0 <=> ~(a >= b)
  BY DEF Ring
<1> QED BY <1>1, <1>2, <1>3, Modulus DEF Away

LEMMA NextCases ==
  ASSUME NEW i \in Ring
  PROVE  Next1(i) = IF i = E1000_NUM_TX_DESC - 1 THEN 0 ELSE i + 1
<1>1. /\ E1000_NUM_TX_DESC \in Nat \ {0} /\ i + 1 \in Int
      /\ -E1000_NUM_TX_DESC <= i + 1 /\ i + 1 < 2 * E1000_NUM_TX_DESC
      /\ i + 1 <= E1000_NUM_TX_DESC /\ i >= 0
  BY Sizes DEF Ring
<1> DEFINE x == i + 1
<1>2. x = i + 1 /\ i \in Int
  BY DEF Ring
<1> HIDE DEF x
<1>3. x % E1000_NUM_TX_DESC = IF x < 0 THEN x + E1000_NUM_TX_DESC
                              ELSE IF x < E1000_NUM_TX_DESC THEN x
                              ELSE x - E1000_NUM_TX_DESC
  BY <1>1, <1>2, Modulus
<1>4. Next1(i) = x % E1000_NUM_TX_DESC
  BY DEF Next1, x
<1> QED BY <1>1, <1>2, <1>3, <1>4

LEMMA AwayFacts ==
  ASSUME NEW a \in Ring, NEW b \in Ring
  PROVE  /\ Away(a, b) \in 0 .. E1000_NUM_TX_DESC - 1
         /\ Away(a, a) = 0
         /\ Away(a, b) # E1000_NUM_TX_DESC - 1 => Away(Next1(a), b) = Away(a, b) + 1
         /\ Away(Next1(a), a) = 1
         /\ Away(a, b) # E1000_NUM_TX_DESC - 1 => Ahead(a, Next1(a)) \/ b # tdt
<1>1. Next1(a) \in Ring
  BY NextInRing
<1>2. /\ a \in 0 .. E1000_NUM_TX_DESC - 1 /\ b \in 0 .. E1000_NUM_TX_DESC - 1
      /\ E1000_NUM_TX_DESC \in Nat /\ E1000_NUM_TX_DESC >= 4
  BY Sizes DEF Ring
<1>3. /\ Away(a, b) = IF a >= b THEN a - b ELSE a - b + E1000_NUM_TX_DESC
      /\ Away(a, a) = IF a >= a THEN a - a ELSE a - a + E1000_NUM_TX_DESC
      /\ Away(Next1(a), b) = IF Next1(a) >= b THEN Next1(a) - b
                             ELSE Next1(a) - b + E1000_NUM_TX_DESC
      /\ Away(Next1(a), a) = IF Next1(a) >= a THEN Next1(a) - a
                             ELSE Next1(a) - a + E1000_NUM_TX_DESC
      /\ Next1(a) = IF a = E1000_NUM_TX_DESC - 1 THEN 0 ELSE a + 1
  BY <1>1, AwayCases, NextCases
<1>4. /\ Away(a, b) \in 0 .. E1000_NUM_TX_DESC - 1 /\ Away(a, a) = 0
      /\ Away(a, b) # E1000_NUM_TX_DESC - 1 => Away(Next1(a), b) = Away(a, b) + 1
      /\ Away(Next1(a), a) = 1
  BY <1>2, <1>3
<1>5. b = tdt => (Ahead(a, Next1(a)) <=> Away(a, b) < Away(Next1(a), b))
  BY DEF Ahead, Away
<1> QED BY <1>2, <1>4, <1>5

-----------------------------------------------------------------------------
LEMMA TaskStep == ASSUME TaskInv, Next PROVE TaskInv'
<1> USE DEF TaskInv, InFrame, Published, Jobs
<1>1. CASE KernelTask
  <2>1. CASE SendSegment \/ DnsReset \/ DnsNextId \/ IpHeader \/ IpData
    BY <2>1 DEF SendSegment, DnsReset, DnsNextId, IpHeader, IpData, Step
  <2>2. CASE Resolve
    BY <2>2 DEF Resolve, Step
  <2>3. CASE WriteEthHeader \/ WriteEthData \/ CopyFrame \/ FillDescriptor
    BY <2>3 DEF WriteEthHeader, WriteEthData, CopyFrame, FillDescriptor, Step
  <2>4. CASE PublishIndex \/ ClearStatus \/ WriteTail
    BY <2>4 DEF PublishIndex, ClearStatus, WriteTail, Step
  <2>5. CASE Finish
    BY <2>5 DEF Finish, Return, Back, Step
  <2>6. CASE ArpFound
    BY <2>6 DEF ArpFound, Return, Back, Step
  <2>7. CASE ArpTimeout \/ DnsReturns
    BY <2>7 DEF ArpTimeout, DnsReturns, Return, Back, Step
  <2> QED BY <1>1, <2>1, <2>2, <2>3, <2>4, <2>5, <2>6, <2>7 DEF KernelTask
<1>2. CASE NetPoll
  <2>1. UNCHANGED << at, job, packet >>
    BY <1>2 DEF NetPoll, PollArp, PollSegment, PollAnswer, Polls
  <2>2. at = "resolve" /\ job = "none" => UNCHANGED arp_cache
    BY <1>2 DEF NetPoll, PollArp, PollSegment, PollAnswer, Polls
  <2> QED BY <2>1, <2>2 DEF Known, Entry
<1> QED BY <1>1, <1>2 DEF Next

LEMMA DnsStep == ASSUME TaskInv, DnsInv, Next PROVE DnsInv'
<1> USE DEF DnsInv
<1>1. CASE SendSegment
  BY <1>1 DEF SendSegment, Step
<1>2. CASE DnsReset
  BY <1>2 DEF DnsReset, Emptied, Step
<1>3. CASE DnsNextId
  BY <1>3 DEF DnsNextId, Step
<1>4. CASE DnsReturns
  BY <1>4 DEF DnsReturns, Step
<1>5. CASE PollAnswer
  BY <1>5 DEF PollAnswer, Polls, IsOurs
<1>6. CASE PollArp \/ PollSegment
  BY <1>6 DEF PollArp, PollSegment, Polls, dns
<1>7. CASE Finish \/ ArpFound \/ ArpTimeout
  BY <1>7 DEF Finish, Sent, ArpFound, ArpTimeout, Return, Back, Step, dns
<1>8. CASE IpHeader \/ IpData \/ Resolve \/ WriteEthHeader \/ WriteEthData
  BY <1>8 DEF IpHeader, IpData, Resolve, WriteEthHeader, WriteEthData, Step, dns
<1>9. CASE CopyFrame \/ FillDescriptor \/ PublishIndex \/ ClearStatus \/ WriteTail
  BY <1>9 DEF CopyFrame, FillDescriptor, PublishIndex, ClearStatus, WriteTail, Step, dns
<1> QED BY <1>1, <1>2, <1>3, <1>4, <1>5, <1>6, <1>7, <1>8, <1>9 DEF Next, KernelTask, NetPoll

(* A poll leaves the kernel task where it is, and sends at most one packet. *)
LEMMA PollCases ==
  ASSUME TypeInv, NetPoll
  PROVE  /\ UNCHANGED << at, job, packet, dest_mac, old_cur >>
         /\ \/ Silent
            \/ \E p \in Replies \cup {"request"} : \E mac \in Macs \cup {Broadcast} :
                 SendFromPoll(p, mac)
<1>1. UNCHANGED << at, job, packet, dest_mac, old_cur >>
  BY DEF NetPoll, PollArp, PollSegment, PollAnswer, Polls
<1>2. CASE PollArp
  <2>1. PICK mac \in Macs : Silent \/ SendFromPoll("reply", mac)
    BY <1>2 DEF PollArp, Macs
  <2> QED BY <1>1, <2>1 DEF Replies
<1>3. CASE PollSegment
  BY <1>1, <1>3, KnownMacType DEF PollSegment, Replies
<1>4. CASE PollAnswer
  BY <1>1, <1>4 DEF PollAnswer
<1> QED BY <1>2, <1>3, <1>4 DEF NetPoll

LEMMA IpStep == ASSUME TypeInv, TaskInv, IpInv, Next PROVE IpInv'
<1> USE DEF IpInv, Jobs
<1>1. CASE SendSegment \/ DnsReset \/ DnsNextId
  BY <1>1 DEF SendSegment, DnsReset, DnsNextId, Step, TaskInv
<1>2. CASE IpHeader
  <2>1. packet = "none"
    BY <1>2 DEF IpHeader, Step, TaskInv
  <2> QED BY <1>2, <2>1 DEF IpHeader, Step, TypeInv, TypeOK
<1>3. CASE IpData
  <2>1. ipv4_tx_buf \in Parts /\ ipv4_tx_buf' = [ipv4_tx_buf EXCEPT !.data = job]
    BY <1>3 DEF IpData, TypeInv, TypeOK, Parts
  <2>2. ipv4_tx_buf.header = job => ipv4_tx_buf' = Whole(job)
    BY <2>1 DEF Parts, Whole, Two
  <2>3. packet = "none"
    BY <1>3 DEF IpData, Step, TaskInv
  <2> QED BY <1>3, <2>2, <2>3 DEF IpData, Step
<1>4. CASE Resolve
  BY <1>4 DEF Resolve, Step, buffers
<1>5. CASE WriteEthHeader \/ WriteEthData
  BY <1>5 DEF WriteEthHeader, WriteEthData, Step
<1>6. CASE CopyFrame \/ FillDescriptor \/ PublishIndex \/ ClearStatus \/ WriteTail
  BY <1>6 DEF CopyFrame, FillDescriptor, PublishIndex, ClearStatus, WriteTail, Step, buffers
<1>7. CASE Finish
  BY <1>7 DEF Finish, Sent, Return, Back, Step, buffers
<1>8. CASE ArpFound
  BY <1>8 DEF ArpFound, Return, Back, Step, buffers, TaskInv
<1>9. CASE ArpTimeout \/ DnsReturns
  BY <1>9 DEF ArpTimeout, DnsReturns, Return, Back, Step, buffers
<1>10. CASE NetPoll
  <2>1. UNCHANGED << at, job, packet >>
    BY <1>10, PollCases
  <2>2. CASE Silent
    BY <2>1, <2>2 DEF Silent, buffers
  <2>3. ASSUME NEW p, NEW mac, SendFromPoll(p, mac) PROVE IpInv'
    <3>1. disturbed \subseteq disturbed'
      BY <2>3 DEF SendFromPoll
    <3>2. CASE IsArp(p)
      BY <2>1, <2>3, <3>1, <3>2 DEF SendFromPoll
    <3>3. CASE ~IsArp(p) /\ IpInUse
      BY <2>3, <3>3 DEF SendFromPoll
    <3>4. CASE ~IpInUse
      BY <2>1, <3>4 DEF IpInUse, TaskInv
    <3> QED BY <3>2, <3>3, <3>4
  <2> QED BY <1>10, <2>2, <2>3, PollCases
<1> QED BY <1>1, <1>2, <1>3, <1>4, <1>5, <1>6, <1>7, <1>8, <1>9, <1>10 DEF Next, KernelTask

-----------------------------------------------------------------------------
LEMMA AwayIs ==
  ASSUME NEW a \in Ring, NEW b \in Ring
  PROVE  /\ Away(a, b) = 0 => a = b
         /\ Away(a, b) = 1 => a = Next1(b)
         /\ Away(a, b) # 0 => Away(a, Next1(b)) = Away(a, b) - 1
<1>1. /\ a \in 0 .. E1000_NUM_TX_DESC - 1 /\ b \in 0 .. E1000_NUM_TX_DESC - 1
      /\ E1000_NUM_TX_DESC \in Nat /\ E1000_NUM_TX_DESC >= 4
  BY Sizes DEF Ring
<1>2. Next1(b) \in Ring
  BY NextInRing
<1>3. /\ Away(a, b) = IF a >= b THEN a - b ELSE a - b + E1000_NUM_TX_DESC
      /\ Away(a, Next1(b)) = IF a >= Next1(b) THEN a - Next1(b)
                             ELSE a - Next1(b) + E1000_NUM_TX_DESC
      /\ Next1(b) = IF b = E1000_NUM_TX_DESC - 1 THEN 0 ELSE b + 1
  BY <1>2, AwayCases, NextCases
<1> QED BY <1>1, <1>3

LEMMA WindowSize ==
  /\ MAX_IN_WINDOW \in Nat /\ MAX_IN_WINDOW >= 1
  /\ MAX_IN_WINDOW <= E1000_NUM_TX_DESC - 3
BY SendPathAssumption

LEMMA RingStep == ASSUME TypeInv, RingInv, Next PROVE RingInv'
<1>1. tx_cur \in Ring /\ tdt \in Ring /\ old_cur \in Ring
  BY DEF TypeInv, TypeOK
<1>2. in_window \in Nat /\ in_window <= MAX_IN_WINDOW /\ 0 \in 0 .. MAX_IN_WINDOW
  BY WindowSize DEF RingInv
<1>3. ASSUME NEW from, NEW to, Step(from, to), from \notin Published, to \notin Published,
             UNCHANGED << tx_cur, tdt >>
      PROVE  RingInv'
  BY <1>2, <1>3 DEF Step, RingInv, Away, Published
<1>4. CASE SendSegment \/ DnsReset \/ DnsNextId \/ IpHeader \/ IpData \/ Resolve
  BY <1>3, <1>4 DEF SendSegment, DnsReset, DnsNextId, IpHeader, IpData, Resolve, nic, Published
<1>5. CASE WriteEthHeader \/ WriteEthData \/ CopyFrame
  BY <1>3, <1>5 DEF WriteEthHeader, WriteEthData, CopyFrame, nic, Published
<1>6. CASE Finish \/ ArpFound \/ ArpTimeout \/ DnsReturns
  BY <1>3, <1>6 DEF Finish, Sent, ArpFound, ArpTimeout, DnsReturns, Back, nic, Published
<1>7. CASE FillDescriptor
  <2>1. /\ at = "fill" /\ at' = "publish" /\ in_window' = 0 /\ old_cur' = tx_cur
        /\ UNCHANGED << tx_cur, tdt >>
    BY <1>7 DEF FillDescriptor, Step
  <2>2. Away(tx_cur, tx_cur) = 0 /\ Away(tx_cur, tdt) <= MAX_IN_WINDOW
    BY <1>1, <2>1, AwayFacts DEF RingInv, Published
  <2> QED BY <1>2, <2>1, <2>2 DEF RingInv, Published, Away
<1>8. CASE PublishIndex
  <2>1. /\ at = "publish" /\ at' = "arm" /\ in_window' = in_window
        /\ tx_cur' = Next1(old_cur) /\ UNCHANGED << old_cur, tdt >>
    BY <1>8 DEF PublishIndex, Step
  <2>2. Away(Next1(old_cur), old_cur) = 1
    BY <1>1, AwayFacts
  <2>3. CASE in_window = 0
    <3>1. tx_cur = old_cur /\ Away(tx_cur, tdt) <= MAX_IN_WINDOW
      BY <1>1, <2>1, <2>3, AwayIs DEF RingInv
    <3>2. Away(tx_cur, tdt) # E1000_NUM_TX_DESC - 1
      BY <3>1, WindowSize, Sizes
    <3>3. Away(Next1(old_cur), tdt) = Away(tx_cur, tdt) + 1
      BY <1>1, <3>1, <3>2, AwayFacts
    <3>4. Away(tx_cur, tdt) \in Int
      BY <1>1, AwayFacts, Sizes
    <3>5. Away(Next1(old_cur), tdt) <= MAX_IN_WINDOW + 1
      BY <3>1, <3>3, <3>4, WindowSize
    <3> QED BY <1>2, <2>1, <2>2, <2>3, <3>5 DEF RingInv, Published, Away
  <2>4. CASE in_window = 1
    <3>1. tdt = tx_cur /\ tx_cur = Next1(old_cur)
      BY <1>1, <2>1, <2>4, AwayIs DEF RingInv
    <3>2. Away(Next1(old_cur), tdt) = 0
      BY <1>1, <3>1, AwayFacts
    <3> QED BY <1>2, <2>1, <2>2, <2>4, <3>2, WindowSize DEF RingInv, Published, Away
  <2>5. CASE in_window > 1
    BY <1>2, <2>1, <2>2, <2>5 DEF RingInv, Published, Away
  <2> QED BY <1>2, <2>3, <2>4, <2>5
<1>9. CASE ClearStatus
  BY <1>2, <1>9 DEF ClearStatus, Step, RingInv, Published, Away
<1>10. CASE WriteTail
  <2>1. /\ at = "tail" /\ at' = "finish" /\ in_window' = 0
        /\ tdt' = Next1(old_cur) /\ UNCHANGED << tx_cur, old_cur >>
    BY <1>10 DEF WriteTail, Step, Transmits
  <2>2. Away(tx_cur, old_cur) \in 1 .. in_window + 1
    BY <2>1 DEF RingInv
  <2>3. Away(tx_cur, Next1(old_cur)) <= MAX_IN_WINDOW
    <3>1. Away(tx_cur, Next1(old_cur)) = Away(tx_cur, old_cur) - 1
      BY <1>1, <1>2, <2>2, AwayIs
    <3> QED BY <1>2, <2>2, <3>1, WindowSize
  <2> QED BY <1>2, <2>1, <2>3 DEF RingInv, Published, Away
<1>11. CASE NetPoll
  <2>1. UNCHANGED << at, old_cur >>
    BY <1>11, PollCases
  <2>2. CASE Silent
    BY <2>1, <2>2 DEF Silent, nic, RingInv, Away
  <2>3. ASSUME NEW p, NEW mac, SendFromPoll(p, mac) PROVE RingInv'
    <3>1. /\ in_window < MAX_IN_WINDOW /\ in_window' = in_window + 1
          /\ tx_cur' = Next1(tx_cur) /\ tdt' = tx_cur'
      BY <2>3 DEF SendFromPoll, Transmits, Index
    <3>2. tx_cur' \in Ring /\ Away(tx_cur', tx_cur') = 0
      BY <1>1, <3>1, NextInRing, AwayFacts
    <3>3. at \in Published => /\ Away(tx_cur, old_cur) \in 0 .. in_window + 1
                              /\ at = "publish" => Away(tx_cur, old_cur) = in_window
                              /\ at # "publish" => Away(tx_cur, old_cur) \in 1 .. in_window + 1
      BY <1>2 DEF RingInv, Published
    <3>4. at \in Published => Away(tx_cur', old_cur) = Away(tx_cur, old_cur) + 1
      <4>1. at \in Published => Away(tx_cur, old_cur) # E1000_NUM_TX_DESC - 1
        BY <1>2, <3>1, <3>3, WindowSize, Sizes
      <4> QED BY <1>1, <3>1, <4>1, AwayFacts
    <3>5. in_window' \in 0 .. MAX_IN_WINDOW /\ in_window' > 0
      BY <1>2, <3>1, WindowSize
    <3>6. Away(tx_cur, tdt)' = 0 /\ Away(tx_cur, old_cur)' = Away(tx_cur', old_cur)
      BY <2>1, <3>1, <3>2 DEF Away
    <3>7. at = "publish" => Away(tx_cur, old_cur)' = in_window'
      BY <3>1, <3>3, <3>4, <3>6 DEF Published
    <3>8. at \in {"arm", "tail"} => Away(tx_cur, old_cur)' \in 1 .. in_window' + 1
      BY <1>2, <3>1, <3>3, <3>4, <3>6 DEF Published
    <3> QED BY <2>1, <3>1, <3>5, <3>6, <3>7, <3>8, WindowSize DEF RingInv, Published
  <2> QED BY <1>11, <2>2, <2>3, PollCases
<1> QED BY <1>4, <1>5, <1>6, <1>7, <1>8, <1>9, <1>10, <1>11 DEF Next, KernelTask

-----------------------------------------------------------------------------
LEMMA FrameStep ==
  ASSUME TypeInv, TaskInv, RingInv, IpInv, FrameInv, Next
  PROVE  FrameInv'
<1> USE DEF FrameInv, InFrame, Published
<1>1. /\ tx_cur \in Ring /\ tdt \in Ring /\ old_cur \in Ring
      /\ eth_tx_buf \in Frames /\ descs \in [Ring -> 0 .. 2]
  BY DEF TypeInv, TypeOK
<1>2. CASE SendSegment \/ DnsReset \/ DnsNextId \/ IpHeader \/ IpData \/ Resolve
  BY <1>2 DEF SendSegment, DnsReset, DnsNextId, IpHeader, IpData, Resolve, Step
<1>3. CASE WriteEthHeader
  <2>1. eth_tx_buf'.header = EthHeader(packet, dest_mac)
    BY <1>1, <1>3 DEF WriteEthHeader, Frames
  <2> QED BY <1>3, <2>1 DEF WriteEthHeader, Step
<1>4. CASE WriteEthData
  <2>1. /\ eth_tx_buf'.header = eth_tx_buf.header /\ eth_tx_buf'.data = Payload
        /\ at = "eth_data" /\ at' = "copy"
        /\ UNCHANGED << job, packet, dest_mac, disturbed >>
    BY <1>1, <1>4 DEF WriteEthData, Step, Frames
  <2>2. packet = "request" \/ "ip" \notin disturbed => Payload = Whole(packet)
    <3>1. packet # "request" => packet = job /\ job # "none" /\ job \in Jobs
      BY <2>1 DEF TaskInv, TypeInv, TypeOK
    <3> QED BY <2>1, <3>1 DEF IpInv, Payload
  <2> QED BY <2>1, <2>2
<1>5. CASE CopyFrame
  BY <1>5 DEF CopyFrame, Step
<1>6. CASE FillDescriptor
  <2>1. descs'[tx_cur] = LengthOf[packet] /\ Away(tx_cur, tdt) <= MAX_IN_WINDOW
    BY <1>1, <1>6 DEF FillDescriptor, Step, RingInv
  <2> QED BY <1>6, <2>1 DEF FillDescriptor, Step, buffers, Away
<1>7. CASE PublishIndex \/ ClearStatus
  BY <1>7 DEF PublishIndex, ClearStatus, Step, buffers, Away
<1>8. CASE WriteTail
  <2>1. "frame" \notin disturbed => Away(tx_cur, old_cur) = 1
    BY <1>8 DEF WriteTail, Step, RingInv
  <2> QED BY <1>8, <2>1 DEF WriteTail, Step, Away
<1>9. CASE Finish \/ ArpFound \/ ArpTimeout \/ DnsReturns
  BY <1>9 DEF Finish, ArpFound, ArpTimeout, DnsReturns, Back, Step
<1>10. CASE NetPoll
  <2>1. UNCHANGED << at, job, packet, dest_mac, old_cur >>
    BY <1>10, PollCases
  <2>2. CASE Silent
    BY <2>1, <2>2 DEF Silent, buffers, nic, Away
  <2>3. ASSUME NEW p, NEW mac, SendFromPoll(p, mac), "frame" \notin disturbed'
        PROVE  FrameInv'
    <3>1. /\ in_window < MAX_IN_WINDOW /\ in_window' = in_window + 1
          /\ tx_cur' = Next1(tx_cur) /\ "frame" \notin disturbed /\ ~FrameInUse
      BY <2>3 DEF SendFromPoll, Index
    <3>2. at \notin InFrame
      BY <3>1 DEF FrameInUse
    <3>3. CASE at = "finish"
      <4>1. Away(tx_cur, old_cur) = in_window + 1 /\ in_window \in Nat
        BY <3>1, <3>3 DEF RingInv
      <4>2. Away(tx_cur, old_cur) # E1000_NUM_TX_DESC - 1
        BY <3>1, <4>1, WindowSize, Sizes
      <4>3. Away(tx_cur', old_cur) = in_window' + 1
        BY <1>1, <3>1, <4>1, <4>2, AwayFacts
      <4> QED BY <2>1, <3>2, <4>3 DEF Away
    <3> QED BY <2>1, <3>2, <3>3
  <2> QED BY <1>10, <2>2, <2>3, PollCases
<1> QED BY <1>2, <1>3, <1>4, <1>5, <1>6, <1>7, <1>8, <1>9, <1>10 DEF Next, KernelTask

-----------------------------------------------------------------------------
(* The NIC, told the descriptor after i, sends i unless it lags N - 1.      *)
LEMMA GoesOut ==
  ASSUME NEW i \in Ring, tdt \in Ring, Away(i, tdt) <= E1000_NUM_TX_DESC - 2,
         NEW ds, NEW content
  PROVE  /\ Ahead(i, Next1(i))
         /\ [content |-> content, length |-> ds[i]] \in OnWire(ds, content, Next1(i))
<1>1. Away(i, tdt) # E1000_NUM_TX_DESC - 1
  BY Sizes
<1>2. Ahead(i, Next1(i))
  BY <1>1, AwayFacts
<1> QED BY <1>2 DEF OnWire

SentInv ==
  at = "finish" /\ "frame" \notin disturbed
    => /\ dd
       /\ packet = "request" \/ "ip" \notin disturbed => transmitted

LEMMA SentStep ==
  ASSUME TypeInv, TaskInv, RingInv, FrameInv, SentInv, Next
  PROVE  SentInv'
<1>1. /\ tx_cur \in Ring /\ tdt \in Ring /\ old_cur \in Ring
      /\ tx_buffer \in Frames
  BY DEF TypeInv, TypeOK
<1>2. CASE WriteTail
  <2>1. /\ at = "tail" /\ at' = "finish" /\ UNCHANGED << packet, dest_mac, disturbed >>
        /\ Transmits(descs, dd, tx_buffer, Next1(old_cur))
    BY <1>2 DEF WriteTail, Step
  <2>2. ASSUME "frame" \notin disturbed
        PROVE  dd' /\ (packet = "request" \/ "ip" \notin disturbed => transmitted')
    <3>1. /\ Away(old_cur, tdt) <= MAX_IN_WINDOW /\ descs[old_cur] = LengthOf[packet]
          /\ tx_buffer = eth_tx_buf
          /\ eth_tx_buf.header = EthHeader(packet, dest_mac)
          /\ packet = "request" \/ "ip" \notin disturbed => eth_tx_buf.data = Whole(packet)
      BY <2>1, <2>2 DEF FrameInv, InFrame, Published
    <3>2. Away(old_cur, tdt) <= E1000_NUM_TX_DESC - 2
      <4>1. Away(old_cur, tdt) \in 0 .. E1000_NUM_TX_DESC - 1
        BY <1>1, AwayFacts
      <4> QED BY <3>1, <4>1, WindowSize, Sizes
    <3>3. /\ Ahead(old_cur, Next1(old_cur))
          /\ [content |-> tx_buffer, length |-> descs[old_cur]]
               \in OnWire(descs, tx_buffer, Next1(old_cur))
      BY <1>1, <3>2, GoesOut
    <3>4. dd'
      BY <2>1, <3>3 DEF Transmits
    <3>5. ASSUME packet = "request" \/ "ip" \notin disturbed
          PROVE  transmitted'
      <4>1. tx_buffer = Two(EthHeader(packet, dest_mac), Whole(packet))
        BY <1>1, <3>1, <3>5 DEF Frames, Two
      <4>2. Frame(packet, dest_mac) \in OnWire(descs, tx_buffer, Next1(old_cur))
        BY <3>1, <3>3, <4>1 DEF Frame
      <4> QED BY <2>1, <4>2 DEF Transmits
    <3> QED BY <3>4, <3>5
  <2> QED BY <2>1, <2>2 DEF SentInv
<1>3. CASE NetPoll /\ at = "finish"
  <2>1. UNCHANGED << at, job, packet, dest_mac, old_cur >>
    BY <1>3, PollCases
  <2>2. CASE Silent
    BY <2>1, <2>2 DEF Silent, nic, SentInv
  <2>3. ASSUME NEW p, NEW mac, SendFromPoll(p, mac), "frame" \notin disturbed'
        PROVE  SentInv'
    <3>1. /\ disturbed \subseteq disturbed'
          /\ Transmits([descs EXCEPT ![Index] = LengthOf[p]], dd /\ Index # old_cur,
                       tx_buffer', tx_cur')
      BY <2>3 DEF SendFromPoll
    <3>2. Index # old_cur
      <4>1. Away(tx_cur, old_cur) = in_window + 1 /\ in_window \in Nat
        BY <1>3, <2>3, <3>1 DEF FrameInv, RingInv
      <4>2. Away(old_cur, old_cur) = 0
        BY <1>1, AwayFacts
      <4> QED BY <4>1, <4>2 DEF Index
    <3>3. dd => dd'
      BY <1>3, <3>1, <3>2 DEF Transmits
    <3>4. transmitted => transmitted'
      BY <3>1 DEF Transmits
    <3> QED BY <1>3, <2>1, <2>3, <3>1, <3>3, <3>4 DEF SentInv
  <2> QED BY <1>3, <2>2, <2>3, PollCases DEF SentInv
<1>4. CASE ~WriteTail /\ at' # "finish"
  BY <1>4 DEF SentInv
<1>5. KernelTask /\ ~WriteTail => at' # "finish"
  BY DEF KernelTask, SendSegment, DnsReset, DnsNextId, IpHeader, IpData, Resolve,
     WriteEthHeader, WriteEthData, CopyFrame, FillDescriptor, PublishIndex, ClearStatus,
     Finish, ArpFound, ArpTimeout, DnsReturns, Back, Step
<1>6. NetPoll => at' = at
  BY PollCases
<1> QED BY <1>2, <1>3, <1>4, <1>5, <1>6 DEF Next

LEMMA CutStep ==
  ASSUME TypeInv, RingInv, MAX_IN_WINDOW <= 2, ~cut, Next
  PROVE  ~cut'
<1>1. tx_cur \in Ring /\ tdt \in Ring /\ descs \in [Ring -> 0 .. 2]
  BY DEF TypeInv, TypeOK
<1>2. CASE KernelTask
  BY <1>2 DEF KernelTask, SendSegment, DnsReset, DnsNextId, IpHeader, IpData, Resolve,
     WriteEthHeader, WriteEthData, CopyFrame, FillDescriptor, PublishIndex, ClearStatus,
     WriteTail, Finish, ArpFound, ArpTimeout, DnsReturns, Step
<1>3. CASE NetPoll
  <2>1. CASE Silent
    BY <2>1 DEF Silent
  <2>2. ASSUME NEW p, NEW mac, SendFromPoll(p, mac) PROVE ~cut'
    <3>1. /\ in_window < MAX_IN_WINDOW
          /\ tx_buffer' = Two(EthHeader(p, mac), Whole(p))
          /\ tx_cur' = Next1(tx_cur) /\ descs' = [descs EXCEPT ![tx_cur] = LengthOf[p]]
          /\ cut' = (cut \/ Frame(p, mac) \notin OnWire(descs', tx_buffer', tx_cur'))
      BY <2>2 DEF SendFromPoll, Transmits, Index
    <3>2. Away(tx_cur, tdt) <= MAX_IN_WINDOW + 1
      <4>1. Away(tx_cur, tdt) \in 0 .. E1000_NUM_TX_DESC - 1 /\ E1000_NUM_TX_DESC \in Nat
        BY <1>1, AwayFacts, Sizes
      <4>2. in_window <= 1
        BY <3>1, WindowSize DEF RingInv
      <4>3. Away(tx_cur, tdt) <= MAX_IN_WINDOW \/ Away(tx_cur, tdt) <= MAX_IN_WINDOW + 1
        BY <4>2 DEF RingInv, Published
      <4> QED BY <4>1, <4>3, WindowSize
    <3>3. Away(tx_cur, tdt) <= E1000_NUM_TX_DESC - 2
      <4>1. Away(tx_cur, tdt) \in 0 .. E1000_NUM_TX_DESC - 1 /\ E1000_NUM_TX_DESC \in Nat
        BY <1>1, AwayFacts, Sizes
      <4> QED BY <3>2, <4>1, WindowSize
    <3>4. [content |-> tx_buffer', length |-> descs'[tx_cur]]
            \in OnWire(descs', tx_buffer', Next1(tx_cur))
      BY <1>1, <3>3, GoesOut
    <3>5. descs'[tx_cur] = LengthOf[p]
      BY <1>1, <3>1
    <3>6. Frame(p, mac) \in OnWire(descs', tx_buffer', tx_cur')
      BY <3>1, <3>4, <3>5 DEF Frame
    <3> QED BY <3>1, <3>6
  <2> QED BY <1>3, <2>1, <2>2, PollCases
<1> QED BY <1>2, <1>3 DEF Next

-----------------------------------------------------------------------------
WholeInv == IInv /\ WayInv /\ SentInv

LEMMA InitWay == Init => WayInv /\ SentInv
<1> SUFFICES ASSUME Init PROVE WayInv /\ SentInv
  OBVIOUS
<1>1. at = "resolve" /\ job = "none" /\ packet = "request"
  BY DEF Init
<1>2. ~Known(Gateway)
  BY GatewayIsHost DEF Init, Known, Entry
<1>3. Away(tx_cur, tdt) = 0 /\ in_window = 0
  <2>1. tx_cur = 0 /\ tdt = 0 /\ 0 \in Ring
    BY Sizes DEF Init
  <2> QED BY <2>1, AwayFacts DEF Init
<1>4. TaskInv /\ IpInv /\ DnsInv
  BY <1>1, <1>2 DEF TaskInv, IpInv, DnsInv, InFrame, Published, Jobs
<1>5. RingInv /\ FrameInv /\ SentInv
  BY <1>1, <1>3, WindowSize DEF RingInv, FrameInv, SentInv, InFrame, Published
<1> QED BY <1>4, <1>5 DEF WayInv

LEMMA StutterWay == ASSUME WayInv, SentInv, UNCHANGED vars PROVE WayInv' /\ SentInv'
<1> USE DEF vars, task, buffers, nic, dns
<1>1. TaskInv'
  BY DEF WayInv, TaskInv, Known, Entry
<1>2. RingInv' /\ SentInv'
  BY DEF WayInv, RingInv, SentInv, Away
<1>3. IpInv' /\ DnsInv'
  BY DEF WayInv, IpInv, DnsInv
<1>4. FrameInv'
  BY DEF WayInv, FrameInv, Away
<1> QED BY <1>1, <1>2, <1>3, <1>4 DEF WayInv

LEMMA SpecWhole == Spec => []WholeInv
<1>1. WholeInv /\ [Next]_vars => WholeInv'
  <2> SUFFICES ASSUME WholeInv, [Next]_vars PROVE WholeInv'
    OBVIOUS
  <2>1. IInv'
    BY NextIInv DEF WholeInv
  <2>2. CASE Next
    <3>1. WayInv'
      BY <2>2, TaskStep, RingStep, IpStep, FrameStep, DnsStep DEF WholeInv, WayInv, IInv
    <3>2. SentInv'
      BY <2>2, SentStep DEF WholeInv, WayInv, IInv
    <3> QED BY <2>1, <3>1, <3>2 DEF WholeInv
  <2>3. CASE UNCHANGED vars
    BY <2>1, <2>3, StutterWay DEF WholeInv
  <2> QED BY <2>2, <2>3
<1>2. Init => WholeInv
  BY InitIInv, InitWay DEF WholeInv
<1> QED BY <1>1, <1>2, PTL DEF Spec

(* The buffers, descriptors, cache and resolver keep their types for every  *)
(* number of descriptors, hosts and entries: tx_cur stays in the ring, and  *)
(* arp_cache_add's place in the table.                                      *)
THEOREM TypeCorrect == Spec => []TypeOK
<1>1. IInv => TypeOK
  BY DEF IInv, TypeInv
<1> QED BY <1>1, SpecIInv, PTL

(* arp_cache_add keeps one entry for a host, with the address it announced  *)
(* last, whatever is overwritten when the cache is full.                    *)
THEOREM CacheFollowsHosts == Spec => []CacheIsCurrent
<1>1. IInv => CacheIsCurrent
  BY DEF IInv, CacheInv
<1> QED BY <1>1, SpecIInv, PTL

(* The hlt of arp_resolve within net_poll (arp.c:154) is reached only if    *)
(* more hosts have been heard of than the cache has entries.                *)
THEOREM PollNeverWaits == Spec => []NoWaitInPoll
BY SpecIInv, HaltIsEviction, PTL

(* A query, a segment or a request of the kernel task goes out whole and    *)
(* e1000_send sees its descriptor done, unless net_poll has sent through a  *)
(* buffer in use: however far the tail register lags behind tx_cur after    *)
(* an earlier race of e1000_send with itself.                               *)
THEOREM OnlyRacesSpoil == Spec => []SentUnlessOverwritten
<1>1. ASSUME WholeInv PROVE SentUnlessOverwritten
  <2>1. packet \in {"request"} \/ packet # "request"
    OBVIOUS
  <2> QED BY <1>1 DEF WholeInv, SentInv, SentUnlessOverwritten
<1> QED BY <1>1, SpecWhole, PTL

(* What net_poll sends from within the kernel task's e1000_send goes out    *)
(* whole, if it sends at most two packets between tx_cur and the tail       *)
(* register: a third, after two of them before tx_cur is written, finds the *)
(* tail ahead of tx_cur and tells the NIC nothing new.                      *)
THEOREM PollIsHeard ==
  ASSUME MAX_IN_WINDOW <= 2
  PROVE  Spec => []PollSends
<1>1. Init => WholeInv /\ ~cut
  BY InitIInv, InitWay DEF WholeInv, Init
<1>2. WholeInv /\ ~cut /\ [Next]_vars => ~cut'
  <2> SUFFICES ASSUME WholeInv, ~cut, [Next]_vars PROVE ~cut'
    OBVIOUS
  <2>1. CASE Next
    BY <2>1, CutStep DEF WholeInv, WayInv, IInv
  <2>2. CASE UNCHANGED vars
    BY <2>2 DEF vars
  <2> QED BY <2>1, <2>2
<1>3. Spec => []~cut
  BY <1>1, <1>2, SpecWhole, PTL DEF Spec
<1> QED BY <1>3, PTL DEF PollSends

(* dns_resolve returns nothing but the answer to its own question, whatever *)
(* answers come late or twice, unless one came before dns_query_id changed. *)
THEOREM AnswersMatch == Spec => []AnswerBelongs
<1>1. WholeInv => AnswerBelongs
  BY DEF WholeInv, WayInv, TaskInv, DnsInv, AnswerBelongs
<1> QED BY <1>1, SpecWhole, PTL
=============================================================================

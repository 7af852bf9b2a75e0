------------------------------ MODULE SendPath ------------------------------
(***************************************************************************)
(* The way out of the network stack: dns_resolve and udp_send, ipv4_send,   *)
(* arp_resolve, eth_send and e1000_send (net/dns.c, udp.c, ipv4.c, arp.c,   *)
(* ethernet.c, drivers/e1000.c), walked by the kernel task step by step.    *)
(* net_poll interrupts it anywhere, runs to its end with interrupts         *)
(* disabled, and sends through the same buffers, descriptor ring and cache. *)
(*                                                                          *)
(* A buffer is two parts, a header and what follows it, each naming the     *)
(* packet it belongs to.  The NIC is external and works as the one of QEMU: *)
(* a write of the tail register transmits everything up to it, from what is *)
(* in tx_buffer at that moment.  Every wait may end at any moment, which    *)
(* covers all time-outs.  TCP's use of this path is in module Tcp; here its *)
(* packets have no content.                                                 *)
(*                                                                          *)
(* OneBuffer, NotEmptied, NotUpdated, StaleIndex and Unwrapped are wrong    *)
(* variants of the definition behind them; no action uses them.  They are   *)
(* there to see that the properties notice.                                 *)
(***************************************************************************)
EXTENDS Integers, FiniteSets, FiniteSetsExt

CONSTANTS
  Hosts,               \* those that talk ARP
  Gateway,             \* CLAOS_GW
  Announces,           \* the addresses a host may announce
  Broadcast, Nobody,   \* the broadcast address; an empty cache entry
  ARP_CACHE_SIZE,
  E1000_NUM_TX_DESC,
  MAX_QUERIES,         \* bound on dns_query_id
  MAX_IN_WINDOW        \* bound on what net_poll sends in a short time

Macs == UNION {Announces[h] : h \in Hosts}

ASSUME SendPathAssumption ==
  /\ IsFiniteSet(Hosts) /\ Gateway \in Hosts /\ Nobody \notin Hosts
  /\ Broadcast \notin Macs
  /\ ARP_CACHE_SIZE \in Nat \ {0}
  /\ E1000_NUM_TX_DESC \in Nat
  /\ MAX_QUERIES \in Nat
  /\ MAX_IN_WINDOW \in 1 .. E1000_NUM_TX_DESC - 3

Entries == 0 .. ARP_CACHE_SIZE - 1
Ring == 0 .. E1000_NUM_TX_DESC - 1

(* What the kernel task sends, what net_poll sends, and ARP's request.      *)
Jobs == {"query", "segment"}
Replies == {"ack", "reply"}
Packets == Jobs \cup Replies \cup {"request"}
IsArp(p) == p \in {"request", "reply"}
LengthOf == [p \in Packets \cup {"none"} |->
               IF p = "none" THEN 0 ELSE IF IsArp(p) THEN 1 ELSE 2]

VARIABLES
  at,              \* the step the kernel task takes next
  job,             \* what it was called to send, or "none"
  packet,          \* what goes through eth_send: the job, or a request
  dest_mac,        \* where to
  ipv4_tx_buf, eth_tx_buf, tx_buffer,
  descs,           \* tx_descs: the lengths in it
  dd,              \* the DD bit e1000_send of the kernel task polls
  tx_cur,
  old_cur,         \* e1000_send's copy of it
  tdt,             \* the NIC's tail register; its head has caught up
  arp_cache,
  dns_query_id, resolved_ip, dns_response_received,
  halted,          \* net_poll waits with interrupts disabled
  heard,           \* history: the last address each host announced
  asked,           \* history: the queries that reached the DNS server
  spoken,          \* history: a segment has reached the web server
  cut,             \* history: a packet of net_poll did not go out whole
  transmitted,     \* history: the kernel task's packet has gone out whole
  disturbed,       \* history: the buffers net_poll used while they were in use
  in_window,       \* history: packets of net_poll in the same short time
  stale            \* history: an answer came before dns_query_id had changed

buffers == << ipv4_tx_buf, eth_tx_buf, tx_buffer >>
nic == << descs, dd, tx_cur, tdt >>
dns == << dns_query_id, resolved_ip, dns_response_received, stale >>
task == << at, job, packet, dest_mac, old_cur >>
vars == << task, buffers, nic, arp_cache, dns, halted, heard, asked,
           spoken, cut, transmitted, disturbed, in_window >>

Steps == {"idle", "dns_id", "ip_header", "ip_data", "resolve", "eth_header",
          "eth_data", "copy", "fill", "publish", "arm", "tail", "finish",
          "arp_wait", "dns_wait"}

Two(h, d) == [header |-> h, data |-> d]
Unwrapped(i) == i + 1
Next1(i) == (i + 1) % E1000_NUM_TX_DESC

-----------------------------------------------------------------------------
(* arp_cache_lookup: the first entry of the address.                        *)
Entry(ip) == {i \in Entries : arp_cache[i].ip = ip}
Known(ip) == Entry(ip) # {}
MacOf(ip) == arp_cache[Min(Entry(ip))].mac

(* arp_cache_add: the entry to use.                                         *)
Empty == {i \in Entries : arp_cache[i].ip = Nobody}
NotUpdated(ip) == IF Empty # {} THEN Min(Empty) ELSE 0
Place(ip) ==
  IF Known(ip) THEN Min(Entry(ip))
  ELSE IF Empty # {} THEN Min(Empty)
  ELSE 0

-----------------------------------------------------------------------------
(* The packets as they should be in a buffer and on the wire.               *)
Whole(p) == Two(p, p)
EthHeader(p, mac) == [to |-> mac, arp |-> IsArp(p)]
Frame(p, mac) ==
  [content |-> Two(EthHeader(p, mac), Whole(p)), length |-> LengthOf[p]]

(* The NIC, told a new tail, sends the descriptors from the old one on.     *)
Ahead(d, tail) ==
  (d - tdt) % E1000_NUM_TX_DESC < (tail - tdt) % E1000_NUM_TX_DESC

OnWire(ds, content, tail) ==
  {[content |-> content, length |-> ds[d]] :
     d \in {e \in Ring : Ahead(e, tail)}}

Transmits(ds, done, content, tail) ==
  LET out == OnWire(ds, content, tail) IN
  /\ descs' = ds
  /\ dd' = (at \in {"tail", "finish"} /\ (done \/ Ahead(old_cur, tail)))
  /\ tdt' = tail
  /\ transmitted' = (transmitted \/ Frame(packet, dest_mac) \in out)
  /\ asked' = IF \E f \in out : f.content.data = Whole("query")
                THEN asked \cup {dns_query_id} ELSE asked
  /\ spoken' = (spoken \/ \E f \in out : f.content.data = Whole("segment"))

-----------------------------------------------------------------------------
(* The machine starts; kernel_main asks for the gateway's address, before   *)
(* net_poll runs on its own.                                                *)
Init ==
  /\ at = "resolve" /\ job = "none" /\ packet = "request"
  /\ dest_mac = Broadcast /\ old_cur = 0
  /\ ipv4_tx_buf = Whole("none")
  /\ eth_tx_buf = Two(EthHeader("none", Broadcast), Whole("none"))
  /\ tx_buffer = eth_tx_buf
  /\ descs = [d \in Ring |-> 0] /\ dd = FALSE
  /\ tx_cur = 0 /\ tdt = 0
  /\ arp_cache = [i \in Entries |-> [ip |-> Nobody, mac |-> Broadcast]]
  /\ dns_query_id = 0 /\ resolved_ip = 0 /\ dns_response_received = FALSE
  /\ halted = FALSE
  /\ heard = [h \in Hosts |-> Broadcast]
  /\ asked = {} /\ spoken = FALSE /\ cut = FALSE /\ transmitted = FALSE
  /\ disturbed = {} /\ in_window = 0 /\ stale = FALSE

(* One step of the kernel task, from one place to another.  The timer ticks *)
(* every 10 ms: from the descriptor to the tail there is time for few polls.*)
Step(from, to) ==
  /\ ~halted
  /\ at = from
  /\ at' = to
  /\ in_window' = IF at \in {"publish", "arm"} THEN in_window ELSE 0
  /\ UNCHANGED << halted, heard, arp_cache, cut >>

-----------------------------------------------------------------------------
(* tcp_send_segment calls ipv4_send with a segment of its own.              *)
SendSegment ==
  /\ Step("idle", "ip_header")
  /\ job' = "segment"
  /\ disturbed' = {}
  /\ UNCHANGED << packet, dest_mac, old_cur, buffers, nic, dns, asked, spoken, transmitted >>

(* dns_resolve, in the order of its first lines.                            *)
NotEmptied == resolved_ip
Emptied == 0

DnsReset ==
  /\ dns_query_id < MAX_QUERIES
  /\ Step("idle", "dns_id")
  /\ resolved_ip' = Emptied
  /\ dns_response_received' = FALSE
  /\ job' = "query"
  /\ stale' = FALSE
  /\ UNCHANGED << packet, dest_mac, old_cur, buffers, nic, dns_query_id,
                  asked, spoken, transmitted, disturbed >>

(* ... then udp_send, whose buffer nobody else uses.                        *)
DnsNextId ==
  /\ Step("dns_id", "ip_header")
  /\ dns_query_id' = dns_query_id + 1
  /\ disturbed' = {}
  /\ UNCHANGED << job, packet, dest_mac, old_cur, buffers, nic, resolved_ip,
                  dns_response_received, stale, asked, spoken, transmitted >>

(* ipv4_send: the header and the payload go into ipv4_tx_buf ...            *)
IpHeader ==
  /\ Step("ip_header", "ip_data")
  /\ ipv4_tx_buf' = [ipv4_tx_buf EXCEPT !.header = job]
  /\ UNCHANGED << job, packet, dest_mac, old_cur, eth_tx_buf, tx_buffer, nic, dns,
                  asked, spoken, transmitted, disturbed >>

IpData ==
  /\ Step("ip_data", "resolve")
  /\ ipv4_tx_buf' = [ipv4_tx_buf EXCEPT !.data = job]
  /\ UNCHANGED << job, packet, dest_mac, old_cur, eth_tx_buf, tx_buffer, nic, dns,
                  asked, spoken, transmitted, disturbed >>

(* ... before arp_resolve looks for the gateway and may have to ask.        *)
Resolve ==
  /\ Step("resolve", "eth_header")
  /\ IF Known(Gateway)
       THEN packet' = job /\ dest_mac' = MacOf(Gateway)
       ELSE packet' = "request" /\ dest_mac' = Broadcast
  /\ UNCHANGED << job, old_cur, buffers, nic, dns, asked, spoken, transmitted, disturbed >>

(* eth_send.                                                                *)
WriteEthHeader ==
  /\ Step("eth_header", "eth_data")
  /\ eth_tx_buf' = [eth_tx_buf EXCEPT !.header = EthHeader(packet, dest_mac)]
  /\ transmitted' = FALSE
  /\ disturbed' = disturbed \ {"frame"}
  /\ UNCHANGED << job, packet, dest_mac, old_cur, ipv4_tx_buf, tx_buffer, nic, dns,
                  asked, spoken >>

OneBuffer == eth_tx_buf.data
Payload == IF packet = "request" THEN Whole("request") ELSE ipv4_tx_buf

WriteEthData ==
  /\ Step("eth_data", "copy")
  /\ eth_tx_buf' = [eth_tx_buf EXCEPT !.data = Payload]
  /\ UNCHANGED << job, packet, dest_mac, old_cur, ipv4_tx_buf, tx_buffer, nic, dns,
                  asked, spoken, transmitted, disturbed >>

(* e1000_send.  The compiler reads tx_cur once, behind the copy.  The code  *)
(* clears the status before it stores tx_cur, here it is the other way      *)
(* round: what net_poll sends between the two disturbs the frame, and then  *)
(* nothing is said about its status.                                        *)
CopyFrame ==
  /\ Step("copy", "fill")
  /\ tx_buffer' = eth_tx_buf
  /\ UNCHANGED << job, packet, dest_mac, old_cur, ipv4_tx_buf, eth_tx_buf, nic, dns,
                  asked, spoken, transmitted, disturbed >>

FillDescriptor ==
  /\ Step("fill", "publish")
  /\ old_cur' = tx_cur
  /\ descs' = [descs EXCEPT ![tx_cur] = LengthOf[packet]]
  /\ UNCHANGED << job, packet, dest_mac, buffers, dd, tx_cur, tdt, dns, asked, spoken,
                  transmitted, disturbed >>

PublishIndex ==
  /\ Step("publish", "arm")
  /\ tx_cur' = Next1(old_cur)
  /\ UNCHANGED << job, packet, dest_mac, old_cur, buffers, descs, dd, tdt, dns, asked, spoken,
                  transmitted, disturbed >>

ClearStatus ==
  /\ Step("arm", "tail")
  /\ dd' = FALSE
  /\ UNCHANGED << job, packet, dest_mac, old_cur, buffers, descs, tx_cur, tdt, dns, asked, spoken,
                  transmitted, disturbed >>

WriteTail ==
  /\ Step("tail", "finish")
  /\ Transmits(descs, dd, tx_buffer, Next1(old_cur))
  /\ UNCHANGED << job, packet, dest_mac, old_cur, buffers, tx_cur, dns, disturbed >>

(* e1000_send and ipv4_send return; their locals are gone.                  *)
Sent ==
  /\ old_cur' = 0 /\ dd' = FALSE /\ transmitted' = FALSE
  /\ UNCHANGED << buffers, descs, tx_cur, tdt, dns, asked, spoken >>

Back == IF job = "query" THEN "dns_wait" ELSE "idle"

Return ==
  /\ job' = IF job = "query" THEN job ELSE "none"
  /\ packet' = "none" /\ dest_mac' = Broadcast
  /\ disturbed' = {}

(* The wait for DD ends, with or without it; if it was the request's,       *)
(* arp_resolve waits now.                                                   *)
Finish ==
  /\ IF packet = "request"
       THEN /\ Step("finish", "arp_wait")
            /\ UNCHANGED << job, packet, dest_mac, disturbed >>
       ELSE Step("finish", Back) /\ Return
  /\ Sent

ArpFound ==
  /\ Known(Gateway)
  /\ IF job = "none"
       THEN Step("arp_wait", Back) /\ Return
       ELSE /\ Step("arp_wait", "eth_header")
            /\ packet' = job
            /\ dest_mac' = MacOf(Gateway)
            /\ UNCHANGED << job, disturbed >>
  /\ UNCHANGED << old_cur, buffers, nic, dns, asked, spoken, transmitted >>

ArpTimeout ==
  /\ ~Known(Gateway)
  /\ Step("arp_wait", Back) /\ Return
  /\ UNCHANGED << old_cur, buffers, nic, dns, asked, spoken, transmitted >>

(* dns_resolve returns resolved_ip, or 0 when it has waited long enough.    *)
DnsReturns ==
  /\ Step("dns_wait", "idle")
  /\ job' = "none"
  /\ stale' = FALSE
  /\ UNCHANGED << packet, dest_mac, old_cur, buffers, nic, dns_query_id, resolved_ip,
                  dns_response_received, asked, spoken, transmitted, disturbed >>

KernelTask ==
  \/ SendSegment \/ DnsReset \/ DnsNextId \/ IpHeader \/ IpData \/ Resolve
  \/ WriteEthHeader \/ WriteEthData \/ CopyFrame \/ FillDescriptor
  \/ PublishIndex \/ ClearStatus \/ WriteTail \/ Finish
  \/ ArpFound \/ ArpTimeout \/ DnsReturns

-----------------------------------------------------------------------------
(* net_poll, from the interrupt to its end.  Before the background tasks    *)
(* run it is called in arp_resolve's loop only.                             *)
Polls ==
  /\ ~halted
  /\ job = "none" => at \in {"arp_wait", "idle"}
  /\ UNCHANGED << at, job, packet, dest_mac, old_cur >>

(* The buffers the interrupted step still needs.                            *)
IpInUse == job \in Jobs /\
  (at \in {"ip_data", "resolve", "arp_wait", "eth_header", "eth_data"}
     \/ packet = "request")
FrameInUse == at \in {"eth_data", "copy", "fill", "publish", "arm", "tail"}

StaleIndex == old_cur
Index == tx_cur

(* eth_send and e1000_send in one step: header, payload, copy, descriptor,  *)
(* tail.                                                                    *)
SendFromPoll(p, mac) ==
  /\ in_window < MAX_IN_WINDOW
  /\ in_window' = in_window + 1
  /\ ipv4_tx_buf' = IF IsArp(p) THEN ipv4_tx_buf ELSE Whole(p)
  /\ eth_tx_buf' = Two(EthHeader(p, mac), Whole(p))
  /\ tx_buffer' = eth_tx_buf'
  /\ tx_cur' = Next1(Index)
  /\ Transmits([descs EXCEPT ![Index] = LengthOf[p]], dd /\ Index # old_cur,
               tx_buffer', tx_cur')
  /\ cut' = (cut \/ Frame(p, mac) \notin OnWire(
                 descs', tx_buffer', tx_cur'))
  /\ disturbed' = disturbed \cup (IF IpInUse /\ ~IsArp(p) THEN {"ip"} ELSE {})
                            \cup (IF FrameInUse THEN {"frame"} ELSE {})

Silent ==
  UNCHANGED << buffers, nic, cut, transmitted, asked, spoken, disturbed, in_window >>

(* arp_receive: always learns, answers a request for our address.           *)
PollArp ==
  /\ Polls
  /\ \E ip \in Hosts : \E mac \in Announces[ip] :
       /\ arp_cache' = [arp_cache EXCEPT ![Place(ip)] = [ip |-> ip, mac |-> mac]]
       /\ heard' = [heard EXCEPT ![ip] = mac]
       /\ Silent \/ SendFromPoll("reply", mac)
  /\ UNCHANGED << dns, halted >>

(* A segment of the server is acknowledged.  If the gateway is no longer in *)
(* the cache, arp_resolve asks for it and waits by hlt for ever.            *)
PollSegment ==
  /\ Polls
  /\ spoken
  /\ IF Known(Gateway)
       THEN SendFromPoll("ack", MacOf(Gateway)) /\ UNCHANGED halted
       ELSE SendFromPoll("request", Broadcast) /\ halted' = TRUE
  /\ UNCHANGED << arp_cache, heard, dns >>

IsOurs(id) == id = dns_query_id

(* dns_udp_handler: an answer with an address, or one without.  It may come *)
(* late and more than once.                                                 *)
PollAnswer ==
  /\ Polls
  /\ \E id \in asked :
       /\ IsOurs(id)
       /\ dns_response_received' = TRUE
       /\ resolved_ip' \in {id, resolved_ip}
       /\ stale' = (stale \/ at = "dns_id")
  /\ Silent
  /\ UNCHANGED << arp_cache, heard, halted, dns_query_id >>

NetPoll == PollArp \/ PollSegment \/ PollAnswer

Next == KernelTask \/ NetPoll

Spec == Init /\ [][Next]_vars

-----------------------------------------------------------------------------
Content == Packets \cup {"none"}

TypeOK ==
  /\ at \in Steps /\ job \in Jobs \cup {"none"} /\ packet \in Packets \cup {"none"}
  /\ dest_mac \in Macs \cup {Broadcast}
  /\ ipv4_tx_buf \in [header : Content, data : Content]
  /\ tx_buffer.data \in [header : Content, data : Content]
  /\ eth_tx_buf.data \in [header : Content, data : Content]
  /\ descs \in [Ring -> 0 .. 2] /\ dd \in BOOLEAN
  /\ tx_cur \in Ring /\ old_cur \in Ring /\ tdt \in Ring
  /\ arp_cache \in [Entries -> [ip : Hosts \cup {Nobody}, mac : Macs \cup {Broadcast}]]
  /\ dns_query_id \in 0 .. MAX_QUERIES
  /\ resolved_ip \in 0 .. MAX_QUERIES
  /\ dns_response_received \in BOOLEAN /\ halted \in BOOLEAN

(* A packet of the kernel task goes out whole and e1000_send sees it done,  *)
(* unless net_poll has sent something through a buffer while it was in use: *)
(* what it sends while arp_resolve waits does no harm unless it is an IPv4  *)
(* packet, and a ring an earlier race has left behind is no obstacle.       *)
SentUnlessOverwritten ==
  at = "finish" /\ disturbed \cap {"frame", IF packet = "request" THEN "frame" ELSE "ip"} = {}
    => transmitted /\ dd

(* What net_poll sends goes out whole, wherever it has interrupted the      *)
(* kernel task's use of the same buffers and of the same descriptor.        *)
PollSends == ~cut

(* The cache has one entry for a host, with the address it announced last.  *)
CacheIsCurrent ==
  \A i, j \in Entries :
    arp_cache[i].ip # Nobody =>
      /\ arp_cache[i].mac = heard[arp_cache[i].ip]
      /\ arp_cache[i].ip = arp_cache[j].ip => i = j

(* net_poll never has to wait for an address, which would stop the machine, *)
(* as long as no more hosts have been heard of than the cache has entries.  *)
NoWaitInPoll ==
  halted => Cardinality({h \in Hosts : heard[h] # Broadcast}) > ARP_CACHE_SIZE

(* dns_resolve returns the answer to its own question or 0; except that an  *)
(* answer to the question before may come between its first lines.          *)
AnswerBelongs ==
  at = "dns_wait" /\ dns_response_received /\ ~stale
    => resolved_ip \in {0, dns_query_id}
=============================================================================

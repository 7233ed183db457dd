------------------------------ MODULE SigPacket ------------------------------
(***************************************************************************)
(* One sig_parser's way with its packets (sp_packets_loop in sig_parse.c,  *)
(* sp_process_packet_mpipe and sp_get_l5_proto in sig_packet.c): a batch   *)
(* of descriptors is peeked from the mPIPE ring, and each packet goes      *)
(* through layers 2 to 5 until something disposes of it.  Two things are   *)
(* due for each: its buffer is given back once (drop) or goes to somebody  *)
(* else, and the ring's head moves past it once (consume).  The head moves *)
(* by one for each call, whatever descriptor it is called with.            *)
(*                                                                         *)
(* The chains of fragments are shared by all parsers.  Here the others are *)
(* an environment that puts a fragment into a chain or takes one out of it *)
(* between two steps; FragPool models the lists and their mutex.           *)
(***************************************************************************)
EXTENDS Naturals, Sequences, FiniteSets, IpTable

CONSTANTS
    Packets,    \* the packets that may arrive
    Chains,     \* chains of the fragment pool
    Configs,    \* the configurations
    RingSize,   \* entries of the mPIPE ring
    MaxPackets, \* bound on the packets that arrive
    MaxTurns,   \* bound on the times one entry is processed
    Nothing     \* an empty chain, no packet

\* What the layers find out about a packet, in their order.  "tag" is the label of a load
\* balancer, "gb" whether sp_process_gb succeeds.
Packet == [idesc : {"ok", "error", "no_data"}, l2 : {"ip", "other"}, l3 : {"ok", "bad"},
           frag : {"none", "more", "last"}, chain : Chains, id : Nat,
           l4 : {"tcp", "udp", "udp_short", "sctp", "other"}, port : {"gtpu", "gtpc", "gb"},
           dst : Nat, src : Nat, tag : Interfaces \cup {"none"}, gb : BOOLEAN]

ASSUME PacketAssumption ==
    /\ Packets \subseteq Packet /\ Nothing \notin Packets /\ Nothing \notin Nat
    /\ Configs \subseteq [lb : BOOLEAN, files : [Interfaces -> Seq(Lines)]]
    /\ RingSize \in Nat \ {0} /\ MaxPackets \in Nat \ {0} /\ MaxTurns \in Nat

\* A buffer is named after the place of its packet in the ring; 0 is another parser's.
Entries == 1..MaxPackets
Buffers == 0..MaxPackets

VARIABLES
    conf, table,        \* g_device_config.is_lb_exist and the files, g_proto_ips
    packet,             \* what has arrived, and the other parser's fragment
    tail, head,         \* of the ring: packets so far, the next to be peeked
    phase,              \* where the loop stands
    entry, last,        \* the descriptor being processed, the last one of its batch
    desc,               \* the buffer pdesc refers to
    merged,             \* frag_flag = FRAG_FLAG_PROCESS
    interface,          \* what sp_get_l5_proto found
    pool,               \* per chain: the buffer of its one node in use
    turns,              \* per buffer: how often its processing has begun
    given, handed,      \* per buffer: how often it was given back, left to somebody else
    kept                \* packets that moved no head

ringVars == <<packet, tail, head>>
loopVars == <<phase, entry, last>>
fateVars == <<pool, given, handed, kept>>
vars == <<conf, table, ringVars, loopVars, desc, merged, interface, turns, fateVars>>

Init ==
    /\ conf \in Configs
    /\ table = read_ips_config(conf.files)
    /\ packet = [b \in Buffers |-> Nothing]
    /\ tail = 0 /\ head = 1
    /\ phase = "top" /\ entry = 1 /\ last = 0
    /\ desc = 1 /\ merged = FALSE /\ interface = "none"
    /\ pool = [c \in Chains |-> Nothing]
    /\ turns = [b \in Buffers |-> 0]
    /\ given = [b \in Buffers |-> 0] /\ handed = [b \in Buffers |-> 0]
    /\ kept = 0

-----------------------------------------------------------------------------
(* Ring and buffers.                                                       *)

\* A packet arrives; the hardware leaves entries alone that were not consumed.
Arrive(p) ==
    /\ tail < MaxPackets /\ tail < head - 1 + RingSize
    /\ tail' = tail + 1
    /\ packet' = [packet EXCEPT ![tail + 1] = p]
    /\ UNCHANGED <<conf, table, head, loopVars, desc, merged, interface, turns, fateVars>>

Count(f, b) == [f EXCEPT ![b] = @ + 1]

\* gxio_mpipe_iqueue_drop
Drop(b) == given' = Count(given, b)

\* gxio_mpipe_iqueue_consume
Consume == head' = head + 1

\* Mutant: this packet's buffer is forgotten.
DoneWithKeeping(b) == Consume /\ UNCHANGED given

DoneWith(b) == Drop(b) /\ Consume

\* The loop goes on with the next descriptor of the batch, or peeks again.
NextEntry ==
    /\ phase' = IF entry = last THEN "top" ELSE "next"
    /\ entry' = entry + 1
    /\ merged' = FALSE /\ interface' = "none"
    /\ UNCHANGED last

\* Mutant: the head moves for a merged packet as well, whose own entry is gone already.
ConsumeAlways == Consume

\* A merged packet has had its entry consumed.
ConsumeUnlessMerged == IF merged THEN UNCHANGED head ELSE Consume

\* Every refusal of a layer ends like this.
Discard ==
    /\ Drop(desc) /\ ConsumeUnlessMerged
    /\ NextEntry
    /\ UNCHANGED <<conf, table, packet, tail, desc, turns, pool, handed, kept>>

Goto(p) ==
    /\ phase' = p
    /\ UNCHANGED <<conf, table, ringVars, entry, last, desc, merged, interface, turns, fateVars>>

-----------------------------------------------------------------------------
(* sp_packets_loop                                                         *)

\* Descriptors that lie behind each other from the head on.
Available ==
    LET lap == ((head - 1) \div RingSize + 1) * RingSize
    IN  (IF tail < lap THEN tail ELSE lap) - head + 1

\* gxio_mpipe_iqueue_try_peek shows all of them.  Before them the timeout may empty chains.
Peek ==
    /\ phase = "top" /\ head <= tail
    /\ \A b \in Entries : turns[b] < MaxTurns
    /\ entry' = head /\ last' = head + Available - 1
    /\ phase' = "next"
    /\ \E old \in SUBSET {c \in Chains : pool[c] # Nothing} :
          /\ pool' = [c \in Chains |-> IF c \in old THEN Nothing ELSE pool[c]]
          /\ given' = [b \in Buffers |-> given[b] + (IF b \in {pool[c] : c \in old} THEN 1 ELSE 0)]
    /\ UNCHANGED <<conf, table, ringVars, desc, merged, interface, turns, handed, kept>>

\* The loop ends between two batches, on g_process_exit or an error of the ring.
Stop == phase = "top" /\ Goto("stopped")

Here == packet[entry]

\* The next descriptor; one that is marked bad by the hardware is discarded in the loop.
Begin ==
    /\ phase = "next"
    /\ turns' = Count(turns, entry)
    /\ desc' = entry
    /\ IF Here.idesc = "error"
       THEN DoneWith(entry) /\ NextEntry
       ELSE phase' = "l2" /\ UNCHANGED <<head, given, entry, last, merged, interface>>
    /\ UNCHANGED <<conf, table, packet, tail, pool, handed, kept>>

-----------------------------------------------------------------------------
(* sp_process_packet_mpipe                                                 *)

\* No address of the data, or no IP behind the Ethernet header and one VLAN tag.
process_l2_layer ==
    /\ phase = "l2"
    /\ IF Here.idesc = "no_data" \/ Here.l2 = "other" THEN Discard ELSE Goto("l3")

InL3(kinds) == phase = "l3" /\ Here.l3 = "ok" /\ Here.frag \in kinds

BadIpHeader == phase = "l3" /\ Here.l3 = "bad" /\ Discard

WholeDatagram == InL3({"none"}) /\ Goto("l4")

\* The chain of a fragment, and whether the node in use is that of its datagram.
InUse == pool[Here.chain] # Nothing
SameDatagram == packet[pool[Here.chain]].id = Here.id

\* The first half to come waits in the pool: the entry is consumed, the buffer is kept.
CacheFragment ==
    /\ InL3({"more", "last"}) /\ ~InUse
    /\ pool' = [pool EXCEPT ![Here.chain] = entry]
    /\ Consume
    /\ NextEntry
    /\ UNCHANGED <<conf, table, packet, tail, desc, turns, given, handed, kept>>

\* The parsers hold all nodes but one: no node for this fragment.
NoNode == InL3({"more", "last"}) /\ ~InUse /\ Discard

\* The lookup does not get past a node of another datagram (FragPool: FindSpin).
LookupHangs == InL3({"more", "last"}) /\ InUse /\ ~SameDatagram /\ Goto("hung")

\* The half in hand holds the header: the cached node is cleared and then its descriptor
\* dropped, with no queue to drop it from (FragPool: DropCrash).  FragPool also has the case
\* that another parser takes the node in between.
MergeIntoThis == InL3({"more"}) /\ InUse /\ SameDatagram /\ Goto("dead")

\* The cached half holds the header: this packet is done with, and the cached buffer goes on.
MergeIntoCached ==
    /\ InL3({"last"}) /\ InUse /\ SameDatagram
    /\ DoneWith(entry)
    /\ desc' = pool[Here.chain]
    /\ pool' = [pool EXCEPT ![Here.chain] = Nothing]
    /\ merged' = TRUE
    /\ phase' = "l4"
    /\ UNCHANGED <<conf, table, packet, tail, entry, last, interface, turns, handed, kept>>

\* The packet that pdesc refers to.
Current == packet[desc]

\* Only UDP goes on.  SCTP is looked at and discarded all the same.
LayerFour ==
    /\ phase = "l4"
    /\ IF Current.l4 = "udp" THEN Goto("l5") ELSE Discard

\* Does a packet come in by a port that is configured for an interface?  The channel is
\* compared with the address of the array of channels, and never equal to it.
PortTells(p, name) == FALSE

\* The order in which ports are asked, for user and for control traffic.
PortOrder == [gtpu |-> <<"iups", "s1u", "gn", "s5">>, gtpc |-> <<"s10", "s11", "s5", "gn">>]

\* The interface of a UDP packet: by its label, its port, its arrival port, its addresses.
InterfaceOf(p) ==
    LET asked == PortOrder[p.port]
        told == SelectInSeq(asked, LAMBDA name : PortTells(p, name))
    IN  IF conf.lb THEN p.tag
        ELSE IF p.port = "gb" THEN "gb"
        ELSE IF told > 0 THEN asked[told]
        ELSE ByAddress(table, p.dst, p.src, IF p.port = "gtpu" THEN "iups" ELSE "gn")

sp_get_l5_proto ==
    /\ phase = "l5"
    /\ interface' = InterfaceOf(Current)
    /\ phase' = "dispatch"
    /\ UNCHANGED <<conf, table, ringVars, entry, last, desc, merged, turns, fateVars>>

\* Interfaces whose packets are left as they are, for a part that is not written yet.
LeftAlone == {"iups", "s1mme", "s1u"}

\* A Gb packet that was decoded, or one that is left alone: neither dropped nor consumed.
KeepPacket ==
    /\ phase = "dispatch"
    /\ interface \in LeftAlone \/ (interface = "gb" /\ Current.gb)
    /\ handed' = Count(handed, desc)
    /\ kept' = IF merged THEN kept ELSE kept + 1
    /\ NextEntry
    /\ UNCHANGED <<conf, table, ringVars, desc, turns, pool, given>>

\* A Gb packet that was not, or an interface that nothing is done for.
DiscardAtLast ==
    /\ phase = "dispatch"
    /\ interface \notin LeftAlone /\ ~(interface = "gb" /\ Current.gb)
    /\ Discard

-----------------------------------------------------------------------------
(* The other parsers.                                                      *)

\* One of them caches a fragment of its own; "0" is bounded to one.
OthersPut(p) ==
    /\ p.frag # "none" /\ p.idesc = "ok" /\ p.l2 = "ip" /\ p.l3 = "ok"
    /\ packet[0] = Nothing /\ pool[p.chain] = Nothing
    /\ packet' = [packet EXCEPT ![0] = p]
    /\ pool' = [pool EXCEPT ![p.chain] = 0]
    /\ turns' = Count(turns, 0)
    /\ UNCHANGED <<conf, table, tail, head, loopVars, desc, merged, interface, given, handed, kept>>

\* One of them has the other half, and takes over what waits here.
OthersTake(c) ==
    /\ pool[c] # Nothing
    /\ pool' = [pool EXCEPT ![c] = Nothing]
    /\ handed' = Count(handed, pool[c])
    /\ UNCHANGED <<conf, table, ringVars, loopVars, desc, merged, interface, turns, given, kept>>

Step ==
    \/ Peek \/ Begin \/ process_l2_layer
    \/ BadIpHeader \/ WholeDatagram \/ CacheFragment \/ NoNode
    \/ LookupHangs \/ MergeIntoThis \/ MergeIntoCached
    \/ LayerFour \/ sp_get_l5_proto \/ KeepPacket \/ DiscardAtLast

Others == (\E p \in Packets : OthersPut(p)) \/ (\E c \in Chains : OthersTake(c))

Next == (\E p \in Packets : Arrive(p)) \/ Step \/ Stop \/ Others

\* The process runs; packets, the others and the end may come or not.
Spec == Init /\ [][Next]_vars /\ WF_vars(Step)

-----------------------------------------------------------------------------
(* Properties.                                                             *)

\* Every variable has its type.
TypeOK ==
    /\ conf \in Configs
    /\ packet \in [Buffers -> Packets \cup {Nothing}]
    /\ tail \in 0..MaxPackets /\ head \in 1..(tail + 1)
    /\ phase \in {"top", "next", "l2", "l3", "l4", "l5", "dispatch", "stopped", "hung", "dead"}
    /\ entry \in Nat \ {0} /\ last \in 0..MaxPackets
    /\ desc \in Buffers /\ merged \in BOOLEAN
    /\ interface \in Interfaces \cup {"none"}
    /\ pool \in [Chains -> Buffers \cup {Nothing}]
    /\ turns \in [Buffers -> Nat] /\ given \in [Buffers -> Nat] /\ handed \in [Buffers -> Nat]
    /\ kept \in Nat

\* Between two packets.
AtRest == phase \in {"top", "next", "stopped"}

Waiting(b) == Cardinality({c \in Chains : pool[c] = b})

\* However often a buffer's packet is processed: each time the buffer is given back, left to
\* somebody else or put into the pool, and only one of these.
Disposed == AtRest => \A b \in Buffers : turns[b] = given[b] + handed[b] + Waiting(b)

\* The head is in step: what lies before it was processed once, what lies behind it not yet.
\* A packet that is left alone moves no head, and ends that.
InStep == AtRest /\ kept = 0 => \A b \in Entries : turns[b] = IF b < head THEN 1 ELSE 0

\* The interface of GTP traffic is that of the first file that lists its destination, or else
\* its source, as long as all lines of the files fit into the table.
TableTells ==
    phase = "dispatch" /\ ~conf.lb /\ Current.port # "gb" /\ AllFit(conf.files)
        => interface = ByFiles(conf.files, Current.dst, Current.src,
                               IF Current.port = "gtpu" THEN "iups" ELSE "gn")

\* Whatever has arrived is processed sooner or later, unless a packet was left alone, or the
\* process has ended or hangs.
PacketsProcessed ==
    []<>((\A b \in 1..tail : turns[b] > 0) \/ kept > 0 \/ phase \in {"stopped", "dead", "hung"})
=============================================================================

---------------------------- MODULE QueueWiring ----------------------------
(***************************************************************************)
(* Which process works on which queue.  Every kind of queue is one array   *)
(* in shared memory, made by init_..._share_queues for all pairs of a      *)
(* producer and a consumer.  Each process computes, on its own and from    *)
(* the configuration, which entries are its own: the sig_parser in         *)
(* alloc_all_queues, the others in the macros INIT_..._QUEUE.  A consumer  *)
(* then polls its entries in turn, with an index of eight bits.            *)
(*                                                                         *)
(* ShmQueue is right for one producer and one consumer per queue.  Nothing *)
(* in the code enforces that: it holds when the formulas of both sides fit *)
(* together.  Here the processes start in any order for every size of the  *)
(* configuration up to the bounds, produce and poll.  A queue holds an     *)
(* item or not; how it holds it is the matter of ShmQueue.                 *)
(***************************************************************************)
EXTENDS Naturals

CONSTANTS
    Kinds,      \* the kinds of queue looked at
    MaxWorkers, \* bound: processes of a type, and DPI devices
    MaxQueues,  \* bound: length of an array
    Wrap        \* values of the polling index (sb_u8: 256)

AllKinds == {"sp_packet", "sp_user", "sp_xdr", "dp_xdr", "dp_user"}

ASSUME KindsAssumption == Kinds \subseteq AllKinds
ASSUME WiringAssumption ==
    MaxWorkers \in Nat \ {0} /\ MaxQueues \in Nat \ {0} /\ Wrap \in Nat \ {0}

VARIABLES
    conf,       \* g_adv_config, g_device_config: numbers of processes
    kind,       \* the kind of queue this behaviour is about
    writers,    \* orders of the producers that have started
    readers,    \* orders of the consumers that have started
    filled,     \* indices of the queues that hold an item
    turn        \* per consumer: queue_idx

wiring == <<conf, kind, writers, readers, filled, turn>>

Sizes == [sig_parser_cpus : 1 .. MaxWorkers, data_parser_cpus : 1 .. MaxWorkers,
           xdr_sender_cpus : 1 .. MaxWorkers, dpi_dev_num : 1 .. MaxWorkers]

NR_SP == conf.sig_parser_cpus
NR_DATA == conf.data_parser_cpus
NR_XDR == conf.xdr_sender_cpus
NR_DPI == conf.dpi_dev_num

IsSp == kind \in {"sp_packet", "sp_user", "sp_xdr"}
IsXdr == kind \in {"sp_xdr", "dp_xdr"}

\* Producers, and the number of queues each of them chooses from.
NumWriters == IF IsSp THEN NR_SP ELSE NR_DATA

Fan == IF IsXdr THEN NR_XDR ELSE IF IsSp THEN NR_DATA ELSE NR_DPI

\* Consumers, and the number of queues each of them polls.
NumReaders == IF IsXdr THEN NR_XDR ELSE IF IsSp THEN NR_DATA ELSE 1

Polled == IF IsSp THEN NR_SP ELSE NR_DATA

\* num: the length of the array.
Num == NumWriters * Fan

-----------------------------------------------------------------------------

\* Mutants: the producer's order is forgotten; all arrays are laid out by
\* producer.
WriterIndexShared(p, i) == IF IsSp THEN i * NR_SP ELSE p * Fan + i
WriterIndexByWriter(p, i) == p * Fan + i

\* The i-th queue of producer p.
WriterIndex(p, i) == IF IsSp THEN i * NR_SP + p ELSE p * Fan + i

\* Mutant: the sp_packet base is made like the sp_user one.
ReaderBaseByData(c) ==
    c * (IF kind \in {"sp_packet", "sp_xdr"} THEN NR_DATA ELSE Polled)

\* Where the queues of consumer c begin.
ReaderBase(c) == c * (IF kind = "sp_user" THEN NR_DATA ELSE Polled)

ReaderIndex(c, t) == ReaderBase(c) + (t % Polled)

WritesOf(p) == {WriterIndex(p, i) : i \in 0 .. Fan - 1}
ReadsOf(c) == {ReaderIndex(c, t) : t \in 0 .. Wrap - 1}

\* Numbers that this kind of queue does not depend on are 1.
WiringInit ==
    /\ kind \in Kinds
    /\ conf \in Sizes
    /\ Num <= MaxQueues
    /\ ~IsXdr => NR_XDR = 1
    /\ kind # "dp_user" => NR_DPI = 1
    /\ kind = "sp_xdr" => NR_DATA = 1
    /\ ~IsSp => NR_SP = 1
    /\ writers = {}
    /\ readers = {}
    /\ filled = {}
    /\ turn = [c \in 0 .. NumReaders - 1 |-> 0]

StartWriter(p) ==
    /\ p \notin writers
    /\ writers' = writers \cup {p}
    /\ UNCHANGED <<conf, kind, readers, filled, turn>>

StartReader(c) ==
    /\ c \notin readers
    /\ readers' = readers \cup {c}
    /\ UNCHANGED <<conf, kind, writers, filled, turn>>

\* The sig_parser chooses by user_id, or in turn; the data_parser takes the
\* first queue that has room.  A full queue stays as it is.
Put(p, i) ==
    /\ p \in writers
    /\ ~IsSp => \A j \in 0 .. i - 1 : WriterIndex(p, j) \in filled
    /\ filled' = filled \cup {WriterIndex(p, i)}
    /\ UNCHANGED <<conf, kind, writers, readers, turn>>

\* Mutant: a queue that holds nothing is polled again.
NextTurnStuck(c) ==
    IF ReaderIndex(c, turn[c]) \in filled THEN (turn[c] + 1) % Wrap ELSE turn[c]

NextTurn(c) == (turn[c] + 1) % Wrap

\* One round of process_..._queue or xdr_send_..._queue.
Poll(c) ==
    /\ c \in readers
    /\ filled' = filled \ {ReaderIndex(c, turn[c])}
    /\ turn' = [turn EXCEPT ![c] = NextTurn(c)]
    /\ UNCHANGED <<conf, kind, writers, readers>>

WiringNext ==
    \/ \E p \in 0 .. NumWriters - 1 :
          StartWriter(p) \/ \E i \in 0 .. Fan - 1 : Put(p, i)
    \/ \E c \in 0 .. NumReaders - 1 : StartReader(c) \/ Poll(c)

WiringSpec == WiringInit /\ [][WiringNext]_wiring

\* The supervisor starts every consumer, and a consumer polls in an endless
\* loop.  No producer has to produce.
FairWiring ==
    /\ WiringSpec
    /\ \A c \in 0 .. MaxWorkers - 1 :
          /\ WF_wiring(c < NumReaders /\ StartReader(c))
          /\ WF_wiring(c < NumReaders /\ Poll(c))

-----------------------------------------------------------------------------
(* Properties.                                                             *)

WiringTypeOK ==
    /\ conf \in Sizes
    /\ kind \in Kinds
    /\ writers \subseteq 0 .. NumWriters - 1
    /\ readers \subseteq 0 .. NumReaders - 1
    /\ filled \subseteq 0 .. Num - 1
    /\ turn \in [0 .. NumReaders - 1 -> 0 .. Wrap - 1]

\* Both sides stay within the array, whatever the numbers of processes: a
\* base computed with the other side's number walks out of the shared memory.
InBounds ==
    /\ \A p \in writers : WritesOf(p) \subseteq 0 .. Num - 1
    /\ \A c \in readers : ReadsOf(c) \subseteq 0 .. Num - 1

\* What the lock-free queue needs ("注意是无锁结构", base_lib_queue.c:363):
\* no queue has two producers or two consumers.
OnePerSide ==
    /\ \A p, r \in writers : p # r => WritesOf(p) \cap WritesOf(r) = {}
    /\ \A c, d \in readers : c # d => ReadsOf(c) \cap ReadsOf(d) = {}

\* The data_parser with order i reads what was put in a sig_parser's i-th
\* queue: user_id % num, which picks the queue, picks the data_parser, and all
\* traffic of a user ends up in one process (add_to_pack_queue).
ChosenReaderReads ==
    kind = "sp_packet" =>
        \A p \in writers, c \in readers : WriterIndex(p, c) \in ReadsOf(c)

\* No queue starves: what is in a queue is taken out, also when the eight-bit
\* index wraps at a number that is no multiple of the number of queues.
EveryQueueServed ==
    \A q \in 0 .. MaxQueues - 1 : q \in filled ~> q \notin filled
=============================================================================

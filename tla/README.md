# SigBee: a verification project

TLA+ models of SigBee, a set of cooperating processes on a Tilera TILE-Gx card
that captures Gb-interface traffic with the mPIPE engine, decodes the signalling,
relates user packets to users, and sends records (XDR) to outside receivers.
The models are translated from the C source under `src/`; paths below are
relative to it, in the form `file:line`.

The source as committed does not compile as a whole, and some loops are written
but switched off (`data_parser_main` sleeps at data_parser.c:115-117 instead of
calling `process_queues`, the ui_sender's loop sleeps at ui_sender.c:86-88,
`xdr_send_data_queue` is commented out at xdr_sender.c:168-174). The models describe
the functions as they are written, and say where one is not called.

## 1. Inventory

| component | state | operations | source |
|---|---|---|---|
| shared queues | ring of slots, `head`, `tail`, totals `push_index`, `pop_index`, statistics | create, put, poll, process in place, release | base_lib_queue.c, include/sb_shared_queue.h, sig_packet.c:899, sig_user.c:202, sig_xdr.c:82, data_parser.c:196-300 and 748, xdr_sender.c:94, ui_sender.c:98 |
| queue wiring | which indices of each array a process uses, the polled index | start of a process, choice of a queue, poll | sig_parse.c:295-417, the `INIT_..._QUEUE` macros |
| IP fragment pool | per chain a used and a free list, their counters, a mutex, the nodes' contents | init, get, find, put, timeout walk; their use in `process_ip_layer` | sig_fragment.c, sig_packet.c:121-317 |
| process lifecycle | named semaphore, processes, `*g_process_exit`, pending signals | start, init, fork, poll, signal handler, wait, exit handlers, crash | init/main.c, init/sb_process.c, base_lib_process.c |
| sig_parser packet path | iqueue, one packet's layers, ownership of its buffer, the table of addresses | peek, layer 2 to 5 dispatch, fragments, interface by port and address, drop, consume | sig_packet.c, sig_parse.c |
| Gb decoding | one record `g_gb_info` for all messages | NS, BSSGP, LLC heads, sixteen GMM and SM handlers, radio capability | sig_gb*.c |
| user, tlli and XDR ids | the next id, tables | allocate an id, look up | sig_user.c, sig_xdr.c |
| data_parser loop | two groups of queues polled in one loop | poll user queue, poll packet queue, parse | data_parser.c:196-508 |
| reassembly and sessions | SNDCP segments, IP fragments, TCP and UDP sessions in hash tables | insert, merge, timeout, state change | dp_sndcp.c, dp_tup.c, data_parser.c:518-745 |
| xdr_sender, ui_sender sockets | file descriptor, connected or not | connect, send, reconnect, receive | xdr_socket.c, ui_socket.c |
| logging | log queue (a library's), files | write, rotate | logd/*.c |
| configuration | arrays of ports, devices and rules, scalar settings, the table of addresses | read a file line by line, once at start | read_config.c, parts of base_lib_util.c |
| mPIPE set-up, utilities, test receivers | set once at start, or stateless | | base_lib_mpipe.c, ... |

**How they interact.** The supervisor (`main`) creates the shared memory and forks
the others: logd, sig_parsers, data_parsers, xdr_senders, ui_sender. After that the
processes meet in three places only: the shared queues (signalling side to data side
to senders), the fragment chains with their mutexes (sig_parser to sig_parser), and the
flag `*g_process_exit` with signals (everybody to the supervisor and back).

**What is hard.** The queues have no lock and rely on one producer, one consumer
and fences; the roles follow from index arithmetic repeated in every process.
A fragment is found under a mutex and used, filled and put back outside of it.
Ids and hash entries outlive what they point at. Processes end at any instruction,
in any order, by signal, by flag or by a fault. Datagrams, SNDCP segments and
fragments arrive lost, doubled or reordered.

**What makes each part correct.**
* shared queue: it is a bounded FIFO, no slot is written while it is read, an
  accepted item is delivered;
* wiring: each queue has one process on each side, inside the array, and is served;
* fragment pool: two disjoint lists that hold every node, no buffer is lost, a
  lookup ends;
* lifecycle: one instance at a time, memory freed when nobody uses it, a stop ends;
* data_parser loop: a packet finds the information of its user, which is put before it;
* reassembly: a packet is made of all the segments of one N-PDU, in order, and
  made when the last one has come;
* sig_parser packet path: each buffer has one fate for each time its packet is processed,
  the ring's head separates what was processed from what was not, an interface is
  found as the files say;
* Gb decoding: a record holds what its message carried and nothing else, the walks
  over lists of IEs stay inside the message and end, a procedure is reported as over when it is;
* configuration: what is read is what was written, in any order of the lines, inside the arrays;
* sockets: what a receiver reads are whole records, in order and each once.

`PROJECT.json` lists the hazards with their lines, and the properties that cover
them.

## 2. Modules

| module | what | extends / instantiates |
|---|---|---|
| `BoundedFifo` | abstract: a first-in first-out buffer with a capacity | |
| `ShmQueue` | one queue with its two processes on weakly ordered memory | `BoundedFifo` through a refinement mapping |
| `ShmQueueProofs` | type correctness, safety and refinement for every size | `ShmQueue`, TLAPS |
| `QueueWiring` | index formulas and polling of all kinds of queue | |
| `FragPool` | one fragment chain, its parsers and the mPIPE buffers | |
| `FragPoolProofs` | the lists for any number of nodes and parsers | `FragPool`, TLAPS |
| `Lifecycle` | supervisor, workers, signals, crashes | |
| `RecordStream` | abstract: records that go into the streams of connections one after the other, each settled once | |
| `XdrSender` | a sender's socket: send loop, timeout, reconnect, and the stream that arrives | `RecordStream` through a refinement mapping |
| `XdrSenderProofs` | framing, order and refinement for any number and length of records | `XdrSender`, TLAPS |
| `DataParser` | the data_parser's loop, its users, the reassembly of SNDCP segments | |
| `DataParserProofs` | reassembly and order for any packets, users and queues | `DataParser`, TLAPS |
| `IpTable` | the table of addresses as operators: filled from files, searched; its reference | |
| `SigPacket` | one sig_parser's loop from the ring to layer 5, buffers and ring head | `IpTable` |
| `SigPacketProofs` | one fate for each buffer, the head in step, the table of addresses for any files | `SigPacket`, TLAPS |
| `MsRadioCap` | the MS radio capability: encoder, the code's decoding tree, reference | |
| `SigGb` | the decoding of one Gb packet after another | `MsRadioCap` |
| `SigGbProofs` | the walks stay inside the message, the result tells, what is stored is what was sent, the capability too | `SigGb`, TLAPS |
| `IpReasm` | reassembly of IP fragments of one user | |
| `IpReasmProofs` | a datagram handed on is whole, and comes out, for any sizes and fragments | `IpReasm`, TLAPS |
| `Config` | device.ini, adv.ini and ps_filter.ini read line by line | |
| `StartupProofs` | what main sets up: workers, queues and configuration, for any numbers and files | `Lifecycle`, `QueueWiring`, `Config`, TLAPS |
| `MC...` | values for the model checker | the module of that name |

### ShmQueue

A step is one access to shared memory. `head` and `tail` are private to a side and
move with the neighbouring access. The producer's function is `Refuse` or
`Accept` (the test of the totals), `Copy` (the memcpy), `Publish` (`push_index++`);
the consumer's is `Poll`, `Process` (the item is used where it lies), `Release`
(`head` and `pop_index`). TILE-Gx memory is weakly ordered, and cores issue and
complete loads in order: the bytes of a copy may reach memory after a later
store unless `__insn_mf()` comes between. `inflight` holds a copy that is under way and
`Drain` is its arrival; `Fenced` says whether the producer has the fence (the
sig_parser's do, the data_parser's do not). Either process may end at any point.

The totals are natural numbers in the model: they are 64 bits in the code and start at 0.

### QueueWiring

`WriterIndex` and `ReaderBase` are the formulas of the two sides, for each kind of
queue (`kind`). The configuration is chosen in `Init`, so that a run covers every
combination of numbers up to `MaxWorkers` and `MaxQueues`. A queue is full or empty;
`ShmQueue` says why that is enough. Its specification is `WiringSpec`, as `Config`'s is `ConfigSpec`: `StartupProofs`
extends both and `Lifecycle`. The sig_parser's choice among its sp_xdr queues is in turn
in the code and any choice here. `Poll` always frees the queue: the branch that leaves the
head where it is (data_parser.c:271-274) is for a failed allocation, and there
`check_malloc` has ended the process already (base_lib_mem.c:116).

### FragPool

The two lists of a chain are kept as the code keeps them (`next`, `pre`, heads, tails,
counters); NULL is 0. `Find` is one lookup under the mutex: `FindMiss` for an
empty list, `FindHit` when the first node matches, `FindSpin` for what the loop
does otherwise. `Get`, `FillKey`, `FillDesc`, `Merge`, `Put`, `Drop` are the stretches
of `process_ip_layer` between two points where another process may
step in; only `Get` and `Put` hold the mutex. `Expire...` is the timeout walk,
node by node, which holds the mutex all the time while the others fill nodes outside of it.
A store through NULL is a crash of that process, and it keeps the mutex when it held it:
such a process is `"dead"` and the others stop at the mutex. A buffer given
to the later layers is back at once (`Leave`): what those layers do
with it is `SigPacket`. One known fault shows in the states and has no property: after a merge the
node is cleared before its descriptor is read (sig_packet.c:206-210), so that the cached
buffer is not what is dropped (`Drop`, `DropCrash`).

`used` and `newer` are history: the set of nodes in the used list, and the order
in which nodes were linked last. They are never read by an action that models code.

### Lifecycle

The supervisor's steps are the system calls of `main`; a worker's are the stages
of its life. `Told` and `FinalKill` are the two `kill(0, SIGTERM)`. Exit handlers
run in the reverse order of registration: `ReleaseResource`, then `DeleteNameMutex`. A child that is
signalled before it has stored its own `g_process_id` takes itself for the
supervisor (`ForkedTerm`). The steps of the initialisation are one success or
failure. `kill(0, ...)` and the caller's own handler are one step. `exit()` called inside a handler
is assumed to end. A start while workers of an earlier instance still run is not
followed. `FairSpec` has the fairness of section 3; `AttentiveSpec` adds that each worker that looks at
the flag gets to do so, more than the code promises, and serves `SignalEnds` only: the wait does not end even then.

### XdrSender

One sender from the record it has taken to the next (xdr_sender.c:94-131 with
xdr_socket.c:27-101; the ui_sender's socket is the same code, its loop is switched
off). `SendSome` is a `send()` that takes any part of what is left, `TimeOut` the
five seconds without room, `SendFails` an error: the socket is closed and the
record sent again from its start on the next connection. The receiver (external) reads
headers and lengths off the stream; `end` is the last unit that was sent on the
connection and `cut` whether a timeout left a record unfinished there. `Break` loses
what `send()` had accepted and nobody read.

`RecordStream` is what the receiver is promised, without the loop, the offset
`sent`, the number of the record at hand and the sender's place in the code: the next record enters
the stream without a gap and is delivered or abandoned, once. Under the mapping
`Settled` counts the records done with (the one at hand is not, unless the sender is idle) and
`Part` is what the stream's end shows of the record at hand, not what `sent` says; `TakeRecord` and
`SendFails` are stutters, `Connect` reopens. What it does not promise: that what was delivered is read
before the connection breaks.

### DataParser

One data_parser with the sp_user and the sp_packet queue of one sig_parser. Both
poll counters start at 0 and step together, so queues with the same index are polled in
the same turn, and another sig_parser's are polled in turns of their own. `PutUser` and `PutPacket` are the
sig_parser's; a put is one step, which `ShmQueue` justifies. A poll
is one step: `PollUser`, `PollPacket`, or `PollNo...` for an empty queue.
`Packets` are the N-PDUs there may be and `PutPacket` puts any segment of any of
them at any time, so segments are lost, doubled, late and mixed. `Begin`,
`Remain`, `Stored`, `Gathered` are the stretches of `parse_gb_packet`
that begin a record, count what is missing, store a segment, and put the pieces
together; `Refuse`, `Unsegmented`, `GiveUp`, `Reassemble` are its ways out. An N-PDU is plain, compressed or
confirmed (`kind`). A confirmed one is refused with all its segments; that it is compressed is read off a first segment only
(dp_sndcp.c:48, 56), so `Refused` holds of the first segment alone, and the later ones clear the record of another
number or are stored into the one of their own number, like any segment.

What is not in the model: N-PDU numbers wrap at 4096 in the code, so a record that is
left unfinished may meet its own number again (the model has packets with equal numbers, which
is the same case); `remain_len` has 16 bits, which cannot matter for a clean record (at most
1800 bytes against an IP length below 65536); IP length and segment lengths of a packet
agree (`PacketsAssumption`). Users are never removed: `hash_timeout` is
called after a session was found only, and `parse_tup_head` never
returns with one. A failed allocation ends the process (`check_malloc`).
`run` and `handed` are history: the segments that passed the refusal and came under the number at hand (those of a
compressed N-PDU included), whether
they were clean (of one packet, nothing twice), and what the last poll handed on. `Whole` and `NoneHeldBack` speak of clean ones.

### SigPacket and IpTable

One parser from `gxio_mpipe_iqueue_try_peek` to the last layer; an action is a layer's
test with the end it leads to. A buffer is named after the place of its packet in the ring, and
`turns`, `given`, `handed` count per buffer how often its processing began, it was given
back, it became somebody else's. `entry` and `last` are the place in the peeked batch, `head` moves
by one for each consume, whatever descriptor the call names (which is how the MPIPE library counts). `desc`
differs from `entry` after a merge only. `pool` holds for each chain the one node in use;
`OthersPut` and `OthersTake` are the other parsers, and `Peek` may expire chains, which is the
timeout walk. What happens to the lists is `FragPool`. `LookupHangs` and `MergeIntoThis` are the
ends of a parser that `FragPool` has in detail.

`IpTable` fills and searches the chains of `g_proto_ips` as the code does
(first come, a full chain takes no more, the first match counts), line by line in recursive functions, and `ByFiles` says
without chains what they are for, provided that the lines that go to each chain are no more than its nodes (`AllFit`). `PortTells` is FALSE: the loop of sig_packet.c:636 ff. compares the channel with
the address of the array, so the arrival port never tells the interface.

Also seen while modelling, and part of the model:
* a decoded Gb packet, and every packet of IuPS, S1-MME or S1-U, is neither dropped nor consumed
  (sig_packet.c:538-562): its buffer counts as handed to somebody else, the head stays one behind, and the
  next peek begins with packets that were processed before (`kept`; `InStep` stops there);
* SCTP is discarded by layer 4, so its branch of `sp_get_l5_proto` is never taken;
* a fragment that is neither first nor last counts as a first one;
* `proto_type` is read by nobody and the descriptor in `g_pack` is never set.

### SigGb and MsRadioCap

A packet of the model says which fault it has, if any (`fault`), its BSSGP IEs, its message and
the optional IEs with their sizes; `left[i]` are the bytes from the i-th optional IE to the end of the last. `head` is the
size of the message's fixed part, and like the sizes of the IEs it is what the length bytes in memory tell; `size` is the
number of bytes the message really has. The two need not agree: a message that is not `Whole` ends inside its fixed part (`Beheaded`),
or inside its last IE (`CutIe`), and the handlers test for less than they take: 8 bytes where an attach accept's fixed part has 11
(sig_gb_gmm.c:412, 420-439), 7 where a routing area update accept's has 10 (695, 704-721), and the length bytes of the capability (634)
and of the IEs of an activate PDP context accept (972, 982) as they are. Then `len` wraps, the loop goes on, and what it
stores is "stray". A handler
is one action, except that each step of a walk over a list of IEs is an action of its own.
`len` is the code's count of the bytes left, unsigned modulo `Wrap`. A field is "sent" when it holds what
the packet carried, "stray" when it holds what lies behind the message. When the
loop runs past the last IE, what it can still store is stored at once (`Stray`).
`Finish` is the record's way into the queues (`ShmQueue`); nothing is copied from `g_gb_info` to
`g_xdr`, `g_ui` or `g_pack` in the code.

The sizes of IEs that have no length byte are those of the standard
(`FixedSizes`, `FixedHeads`, part of `PacketsAssumption`): a message that gives such an IE another size is not in the model, nor
is one that gives another size to an IE whose length byte the handler does not look at. A message that ends early ends in
its fixed part or in its last IE, whose first byte is there (an IE behind the end does not belong to the message, but to what is
found behind it: `Stray`). Two more limits: the loop behind the message is assumed to end, and the PDP address is read from
a fixed place, so `DecodedAsSent` is about addresses of at least the 8 bytes up to there (`Consistent`).
`OrderAssumption` is the standard's order of IEs as far as the loops depend on it: nothing that ends the loop comes before an
IE of an accept that asks for a complete, and no PDP address behind the cause.

`MsRadioCap` encodes a capability as the mobile does and decodes it as the tree
of tests in `sp_get_msc` and `get_umts` does (sig_gb_bssgp.c:72-689), bit by bit.
`TreeRight` names the combinations in which the tree is right; in the others it is not: with multislot
but neither HSCSD nor GPRS the later tests are a bit early, and without multislot the UMTS bits are looked for behind a
DTM field that is not there.

Also seen, and part of the model:
* the length of an MS identity and of an N-PDU list is read after `data` has moved
  (sig_gb_gmm.c:468-469, 744-745, 751-752), so the count is off from there on;
* an activate PDP context accept that ends with its QoS leaves a count that has wrapped (962-967);
* messages shorter than their parts say, as above: `InMessage`, `ResultTells`, `DecodedAsSent` and `CapabilityDecoded` are about whole ones;
* TMSI status is looked for as 0x09, its tag is 0x9-; a combined routing area update is refused; a
  periodic one is accepted as an ordinary one; `bssgp.tlli` is never set;
* `get_msc`, which attach and routing area update call, is defined nowhere; the model takes `sp_get_msc`, the
  function of that purpose.

### IpReasm

One record `dp_ip_packet_t`, one call of `parse_tup_head` per action. A datagram carries the offsets of its fragments
as their headers do, each where the one before ends. Fragments come in any
order, at most twice. `run` and `handed` are history. Sessions are not here because none is ever created:
`get_tcp_session` and `get_udp_session` refuse an empty list (dp_tup.c:273, 365) and nothing
else fills it. So `parse_tup_head` always returns -1, `hash_timeout` never runs, no data XDR is made.
The first datagram of a user, and one after a datagram that was too big, is lost: its identification is stored
with `ntohs` (dp_tup.c:91) and compared without (96). Identifications of two hosts or of both directions
share one record, and a fragment that comes twice is counted twice; `Once` and
`Unique` keep these out of what the properties promise; `RestartMeansNew` and `Reassembled` do not (section 4). `Copied` writes wherever the
fragment's bytes go (`BytesOf`), also behind the buffer: that it has none there is what the test of the size (`Fits`) is for, and part of `TypeOK`.

### Config

The three files as sequences of lines; a line is one of the cases the
parser tells apart: a key with names of ports or with numbers (`PortsText`, `NumbersText`), or the fields and the cell of a
rule (`RuleText`). A step reads a line, its entries one after the other in `Entries`. The properties are about all
lines read so far: a number is that of the last line that gives one; a list of which one line was read has that line's
different ports in their order (`Different`), or its numbers (`Counted`), as far as there is room, but for the ports for data,
which `DataPortsAsWritten` is about (section 4); the n-th whole line
of rules is the n-th rule (`RulesIn`) and the rule says what the line says. What the model shows besides
its properties: whether an array is full is asked after the write, so that a repeated list writes past it
(`ArraysInBounds` holds as long as no list comes twice, `ArraysHold` does not); an unreadable device address
counts all the same; device identities are stored for the devices known so far; a refused filter line leaves its
fields in the next rule; negative numbers pass in adv.ini; unknown keys succeed; the keys the code tests
(`psql_*`) are not those of the file that comes with it (`ps_ql_*`); `g_ps_filter` is read by nobody. The line of
data interfaces is split from its start, so the key takes the place of the first port; an empty
interface line ends the process; a port number keeps 16 bits.

## 3. What the runs show

| run | bounds | shows |
|---|---|---|
| `shm_queue` | 3 slots, 2 items, 7 offers | with the fence: `NoOverrun`, `PublishedComplete`, `InPlaceStable`, the refinement `FifoSpec`, and `AcceptedIsDelivered` |
| `shm_queue_unfenced` | 3 slots, 3 offers | without it an item is published before its bytes arrive |
| `frag_pool` | 3 nodes, 3 parsers, 2 keys, 3 buffers, 5 packets | `ListInv`, `EveryNodeInOneList`, `WalkInUsedList` under every interleaving |
| `frag_pool_find` | 1 parser | a lookup with another key at the head never returns |
| `queue_wiring` | up to 3 processes of a type, up to 6 queues, index modulo 4 | sp_packet, sp_xdr, dp_xdr: in bounds, one process per side, every queue served |
| `lifecycle` | 4 workers, 2 starts, 2 signals, any crashes | one instance at a time; at most one worker left at the release; a stop ends; no worker outlives it |
| `xdr_sender` | 6 records of 3 units, room for 4, 3 broken connections | `NoneSkipped`, `OnceInOrder`, `Framed` on connections without a timeout in a record; the refinement `StreamSpec`; every send ends |
| `data_parser` | 2 users, 8 N-PDUs of 1 to 4 segments, two of them compressed, 5 puts, queues of 2, DPI queue of 1 | `Whole`, `NoneHeldBack`, `UserInTime`; `InfoArrives` |
| `sig_gb` | every message with each choice of optional IEs, whole and short of 1 to 3 bytes, every fault, BSSGP heads of up to 2 IEs, all 388 capabilities | `InMessage`, `ResultTells`, `DecodedAsSent`, `CapabilityDecoded`, `DecodingEnds` |
| `sig_packet` | ring of 2, 3 arrivals, 9 kinds of packet, 1 chain, 2 configurations, 2 turns | `Disposed`, `InStep`, `TableTells`, `PacketsProcessed` |
| `ip_reasm` | 6 datagrams of 1 to 3 fragments, 5 arrivals, each fragment at most twice | `WholeDatagram`, `DatagramComesOut` |
| `config` | every sequence of up to 4 lines of each file | `ArraysInBounds`, `AsWritten`, `RulesAsWritten` |

The type invariants are proved and not run again, but for that of `SigGb`, which is in its run too: there the width of a length matters.

**Why the bounds are enough.** Three slots are the fewest with a slot that is
neither the first nor the last; seven offers let both indices wrap twice with a queue full
in between. Three nodes are the fewest where a used list of two coexists with the free node
that is always kept, and where a parser can lose a node that another
gets and the walk reaches; five packets give one parser a second turn
after both others. 4 is no multiple of 3, as 256 is no multiple of most numbers of
queues, and bases computed with different numbers differ for 2 and 3 already. Four workers are one
that looks at the flag and may have an iqueue error, one that only looks at the flag, and two that
never leave their loop; the second start meets what the first left behind.
A socket with room for one record and a third lets a timeout cut the second one, and three
breaks let one record fail twice and another once.
Five puts are a packet of three segments with two items of another in between, or a
packet of two with its user and a double; the N-PDUs include two with one number,
one of more segments than the record holds, one without a header, one that is confirmed, and two compressed ones, each with the
number of another packet of that user and that of the next. The DPI queue of one is full after the first user.
In `sig_gb` packets come one after another without end, so every pair of messages meets, and the bound is on
a single message only: each optional IE the handlers know and one they do not, in the standard's order; one to three missing bytes are
all that the accepts' least lengths (8 and 7) leave out of their fixed parts (11 and 10); the bytes
behind a message end the loop early, on time and late. A ring of two wraps with three arrivals, a chain of one lets two
fragments meet, and one more comes between; two turns are what a packet gets when one was left alone.
Five arrivals are the three fragments of one datagram with a double and another datagram's, in any order, and MaxSize 3
makes one datagram too big. Four lines of a file are enough for a list before, between and after devices, and for a rule after a refused one.

**Fairness.** `ShmQueue`: stores reach memory, and a process in the middle of an operation
goes on; each process owns its core, and the consumer's loop is endless. No producer has to produce.
`QueueWiring`: consumers start and poll. `FragPool`: a parser that may take a step
takes it. `XdrSender`: the loop of `send_xdr_pkt` goes on: it sends, times out or fails.
`DataParser`: the loop goes on; nobody has to put.
`SigPacket`: the loop goes on while the process runs; packets, other parsers and the end may come or not.
`SigGb`: `sp_process_gb` goes on to its return. `Lifecycle`: the supervisor's loop and the exits go on, a signal is delivered; nothing
makes a worker leave its loop. All of it is weak fairness of single processes that share
no processor.

Deadlock is checked for the wiring, the data_parser and the Gb decoding, whose loops go on for ever. The others
may come to rest: a bounded queue, ring or number of packets is used up, a file has been read, a pool
stands still when a crashed process holds its mutex, an instance that failed
leaves its name behind and no other one starts.

## 4. Where the code and its comments disagree

1. **No fence in the data_parser's producers** (`shm_queue_unfenced`):
   data_parser.c:292 and 764-848 against sb_shared_queue.h:48.
2. **`find_node_from_frag_pool` does not move on** (`frag_pool_find`): sig_fragment.c:202.

In the model of the pool the second of these hides a good part of the rest: after
`FindSpin` the chain is held for good. The properties of the lists hold with
and without it.

The models show more faults. The passing runs hold what holds in spite of them, and their properties name the case they leave out;
the property without that exception is in the module too, and its configuration, which is no regular run, ends in a counterexample:

| configuration | property | the code | against | left out of |
|---|---|---|---|---|
| `MCQueueWiringUser.cfg` | `InBounds` for sp_user | data_parser.h:17 multiplies by the number of data_parsers instead of sig_parsers: with 4 and 15 of them the last begins at queue 210 of 60 | base_lib_queue.c:66, the size of the array | `Kinds` of the run and of the theorems |
| `MCLifecycleLeft.cfg` | `AllEnded` | base_lib_process.c:179 waits for one child too few, and nobody waits after the last kill | 186 "所有进程退出，本身退出", all processes have ended | `AtMostOneLeft` |
| `MCLifecycleSignal.cfg` | `SignalEnds` | base_lib_process.c:178, the kill is commented out: a supervisor that alone was signalled waits for ever | 177 "接收到退出信号，等待所有子进程退出", waiting for all children to end | `StopEnds` |
| `MCLifecycleName.cfg` | `NameMeansRunning` | main.c:183 returns with the name made and no handler that unlinks it; a kill leaves it too | sb_process.c:110 "程序在运行", the program is running | `RunningHoldsName` |
| `MCXdrSenderCut.cfg` | `FramedThroughout` | xdr_socket.c:79: a timeout cuts a record and the connection is kept | xdr_receiver.c:175 "NOT a SDTP packet" | `cut` in `Framed` |
| `MCDataParserDoubled.cfg` | `AllReassembled` | data_parser.c:430: a segment that comes twice, or one of another N-PDU with the number, is counted like a new one | dp_struct.h:102 "if remain_size == 0, all sndcp segments are reassembled" | `clean` in `Whole`, `NoneHeldBack` |
| `MCIpReasmRestart.cfg` | `RestartMeansNew` | dp_tup.c:91, 96: two byte orders of one identification | 97 "new ip fragment but old ones NOT reassembled" | `run.first` in `DatagramComesOut` |
| `MCIpReasmDoubled.cfg` | `Reassembled` | dp_tup.c:107 counts a fragment that comes twice | 118 "ip packet reassembled" | `Once` |
| `MCConfigDataPorts.cfg` | `DataPortsAsWritten` | read_config.c:546, 601, 655 split the whole line: the key is the first port | sb_struct.h:63 "发送DPI数据包网卡名", names of ports, and device.ini:29 | `AsWritten` |
| `MCConfigTwice.cfg` | `ArraysHold` | read_config.c:317 asks behind the write: a second line for a full list writes behind it | sb_defines.h:110, 112, the sizes | `Once` in `ArraysInBounds` |
| `MCConfigRefused.cfg` | `RulesOfTheirLine` | read_config.c:1323 stores fields of a line it then refuses | ps_filter.ini:3, the fields of a line | `RulesAsWritten` |

In the models, without a property of their own: the buffer of a merged fragment (sig_packet.c:206-210, see FragPool), packets that are
left alone (see SigPacket), the lengths that sig_gb_gmm.c does not compare (see SigGb), and what the section on Config lists besides.

## 5. What is proved

For every value of the constants that meets the assumptions of the modules (all
bounds included: `MaxPush`, `MaxPackets`, `MaxSignals` are arbitrary):

**ShmQueueProofs.** `TypeCorrect`, and for a fenced producer `NoOverrunAlways`,
`PublishedCompleteAlways`, `InPlaceStableAlways` and `Refinement` (`Spec => FifoSpec`). None of
the properties is inductive: that there is room when `Copy` happens depends on a
test of `pop_index` made before, and that the slot is a free one depends
on `tail` being the slot after the last published. `IInv` therefore adds that the
totals tie the indices together (`tail` is `Pos(Occupied)`, one more when
the copy is made and not published), that an accepted offer has room until it
is published, because the consumer can only make more of it, and that
only the one slot not yet published can be in flight. The refinement maps `Publish` to a put, `Release`
to a get and everything else to a stutter.

**FragPoolProofs.** `TypeCorrect`, `ListInvAlways`, `WalkInUsedListAlways`,
`EveryNodeInOneListAlways`. Nodes are put back twice and by processes that no longer own
them, so "each list is linked in both directions" must be kept by
`GiveBack` for a node that is in the *free* list too. The argument: a
`Chain` is a set of nodes whose links agree pairwise, and unlinking and
pushing preserve that for whichever of the two sets the node is in, as long as no
store goes through NULL. A set whose links agree can still hide a cycle; `Ordered` excludes it:
links lead from newer to older nodes, as both lists are only pushed at the
front. `EveryNodeInOneList` follows by taking the newest node that a walk
misses.

**XdrSenderProofs.** `SenderType`, `NoRecordSkipped`, `StreamFramed`,
`SentOnceInOrder`, and the refinement `ImplementsStream` (`Spec => StreamSpec`): for any number of records
of any length and any sequence of failures. The invariant ties the unit at the end of the stream to the record
the sender holds and what it has sent of it (`EndMatches`). For the refinement this must hold on
connections a timeout cut and on broken ones as well: a record of which nothing was sent must not find
an unfinished one of its own number at the end of the stream, and none later than the one at hand is there. `PartIsSent` then says
that the mapping's `Part` is `sent` wherever the loop sends; the steps follow one by one.

**DataParserProofs.** `ParserType`, `WholeAlways`, `NoneHeldBackAlways`,
`UserInTimeAlways`, for any set of N-PDUs of any lengths and segment numbers. The core is
`Records`: while a record was fed segments of one packet without a double, each
place holds the segment of that number or nothing, and `remain` is the IP length (if the
first came) less the lengths of those that came (`Exact`). `Feeding` shows that every
segment keeps it, `Finishing` that a remainder of zero then means all segments, because
lengths are positive and add up to the IP length, and `NotAll` the reverse. The later segments of a compressed N-PDU are segments
like others here: they feed the record, clear it or spoil it, and the history says which. For `UserInTime`,
`Waiting` says that a packet at place k whose user's information was put in time
has it in the table or among the next k in the user queue; the turns of the loop take one from each.

**StartupProofs**, the workers. `TypeCorrect`, `RunningHoldsNameAlways`, `AtMostOneLeftAlways`. The
invariant adds that while the supervisor waits, the workers not yet waited for are at
most `need + 1`: `need` starts at the number of workers less one, each wait lowers both or finds no
child, and nobody forks any more.

**StartupProofs**, the queues. `WiringTypeCorrect`, `InBoundsAlways`, `OnePerSideAlways`,
`ChosenReaderReadsAlways`, for any numbers of processes and queues. `InBoundsAlways` and
`OnePerSideAlways` assume that sp_user is not among the kinds; the third assumes no more workers than an
eight-bit index counts. The type is the inductive part; the rest is arithmetic about
`p * n + i`: two of these numbers with `i < n` are equal only if both parts are.

**StartupProofs**, the configuration. `ArraysInBoundsAlways`, `AsWrittenAlways`, `RulesAsWrittenAlways`, for any files of lines
of any length, sizes of the arrays and names of ports. The properties say what holds of a list of which one line was read;
the invariant adds that a list of which none was read is empty (`ListsInv`), as a second line behind a first would
write past the end. A line then does three things only (`Moves`): to the list of its key, to its number, or to the
identities, and for each kind of line it is shown which. What the loop over the entries leaves is
shown by repetition (`LineGood`, see below), with what `Different` and `Counted` say of the first n entries. The invariant knows the
ports for data as well (`ListIs`), as the readers leave them, with the key in the first place; `AsWritten` takes only
what the lines say from it. For the rules
`FilterInv` ties their number to the whole lines read, says that the slot is empty behind each of them, and
that there is room as long as lines are read; that a rule says what its line says (`SaysStored`) is then a fact about where the
fields and the parts of each type of cell stand.

**SigPacketProofs.** `DisposedAlways`, `InStepAlways`, `HeadBehindTail`, for any packets, chains, size of
ring and number of packets. `Disposed` speaks of the moments between two packets only; the invariant keeps the account while a
packet is in hand too (`Balance`): begun = given + handed + in a chain + in hand. A merge
changes two buffers at once, and the account needs that a buffer waits in one chain only, which
follows because a buffer waits in the chain of its own packet (`PoolHome`). That the
head can be trusted to be at the entry is `HeadAt`, with the one that a merge has consumed already.

`TableTellsAlways` is about all files whose lines fit into the chains, and any number and length of chains. Line by line, the
nodes of a chain stand for lines read so far, are no more than these lines (so that a chain is never full while a line is left),
keep the order of the files, and list every address read (`TableGood`); the first node with an address is then one
of the first file that lists it (`FindTells`). The invariant `LookInv` says that the table is that of the files and what
was looked up is that of the packet in hand. With it `TypeCorrect` states `TypeOK` as a whole: the interface is one of the nine.

**SigGbProofs.** `TypeCorrect`, `InMessageAlways`, `ResultTellsAlways`, `DecodedAsSentAlways`, `CapabilityDecodedAlways`, for any packets
that satisfy `PacketsAssumption` and `OrderAssumption`, with any lists of IEs (the first two do not use the order), whole or cut.
What they promise of cut ones is less: `TypeCorrect` all, `InMessageAlways` nothing, the others what their exceptions leave.
The invariant says when the count is lost (`Lost`) and that until then it is the number of bytes
from the IE at hand to the end (`CountRight`): so the loop cannot go on behind the last IE, and one that finds no byte
left has seen them all. The result is told by the IEs seen so far (`Seen`, `ResultWalked`); where a loop ends early,
the order leaves none behind that asks for a complete. For `DecodedAsSent`, `ValueInv`
follows both walks IE by IE: `g_gb_info` holds the fields of the BSSGP IEs seen (`HeadSeen`), then those of the head,
the fixed part and the optional IEs seen (`OptSeen`), and no others.

`CapabilityDecoded` is about positions in a string of bits whose fields may be missing. A field is read where those before it end
(`FieldRead`) and what is behind it is not touched by it (`FieldPassed`); with these the tree of tests is followed field by field
(`CapabilityRead`), in every combination in which it is right, and the GPRS class in all.

**IpReasmProofs.** `TypeCorrect`, `WholeDatagramAlways`, `DatagramComesOutAlways`, for any datagrams, however they are cut, and
any size of the record's buffer. `parse_tup_head` adds up bytes and does not look which they are. The invariant
`RecordHolds` says that the counters of a record are those of a set of fragments of the datagram it names (`Measures`), each of which came
and left its bytes. For the type it is the test of the size that keeps each copied byte inside the buffer (`CopiedParts` needs
`Fits`), as `Copied` writes behind it otherwise. Fragments of a datagram do not overlap, so a sum that is the whole length leaves none out: that is an
argument about the number of elements of a union of disjoint intervals. Both properties hold for datagrams whose fragments come
once and whose identification is their own; with `RunHolds` the same set is that of the fragments that came one after the other.

**Loops.** What a recursive function leaves is shown without the library's induction theorems, which the provers cannot apply:
a set of numbers has a least one (`LeastNumber`), so a set that holds 0 and with each number the next holds
them all (`Induct`), with sets in the place of predicates; `Iterate` makes of that a run of a step any number of times and what
it keeps, `Agree` that there is only one. Each module that needs them has them, as they are few lines.

**Only model-checked.** Liveness (`AcceptedIsDelivered`, `EveryQueueServed`,
`StopEnds`, `EveryWorkerEnds`, `SendEnds`, `InfoArrives`, `DecodingEnds`, `PacketsProcessed`): temporal
properties under fairness are beyond the proof system, as is ENABLED. Every invariant and action property of a run that passes,
and both refinements, are stated by a theorem; for `QueueWiring` they leave out sp_user, and `ChosenReaderReads` asks for no more workers than
the index counts. No module declares a recursive operator.

## 6. Plan

Left, in this order:

1. The composition of `SigPacket` with the lists of `FragPool`: today the other parsers put and take
   whole fragments.
2. A property of what a refused or aborted handler leaves for the queues, once records are copied into them.
3. Sessions of the data_parser, when `get_tcp_session` and `get_udp_session` create them.

**Not modelled.**
* TCP and UDP sessions, their hash tables and timeouts, application parsers and data XDRs (data_parser.c:518-850,
  parts of dp_tup.c and dp_if0_1.c): no state of the program reaches them, see IpReasm. The
  test of the timeouts (data_parser.c:523, 568) and the choice of an empty queue (764) would matter then.
* mPIPE set-up (base_lib_mpipe.c): one process, a fixed sequence of calls to hardware; a failure of any is
  `InitFails` in `Lifecycle`.
* The tables of users and tlli and `sp_malloc_uid`: called by nobody.
* `recv_xdr_pkt`, `recv_ui_pkt`: called by nobody.
* Log files, statistics, the test receivers' printing, the hourly setting of the clock, hashes and checksums.

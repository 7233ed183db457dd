------------------------------ MODULE ShmQueue ------------------------------
(***************************************************************************)
(* One queue in shared memory between two processes of SigBee: a ring of   *)
(* "size" slots with a private index on each side (tail for the producer,  *)
(* head for the consumer) and two running totals, push_index and           *)
(* pop_index, through which the sides see each other.  There is no lock.   *)
(*                                                                         *)
(* All five kinds of queue have this shape: sp_packet, sp_user and dp_user *)
(* (user information), sp_xdr and dp_xdr.  Their producers differ in one   *)
(* thing that matters here: the sig_parser ones issue __insn_mf() between  *)
(* the copy of the item and push_index++, the data_parser ones do not.     *)
(* The constant Fenced says which kind of producer is modelled.            *)
(*                                                                         *)
(* Steps are the accesses to shared memory.  head and tail are read and    *)
(* written by one side only, so each moves together with the neighbouring  *)
(* access of the same process.  The TILE-Gx memory is weakly ordered: a    *)
(* store may reach memory after a later one of the same tile unless a      *)
(* fence separates them.  The memcpy of an item is many stores; while they *)
(* are under way the slot reads as Torn, and Drain is the moment the last  *)
(* of them arrives.                                                        *)
(***************************************************************************)
EXTENDS Naturals, Sequences

CONSTANTS
    Size,       \* size: number of slots, from the configuration file
    Items,      \* what a producer may enqueue
    NoItem,     \* the zeroed slot, and the empty store buffer
    Torn,       \* a slot part of whose bytes are written
    Fenced,     \* is there a memory fence before push_index++ ?
    MaxPush,    \* bound: totals counted up to here
    MaxFail     \* bound: refused offers counted up to here

ASSUME SizeAssumption == Size \in Nat \ {0}
ASSUME ItemAssumption == NoItem \notin Items /\ Torn \notin Items /\ Torn # NoItem
ASSUME FencedAssumption == Fenced \in BOOLEAN
ASSUME BoundAssumption == MaxPush \in Nat /\ MaxFail \in Nat

VARIABLES
    slots,      \* the array of the queue as memory holds it
    inflight,   \* per slot: the item whose copy has not all arrived
    head,       \* index of the next slot to read (consumer only)
    tail,       \* index of the next slot to write (producer only)
    push_index, \* total put in
    pop_index,  \* total taken out
    ppc,        \* where the producer stands in its add_to_..._queue
    item,       \* the item it was called with
    fwd_count,  \* statistics: items accepted
    fail_count, \* statistics: items refused, the queue being full
    cpc,        \* where the consumer stands in its process_..._queue
    seen,       \* the item as the consumer read it in place
    out,        \* the item the consumer finished last
    alive       \* which of the two processes still run

prodVars == <<ppc, item, fwd_count, fail_count>>
consVars == <<cpc, seen, out>>
vars == <<slots, inflight, head, tail, push_index, pop_index, prodVars,
          consVars, alive>>

Index == 0 .. Size - 1

TypeOK ==
    /\ slots \in [Index -> Items \cup {NoItem, Torn}]
    /\ inflight \in [Index -> Items \cup {NoItem}]
    /\ head \in Index
    /\ tail \in Index
    /\ push_index \in Nat
    /\ pop_index \in Nat
    /\ ppc \in {"idle", "copy", "publish"}
    /\ item \in Items \cup {NoItem}
    /\ fwd_count \in Nat
    /\ fail_count \in Nat
    /\ cpc \in {"poll", "process", "release"}
    /\ seen \in Items \cup {NoItem, Torn}
    /\ out \in Items \cup {NoItem, Torn}
    /\ alive \in SUBSET {"producer", "consumer"}

(***************************************************************************)
(* init_..._share_queues: the parent clears the memory of the queue before *)
(* it forks the processes.                                                 *)
(***************************************************************************)
Init ==
    /\ slots = [i \in Index |-> NoItem]
    /\ inflight = [i \in Index |-> NoItem]
    /\ head = 0
    /\ tail = 0
    /\ push_index = 0
    /\ pop_index = 0
    /\ ppc = "idle"
    /\ item = NoItem
    /\ fwd_count = 0
    /\ fail_count = 0
    /\ cpc = "poll"
    /\ seen = NoItem
    /\ out = NoItem
    /\ alive = {"producer", "consumer"}

Advance(i) == (i + 1) % Size

\* Mutants: each comparison off by one.
IsFullOffByOne == push_index - pop_index > Size
IsEmptyOffByOne == pop_index > push_index

IsFull == push_index - pop_index >= Size

IsEmpty == pop_index >= push_index

-----------------------------------------------------------------------------
(* The producer: add_to_pack_queue, add_to_ui_queue, add_to_xdr_queue, and *)
(* the copying parts of the data_parser's process_user_queue and           *)
(* put_into_xdr_queue.                                                     *)

\* Full queue: the item is dropped and counted.
Refuse ==
    /\ "producer" \in alive
    /\ ppc = "idle"
    /\ IsFull
    /\ fail_count < MaxFail
    /\ fail_count' = fail_count + 1
    /\ UNCHANGED <<slots, inflight, head, tail, push_index, pop_index, ppc,
                   item, fwd_count, consVars, alive>>

\* Room was seen: from here on the producer does not look at pop_index again.
Accept(v) ==
    /\ "producer" \in alive
    /\ ppc = "idle"
    /\ push_index < MaxPush
    /\ ~IsFull
    /\ fwd_count' = fwd_count + 1
    /\ item' = v
    /\ ppc' = "copy"
    /\ UNCHANGED <<slots, inflight, head, tail, push_index, pop_index,
                   fail_count, consVars, alive>>

\* memcpy into slot [tail], and tail moves on.
Copy ==
    /\ "producer" \in alive
    /\ ppc = "copy"
    /\ slots' = [slots EXCEPT ![tail] = Torn]
    /\ inflight' = [inflight EXCEPT ![tail] = item]
    /\ tail' = Advance(tail)
    /\ ppc' = "publish"
    /\ UNCHANGED <<head, push_index, pop_index, item, fwd_count, fail_count,
                   consVars, alive>>

\* The hardware completes the copy into slot i, whatever the processes do.
Drain(i) ==
    /\ inflight[i] # NoItem
    /\ slots' = [slots EXCEPT ![i] = inflight[i]]
    /\ inflight' = [inflight EXCEPT ![i] = NoItem]
    /\ UNCHANGED <<head, tail, push_index, pop_index, prodVars, consVars, alive>>

\* __insn_mf(), where there is one: no store of this tile is under way.
\* Mutant: the fence is missing.
FenceForgotten == TRUE

FencePassed == Fenced => \A i \in Index : inflight[i] = NoItem

Publish ==
    /\ "producer" \in alive
    /\ ppc = "publish"
    /\ FencePassed
    /\ push_index' = push_index + 1
    /\ ppc' = "idle"
    /\ UNCHANGED <<slots, inflight, head, tail, pop_index, item, fwd_count,
                   fail_count, consVars, alive>>

-----------------------------------------------------------------------------
(* The consumer: process_packet_queue, process_user_queue,                 *)
(* xdr_send_sig_queue, xdr_send_data_queue, and the ui_sender's loop.  An  *)
(* empty queue changes nothing but the index of the queue polled next.     *)

\* Mutant: waits until the queue is full.
PollWhenFull ==
    /\ "consumer" \in alive
    /\ cpc = "poll"
    /\ IsFull
    /\ cpc' = "process"
    /\ UNCHANGED <<slots, inflight, head, tail, push_index, pop_index,
                   prodVars, seen, out, alive>>

Poll ==
    /\ "consumer" \in alive
    /\ cpc = "poll"
    /\ ~IsEmpty
    /\ cpc' = "process"
    /\ UNCHANGED <<slots, inflight, head, tail, push_index, pop_index,
                   prodVars, seen, out, alive>>

\* The item is used where it lies, through a pointer to slot [head].
Process ==
    /\ "consumer" \in alive
    /\ cpc = "process"
    /\ seen' = slots[head]
    /\ cpc' = "release"
    /\ UNCHANGED <<slots, inflight, head, tail, push_index, pop_index,
                   prodVars, out, alive>>

\* Mutant: the total moves and head stays.
ReleaseKeepsHead ==
    /\ "consumer" \in alive
    /\ cpc = "release"
    /\ out' = seen
    /\ pop_index' = pop_index + 1
    /\ cpc' = "poll"
    /\ UNCHANGED <<slots, inflight, head, tail, push_index, prodVars, seen,
                   alive>>

Release ==
    /\ "consumer" \in alive
    /\ cpc = "release"
    /\ out' = seen
    /\ head' = Advance(head)
    /\ pop_index' = pop_index + 1
    /\ cpc' = "poll"
    /\ UNCHANGED <<slots, inflight, tail, push_index, prodVars, seen, alive>>

-----------------------------------------------------------------------------
(* A process may end at any instruction: the signal handler calls exit().  *)
(* Nobody restarts it; the other side runs on until the supervisor stops   *)
(* it (module Lifecycle).                                                  *)

Exit(p) ==
    /\ p \in alive
    /\ alive' = alive \ {p}
    /\ UNCHANGED <<slots, inflight, head, tail, push_index, pop_index,
                   prodVars, consVars>>

Next ==
    \/ Refuse
    \/ \E v \in Items : Accept(v)
    \/ Copy
    \/ \E i \in Index : Drain(i)
    \/ Publish
    \/ Poll
    \/ Process
    \/ Release
    \/ \E p \in {"producer", "consumer"} : Exit(p)

Spec == Init /\ [][Next]_vars

(***************************************************************************)
(* Fairness: stores reach memory, and a process in the middle of an        *)
(* operation finishes it unless it ends.  The consumer's loop polls        *)
(* forever.  Nothing obliges a producer to offer another item.             *)
(***************************************************************************)
Fairness ==
    /\ WF_vars(\E i \in Index : Drain(i))
    /\ WF_vars(Copy)
    /\ WF_vars(Publish)
    /\ WF_vars(Poll)
    /\ WF_vars(Process)
    /\ WF_vars(Release)

FairSpec == Spec /\ Fairness

-----------------------------------------------------------------------------
(* What the queue promises.                                                *)

Occupied == push_index - pop_index

\* The slot j places after head, wrapping at the end of the array.
Pos(j) == IF head + j < Size THEN head + j ELSE head + j - Size

\* Contents of the queue as the two totals delimit them, oldest first.
Contents == [j \in 1 .. Occupied |-> slots[Pos(j - 1)]]

\* The two totals never cross and never drift apart by more than the ring
\* holds, although each side acts on a value of the other's total that may
\* be old by the time it acts.
NoOverrun == pop_index <= push_index /\ Occupied <= Size

\* Every slot between pop_index and push_index holds a whole item: what the
\* comment at sb_shared_queue.h:48 calls readable can be read.
PublishedComplete ==
    \A j \in 0 .. Occupied - 1 : slots[Pos(j)] \in Items

\* The consumer works on the item in place: from the moment it found the
\* queue not empty until it has released the slot, no store of the producer
\* touches that slot.
InPlaceStable ==
    [][(cpc \in {"process", "release"}) => (slots'[head] = slots[head])]_vars

\* Refinement: the ring is a bounded first-in first-out buffer.
Fifo == INSTANCE BoundedFifo WITH Capacity <- Size, q <- Contents

FifoSpec == Fifo!Spec

\* An accepted item is delivered, unless one of the two processes ends.
AcceptedIsDelivered ==
    \A k \in 0 .. MaxPush - 1 :
        (ppc = "copy" /\ push_index = k)
            ~> (pop_index > k \/ alive # {"producer", "consumer"})

=============================================================================

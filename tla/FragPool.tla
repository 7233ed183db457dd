------------------------------ MODULE FragPool ------------------------------
(***************************************************************************)
(* The pool in which the sig_parser processes keep an IP fragment until    *)
(* its other half arrives.  The pool is an array of chains, each with its  *)
(* own mutex; a chain is a fixed array of nodes split into a used list and *)
(* a free list, both doubly linked.  It lives in shared memory and every   *)
(* parser works on every chain.  This module is one chain, the parsers     *)
(* that use it, and the mPIPE buffers the nodes refer to.                  *)
(*                                                                         *)
(* A parser handles a fragment in several steps: look the key up, then     *)
(* either take a node, write the key and write the descriptor, or use the  *)
(* node found, put it back and drop its buffer.  Each list operation holds *)
(* the mutex and is one step here; nothing holds it across the steps.      *)
(* find_node_from_frag_pool does not advance in its loop: unless the first *)
(* node matches it never returns, and it keeps the mutex.                  *)
(*                                                                         *)
(* "used" and "newer" are history variables: which nodes are in the used   *)
(* list, and which of two nodes was linked into a list last.               *)
(***************************************************************************)
EXTENDS Integers

CONSTANTS
    Parsers,    \* the sig_parser processes
    Expirer,    \* the one whose timeout range holds this chain
    NodeNum,    \* MAX_IP_FRAG_NODE_NUM
    Keys,       \* (source, destination, identification) of fragmented packets
    Buffers,    \* mPIPE packet buffers
    None,       \* a zeroed field
    MaxPackets  \* bound on the fragments that arrive

ASSUME NodeNumAssumption == NodeNum \in Nat \ {0}
ASSUME ExpirerAssumption == Expirer \in Parsers
ASSUME MaxPacketsAssumption == MaxPackets \in Nat
ASSUME NoneAssumption == None \notin Keys /\ None \notin Buffers /\ None \notin Parsers

Nodes == 1 .. NodeNum
Null == 0
Link == 0 .. NodeNum

VARIABLES
    free_head, free_tail, free_nr,      \* ip_frag_mem_ctl_t
    used_head, used_tail, used_nr,
    next, pre,                          \* links of the nodes
    key, buf,                           \* contents: key, and idesc with iqueue
    lock,                               \* frag_sync_lock: holder or None
    pc, pkt, frag, hold,                \* per parser: see Arrive and Merge
    cur,                                \* cursor of the timeout walk
    busy,                               \* buffers the hardware has handed out
    arrived,                            \* fragments so far
    used, newer                         \* history

listVars == <<free_head, free_tail, free_nr, used_head, used_tail, used_nr,
              next, pre, used, newer>>
contentVars == <<key, buf>>
parserVars == <<pc, pkt, frag, hold>>
vars == <<listVars, contentVars, lock, parserVars, cur, busy, arrived>>

Packet == [key : Keys, part : {"first", "last"}, own : Buffers]

TypeOK ==
    /\ free_head \in Link /\ free_tail \in Link /\ free_nr \in Int
    /\ used_head \in Link /\ used_tail \in Link /\ used_nr \in Nat
    /\ next \in [Nodes -> Link] /\ pre \in [Nodes -> Link]
    /\ key \in [Nodes -> Keys \cup {None}]
    /\ buf \in [Nodes -> Buffers \cup {None}]
    /\ lock \in Parsers \cup {None}
    /\ pc \in [Parsers -> {"idle", "spin", "get", "fillKey", "fillDesc",
                           "merge", "put", "drop", "walk", "dead"}]
    /\ pkt \in [Parsers -> Packet \cup {None}]
    /\ frag \in [Parsers -> Link]
    /\ hold \in [Parsers -> Buffers \cup {None}]
    /\ cur \in Link
    /\ busy \in SUBSET Buffers
    /\ arrived \in 0 .. MaxPackets
    /\ used \in SUBSET Nodes
    /\ newer \in SUBSET (Nodes \X Nodes)

\* sp_init_frage_mem: all nodes in the free list, in the order of the array.
Init ==
    /\ free_head = 1 /\ free_tail = NodeNum /\ free_nr = NodeNum
    /\ used_head = Null /\ used_tail = Null /\ used_nr = 0
    /\ next = [n \in Nodes |-> IF n = NodeNum THEN Null ELSE n + 1]
    /\ pre = [n \in Nodes |-> n - 1]
    /\ key = [n \in Nodes |-> None]
    /\ buf = [n \in Nodes |-> None]
    /\ lock = None
    /\ pc = [p \in Parsers |-> "idle"]
    /\ pkt = [p \in Parsers |-> None]
    /\ frag = [p \in Parsers |-> Null]
    /\ hold = [p \in Parsers |-> None]
    /\ cur = Null
    /\ busy = {}
    /\ arrived = 0
    /\ used = {}
    /\ newer = {e \in Nodes \X Nodes : e[1] < e[2]}

Go(p, place) == pc' = [pc EXCEPT ![p] = place]

\* The pool is done with p's packet, and so are the buffers in "back": the
\* rest of the parser, which is not modelled here, gives them back.
Leave(p, back) ==
    /\ busy' = busy \ back
    /\ pkt' = [pkt EXCEPT ![p] = None]
    /\ frag' = [frag EXCEPT ![p] = Null]
    /\ hold' = [hold EXCEPT ![p] = None]
    /\ Go(p, "idle")

-----------------------------------------------------------------------------
(* List operations, each inside the mutex.                                 *)

\* n becomes the most recently linked node.
NewestIs(n) ==
    newer' = {e \in newer : e[1] # n /\ e[2] # n}
                \cup {<<n, m>> : m \in Nodes \ {n}}

\* Mutant: the last free node is handed out too.
CanTakeLast == free_head # Null

\* get_from_frag_pool keeps the last free node.
CanTake == free_nr > 1 /\ free_head # free_tail

\* The first free node moves to the head of the used list.
Take ==
    LET n == free_head IN
    /\ free_head' = next[n]
    /\ free_nr' = free_nr - 1
    /\ pre' = [m \in Nodes |-> IF m = next[n] THEN Null
                               ELSE IF m = used_head THEN n ELSE pre[m]]
    /\ next' = [next EXCEPT ![n] = used_head]
    /\ used_head' = n
    /\ used_tail' = IF used_tail = Null THEN n ELSE used_tail
    /\ used_nr' = used_nr + 1
    /\ used' = used \cup {n}
    /\ NewestIs(n)
    /\ UNCHANGED free_tail

\* Unlinking n dereferences its neighbours unless it is the end of the used
\* list: a node that is not in a list any more has none.
CanUnlink(n) ==
    /\ used_head = n \/ pre[n] # Null
    /\ used_tail = n \/ next[n] # Null

\* Mutant: the predecessor still points to n.
NextWithoutForgotten(n) == next

NextWithout(n) ==
    [m \in Nodes |-> IF used_head # n /\ m = pre[n] THEN next[n] ELSE next[m]]

PreWithout(n) ==
    [m \in Nodes |-> IF used_tail # n /\ m = next[n] THEN pre[n] ELSE pre[m]]

OneLess == IF used_nr > 0 THEN used_nr - 1 ELSE used_nr

\* The node is unlinked from the list it is in, cleared, and pushed on the
\* free list.  The code takes the list to be the used one; for a node that is
\* in the free list already the same stores move it to the front.
GiveBack(n) ==
    /\ used_head' = IF used_head = n THEN next[n] ELSE used_head
    /\ used_tail' = IF used_tail = n THEN pre[n] ELSE used_tail
    /\ used_nr' = OneLess
    /\ next' = [NextWithout(n) EXCEPT ![n] = free_head]
    /\ pre' = [m \in Nodes |-> IF m = free_head THEN n
                               ELSE IF m = n THEN Null ELSE PreWithout(n)[m]]
    /\ free_head' = n
    /\ free_nr' = free_nr + 1
    /\ key' = [key EXCEPT ![n] = None]
    /\ buf' = [buf EXCEPT ![n] = None]
    /\ used' = used \ {n}
    /\ NewestIs(n)
    /\ UNCHANGED free_tail

-----------------------------------------------------------------------------
(* One fragment, from its arrival to the end of its processing.            *)

\* A fragment packet, the first part of its datagram or the last, reaches
\* process_ip_layer, which looks its key up.
Arrive(p, k, part, b) ==
    /\ pc[p] = "idle" /\ lock = None
    /\ b \notin busy /\ arrived < MaxPackets
    /\ arrived' = arrived + 1
    /\ busy' = busy \cup {b}
    /\ pkt' = [pkt EXCEPT ![p] = [key |-> k, part |-> part, own |-> b]]
    /\ UNCHANGED <<listVars, contentVars, hold, cur>>

FindMiss(p, k, part, b) ==
    /\ Arrive(p, k, part, b)
    /\ used_head = Null
    /\ Go(p, "get")
    /\ UNCHANGED <<lock, frag>>

FindHit(p, k, part, b) ==
    /\ Arrive(p, k, part, b)
    /\ used_head # Null /\ key[used_head] = k
    /\ frag' = [frag EXCEPT ![p] = used_head]
    /\ Go(p, "merge")
    /\ UNCHANGED lock

\* The loop keeps comparing the first node, with the mutex locked.
FindSpin(p, k, part, b) ==
    /\ Arrive(p, k, part, b)
    /\ used_head # Null /\ key[used_head] # k
    /\ lock' = p
    /\ Go(p, "spin")
    /\ UNCHANGED frag

Get(p) ==
    /\ pc[p] = "get" /\ lock = None /\ CanTake
    /\ frag' = [frag EXCEPT ![p] = free_head]
    /\ Take
    /\ Go(p, "fillKey")
    /\ UNCHANGED <<contentVars, lock, pkt, hold, cur, busy, arrived>>

\* No node: process_ip_layer fails and the caller drops the packet.
GetNone(p) ==
    /\ pc[p] = "get" /\ lock = None /\ ~CanTake
    /\ Leave(p, {pkt[p].own, hold[p]})
    /\ UNCHANGED <<listVars, contentVars, lock, cur, arrived>>

\* The node is in the used list already and is filled without the mutex.
FillKey(p) ==
    /\ pc[p] = "fillKey"
    /\ key' = [key EXCEPT ![frag[p]] = pkt[p].key]
    /\ Go(p, "fillDesc")
    /\ UNCHANGED <<listVars, buf, lock, pkt, frag, hold, cur, busy, arrived>>

\* The packet is consumed but not dropped: its buffer stays with the node.
FillDesc(p) ==
    /\ pc[p] = "fillDesc"
    /\ buf' = [buf EXCEPT ![frag[p]] = pkt[p].own]
    /\ Leave(p, {})
    /\ UNCHANGED <<listVars, key, lock, cur, arrived>>

\* The last part continues in the buffer of the first part, which it finds in
\* the node; a first part copies the node's data into its own buffer.  A
\* descriptor that is not there yet is an error, and puts the node back too.
Merge(p) ==
    /\ pc[p] = "merge"
    /\ hold' = [hold EXCEPT ![p] =
                   IF pkt[p].part = "last" THEN buf[frag[p]] ELSE None]
    /\ Go(p, "put")
    /\ UNCHANGED <<listVars, contentVars, lock, pkt, frag, cur, busy, arrived>>

\* With the first part's buffer in hand the packet goes on; else comes Drop.
Put(p) ==
    /\ pc[p] = "put" /\ lock = None /\ CanUnlink(frag[p])
    /\ GiveBack(frag[p])
    /\ IF hold[p] # None
       THEN Leave(p, {pkt[p].own, hold[p]})
       ELSE Go(p, "drop") /\ UNCHANGED <<pkt, frag, hold, busy>>
    /\ UNCHANGED <<lock, cur, arrived>>

\* A store through NULL, with the mutex locked.
PutCrash(p) ==
    /\ pc[p] = "put" /\ lock = None /\ ~CanUnlink(frag[p])
    /\ lock' = p
    /\ Go(p, "dead")
    /\ UNCHANGED <<listVars, contentVars, pkt, frag, hold, cur, busy, arrived>>

\* gxio_mpipe_iqueue_drop on the node that was put back: its iqueue and
\* descriptor are those of whoever filled it since, or NULL and zero.
Drop(p) ==
    /\ pc[p] = "drop"
    /\ Leave(p, {buf[frag[p]], pkt[p].own})
    /\ UNCHANGED <<listVars, contentVars, lock, cur, arrived>>

DropCrash(p) ==
    /\ pc[p] = "drop" /\ buf[frag[p]] = None
    /\ Go(p, "dead")
    /\ UNCHANGED <<listVars, contentVars, lock, pkt, frag, hold, cur, busy, arrived>>

-----------------------------------------------------------------------------
(* timeout_node_from_frag_pool, between two packets of the Expirer.  The   *)
(* mutex is held for the whole walk, the fields are not protected by it.   *)

ExpireStart ==
    /\ pc[Expirer] = "idle" /\ lock = None
    /\ lock' = Expirer
    /\ cur' = used_head
    /\ Go(Expirer, "walk")
    /\ UNCHANGED <<listVars, contentVars, pkt, frag, hold, busy, arrived>>

ExpireKeep ==
    /\ pc[Expirer] = "walk" /\ cur # Null
    /\ buf[cur] # None
    /\ cur' = next[cur]
    /\ UNCHANGED <<listVars, contentVars, lock, parserVars, busy, arrived>>

\* Mutant: the successor is read when the node is in the free list already.
AfterFreeLate == free_head

AfterFree == next[cur]

ExpireFree ==
    /\ pc[Expirer] = "walk" /\ cur # Null
    /\ CanUnlink(cur)
    /\ cur' = AfterFree
    /\ GiveBack(cur)
    /\ busy' = busy \ {buf[cur]}
    /\ UNCHANGED <<lock, parserVars, arrived>>

\* The node is not filled yet: time 0 is old, and the drop goes through NULL.
ExpireCrash ==
    /\ pc[Expirer] = "walk" /\ cur # Null
    /\ buf[cur] = None
    /\ Go(Expirer, "dead")
    /\ UNCHANGED <<listVars, contentVars, lock, pkt, frag, hold, cur, busy, arrived>>

ExpireEnd ==
    /\ pc[Expirer] = "walk" /\ cur = Null
    /\ lock' = None
    /\ Go(Expirer, "idle")
    /\ UNCHANGED <<listVars, contentVars, pkt, frag, hold, cur, busy, arrived>>

Expire == ExpireStart \/ ExpireKeep \/ ExpireFree \/ ExpireCrash \/ ExpireEnd

Find(p) ==
    \E k \in Keys, part \in {"first", "last"}, b \in Buffers :
        FindMiss(p, k, part, b) \/ FindHit(p, k, part, b) \/ FindSpin(p, k, part, b)

Handle(p) ==
    \/ Get(p) \/ GetNone(p) \/ FillKey(p) \/ FillDesc(p)
    \/ Merge(p) \/ Put(p) \/ PutCrash(p) \/ Drop(p) \/ DropCrash(p)

Next ==
    \/ \E p \in Parsers : Find(p) \/ Handle(p)
    \/ Expire

Spec == Init /\ [][Next]_vars

\* A parser owns its core and runs; the walk ends because its list is finite.
FairSpec ==
    /\ Spec
    /\ \A p \in Parsers : WF_vars(Handle(p))
    /\ WF_vars(ExpireKeep \/ ExpireFree \/ ExpireCrash \/ ExpireEnd)

-----------------------------------------------------------------------------
(* Properties.                                                             *)

\* head .. tail is a doubly linked list through nodes of S only.
Chain(S, head, tail) ==
    /\ head = Null <=> S = {}
    /\ tail = Null <=> S = {}
    /\ head \in S \cup {Null} /\ tail \in S \cup {Null}
    /\ \A n \in S :
          /\ next[n] \in S \cup {Null} /\ pre[n] \in S \cup {Null}
          /\ next[n] = Null <=> n = tail
          /\ pre[n] = Null <=> n = head
          /\ next[n] # Null => pre[next[n]] = n
          /\ pre[n] # Null => next[pre[n]] = n

\* "newer" orders the nodes, and links never lead to a newer one.
Ordered ==
    /\ \A n, m \in Nodes : n # m => (<<n, m>> \in newer <=> <<m, n>> \notin newer)
    /\ \A n \in Nodes : <<n, n>> \notin newer
    /\ \A l, m, n \in Nodes :
          <<l, m>> \in newer /\ <<m, n>> \in newer => <<l, n>> \in newer
    /\ \A n \in Nodes : next[n] # Null => <<n, next[n]>> \in newer

\* Whatever the parsers do with nodes they have found and lost again, and
\* however often a node is put back, the chain stays two doubly linked lists
\* without a cycle, and the free list never becomes empty
\* (get_from_frag_pool, put_to_frag_pool, timeout_node_from_frag_pool).
ListInv ==
    /\ Chain(used, used_head, used_tail)
    /\ Chain(Nodes \ used, free_head, free_tail)
    /\ used # Nodes
    /\ Ordered

\* S is what following "next" from head visits, and nothing less.
VisitedFrom(head, S) ==
    /\ \A n \in S : next[n] \in S \cup {Null}
    /\ \A T \in SUBSET Nodes :
          head \in T \cup {Null} /\ (\A n \in T : next[n] \in T \cup {Null})
             => S \subseteq T

\* No node is lost: following "next" from the two heads meets every node, in
\* one list only (the walks of find_node_from_frag_pool and of the timeout).
EveryNodeInOneList ==
    /\ VisitedFrom(used_head, used)
    /\ VisitedFrom(free_head, Nodes \ used)

\* The timeout walk stays in the used list, although the nodes it frees move
\* to the other list under its feet, and keeps the mutex to itself
\* (timeout_node_from_frag_pool).
WalkInUsedList ==
    pc[Expirer] = "walk" => lock = Expirer /\ cur \in used \cup {Null}

\* A lookup in the chain ends, found or not ("查找节点", sig_fragment.c:190).
FindReturns == \A p \in Parsers : pc[p] = "spin" ~> pc[p] # "spin"
=============================================================================

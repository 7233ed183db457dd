---------------------------- MODULE BoundedFifo ----------------------------
(***************************************************************************)
(* What a shared queue of SigBee promises to the two processes that use    *)
(* it: a bounded first-in first-out buffer.  An item enters whole, leaves  *)
(* once, in the order it entered, and at most Capacity items are inside.   *)
(*                                                                         *)
(* The promise is the one written beside pop_index in every queue          *)
(* structure of include/sb_shared_queue.h: writable while push_index -     *)
(* pop_index < size, readable while push_index != pop_index.               *)
(***************************************************************************)
EXTENDS Naturals, Sequences

CONSTANTS
    Capacity,   \* number of items the buffer holds
    Items,      \* what may be stored
    NoItem      \* value of "out" before anything was delivered

VARIABLES
    q,          \* the items inside, oldest first
    out         \* the item delivered last

fifoVars == <<q, out>>

Init ==
    /\ q = << >>
    /\ out = NoItem

Put ==
    /\ Len(q) < Capacity
    /\ \E v \in Items : q' = Append(q, v)
    /\ UNCHANGED out

Get ==
    /\ q # << >>
    /\ out' = Head(q)
    /\ q' = Tail(q)

Next == Put \/ Get

Spec == Init /\ [][Next]_fifoVars

=============================================================================

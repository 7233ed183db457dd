---------------------------- MODULE RecordStream ----------------------------
(***************************************************************************)
(* What an xdr_sender promises the receiver of the records, who knows them *)
(* by their length only: one at a time and in the order they were queued,  *)
(* each record goes into the stream of a connection from its first unit to *)
(* its last without a gap, and it is settled there, once: delivered when a *)
(* connection has taken the whole of it, or abandoned when the socket was  *)
(* full.  A connection that breaks settles nothing: the next one takes the *)
(* record from its start.  A connection is torn, and its receiver loses    *)
(* the records' bounds, only when one was abandoned in the middle there.   *)
(*                                                                         *)
(* There is no program counter here, no offset into a buffer and no number *)
(* that the sender keeps: only what goes into the stream.                  *)
(***************************************************************************)
EXTENDS Naturals

CONSTANTS
    Len,        \* units of a record
    Room,       \* units the socket and the network hold
    MaxRecords  \* records there are

VARIABLES
    settled,    \* the records 1 .. settled are delivered or abandoned
    part,       \* units of the next one in the stream of the connection
    open,       \* does the connection take units ?
    unread,     \* units in it that were not read
    torn,       \* does a part of a record stand alone in its stream ?
    delivered,  \* records some connection took whole
    abandoned   \* records given up

streamVars == <<settled, part, open, unread, torn, delivered, abandoned>>

Init ==
    /\ settled = 0 /\ part = 0
    /\ open = FALSE /\ unread = 0 /\ torn = FALSE
    /\ delivered = {} /\ abandoned = {}

\* The stream takes the next n units of the record, the last ones perhaps.
Send(n) ==
    /\ open /\ settled < MaxRecords
    /\ part + n <= Len /\ unread + n <= Room
    /\ unread' = unread + n
    /\ \/ /\ part + n < Len
          /\ part' = part + n
          /\ UNCHANGED <<settled, delivered>>
       \/ /\ part + n = Len
          /\ part' = 0
          /\ settled' = settled + 1
          /\ delivered' = delivered \cup {settled + 1}
    /\ UNCHANGED <<open, torn, abandoned>>

\* The socket is full: what is in the stream of the record stays there.
Abandon ==
    /\ open /\ settled < MaxRecords
    /\ unread = Room
    /\ settled' = settled + 1
    /\ abandoned' = abandoned \cup {settled + 1}
    /\ torn' = (torn \/ part > 0)
    /\ part' = 0
    /\ UNCHANGED <<open, unread, delivered>>

Read ==
    /\ open /\ unread > 0
    /\ unread' = unread - 1
    /\ UNCHANGED <<settled, part, open, torn, delivered, abandoned>>

Break ==
    /\ open
    /\ open' = FALSE
    /\ unread' = 0
    /\ UNCHANGED <<settled, part, torn, delivered, abandoned>>

\* A new connection has an empty stream.
Reopen ==
    /\ ~open
    /\ open' = TRUE
    /\ unread' = 0 /\ part' = 0 /\ torn' = FALSE
    /\ UNCHANGED <<settled, delivered, abandoned>>

Next ==
    \/ \E n \in 1 .. Len : Send(n)
    \/ Abandon \/ Read \/ Break \/ Reopen

Spec == Init /\ [][Next]_streamVars

=============================================================================

----------------------------- MODULE XdrSender -----------------------------
(***************************************************************************)
(* An xdr_sender and its TCP connection to the receiver of the records.    *)
(* The sender takes a record from a queue, numbers it (sdtp_id) and calls  *)
(* send_xdr_pkt, which feeds it to a non-blocking socket bit by bit.  When *)
(* the socket has had no room for five seconds it gives the record up, and *)
(* when the connection is gone it makes a new one and starts the record    *)
(* again.  ui_socket.c has the same loop; ui_sender does not reach it.     *)
(*                                                                         *)
(* The receiver finds the records by their length: they have to follow     *)
(* each other on a connection without a gap.  A record is "Len" units      *)
(* here, and the socket has room for "Room" of them.  What is kept of a    *)
(* connection's stream is its last unit.                                   *)
(***************************************************************************)
EXTENDS Naturals

CONSTANTS
    Len,        \* units of a record: what one send() may split
    Room,       \* units the socket and the network hold
    MaxRecords, \* bound: records in the queue
    MaxBreaks   \* bound: connections that break

ASSUME LenAssumption == Len \in Nat \ {0}
ASSUME RoomAssumption == Room \in Nat \ {0}
ASSUME BoundAssumption == MaxRecords \in Nat /\ MaxBreaks \in Nat

VARIABLES
    pc,         \* where the sender stands
    record,     \* sdtp_id: number of the record at hand, and of those before
    sent,       \* units of it that send() has taken
    up,         \* is the connection usable ?
    breaks,     \* connections that have broken
    unread,     \* units in the socket that the receiver has not read
    end,        \* last unit of the connection's stream
    cut,        \* was a record given up in the middle on this connection ?
    complete,   \* records of which some connection took the whole
    givenUp     \* records the sender gave up

senderVars == <<pc, record, sent>>
connVars == <<up, breaks, unread, end, cut>>
vars == <<senderVars, connVars, complete, givenUp>>

Records == 1 .. MaxRecords

\* An empty stream ends as after a whole record 0.
Empty == [record |-> 0, unit |-> Len]

TypeOK ==
    /\ pc \in {"connect", "idle", "send"}
    /\ record \in 0 .. MaxRecords
    /\ sent \in 0 .. Len
    /\ up \in BOOLEAN
    /\ breaks \in 0 .. MaxBreaks
    /\ unread \in 0 .. Room
    /\ end \in [record : 0 .. MaxRecords, unit : 1 .. Len]
    /\ cut \in BOOLEAN
    /\ complete \subseteq Records
    /\ givenUp \subseteq Records

Init ==
    /\ pc = "connect" /\ record = 0 /\ sent = 0
    /\ up = FALSE /\ breaks = 0 /\ unread = 0 /\ end = Empty /\ cut = FALSE
    /\ complete = {} /\ givenUp = {}

-----------------------------------------------------------------------------
(* The sender.                                                             *)

\* Mutant: a new connection goes on where the old one stopped.
SentAfterConnect == sent

\* A record that was under way starts again.
SentAgain == 0

\* init_xdr_socket succeeds, at the start or after a failure; until then it
\* is called every second.
Connect ==
    /\ pc = "connect"
    /\ up' = TRUE /\ unread' = 0 /\ end' = Empty /\ cut' = FALSE
    /\ sent' = SentAgain
    /\ pc' = IF record = 0 THEN "idle" ELSE "send"
    /\ UNCHANGED <<record, breaks, complete, givenUp>>

\* xdr_send_sig_queue finds a record.
TakeRecord ==
    /\ pc = "idle" /\ record < MaxRecords
    /\ record' = record + 1
    /\ sent' = 0
    /\ pc' = "send"
    /\ UNCHANGED <<connVars, complete, givenUp>>

\* Mutant: a timeout is taken for room that is still to come.
AfterTimeoutAgain == "send"

\* The loop of send_xdr_pkt ends, and head and pop_index move.
AfterLoop == "idle"

\* size - sent.
Left == Len - sent

\* poll finds room and send takes n units.
SendSome(n) ==
    /\ pc = "send" /\ up
    /\ n <= Left /\ unread + n <= Room
    /\ sent' = sent + n
    /\ unread' = unread + n
    /\ end' = [record |-> record, unit |-> sent + n]
    /\ complete' = IF sent + n = Len THEN complete \cup {record} ELSE complete
    /\ pc' = IF sent + n = Len THEN AfterLoop ELSE "send"
    /\ UNCHANGED <<record, up, breaks, cut, givenUp>>

\* poll finds no room for five seconds.
TimeOut ==
    /\ pc = "send" /\ up
    /\ unread = Room
    /\ cut' = (cut \/ sent > 0)
    /\ givenUp' = givenUp \cup {record}
    /\ pc' = AfterLoop
    /\ UNCHANGED <<record, sent, up, breaks, unread, end, complete>>

\* Mutant: a record that fails is left out.
AfterFailureSkip == "idle"

AfterFailure == "connect"

\* send fails: exit_xdr_socket.
SendFails ==
    /\ pc = "send" /\ ~up
    /\ pc' = AfterFailure
    /\ UNCHANGED <<record, sent, connVars, complete, givenUp>>

-----------------------------------------------------------------------------
(* The receiver and the network.                                           *)

Receive ==
    /\ up /\ unread > 0
    /\ unread' = unread - 1
    /\ UNCHANGED <<senderVars, up, breaks, end, cut, complete, givenUp>>

\* The peer closes or resets; what it has not read is lost.
Break ==
    /\ up /\ breaks < MaxBreaks
    /\ up' = FALSE
    /\ breaks' = breaks + 1
    /\ unread' = 0
    /\ UNCHANGED <<senderVars, end, cut, complete, givenUp>>

Next ==
    \/ Connect \/ TakeRecord
    \/ \E n \in 1 .. Len : SendSome(n)
    \/ TimeOut \/ SendFails \/ Receive \/ Break

Spec == Init /\ [][Next]_vars

(***************************************************************************)
(* The sender is always about to do something, and poll returns.  Nothing  *)
(* obliges the receiver to read, or to accept a connection.                *)
(***************************************************************************)
FairSpec ==
    /\ Spec
    /\ WF_vars((\E n \in 1 .. Len : SendSome(n)) \/ TimeOut \/ SendFails)

-----------------------------------------------------------------------------
(* Properties.                                                             *)

\* Unit u of record r may come after the end of the stream.
Follows(r, u) ==
    IF end.unit = Len THEN u = 1 ELSE r = end.record /\ u = end.unit + 1

\* Whatever is split, refused or sent again after a failure, the records
\* follow each other without a gap on every connection on which none was
\* given up in the middle (send_xdr_pkt).
Framed ==
    [][\A n \in 1 .. Len : SendSome(n) /\ ~cut => Follows(record, sent + 1)]_vars

\* Nothing of a record is sent once a connection has taken the whole of it, or
\* once it was given up, or after a later one, also when connections break at
\* the worst moment.
OnceInOrder ==
    [][\A n \in 1 .. Len :
          SendSome(n) => \A r \in complete \cup givenUp : r < record]_vars

\* A record leaves the queue when it was sent, or given up after five
\* seconds without room; no failure of a connection loses one on the way to
\* the socket.
NoneSkipped ==
    \A r \in 1 .. record :
        r \in complete \cup givenUp \/ (r = record /\ pc # "idle")

\* Records that are done with: a sender that is not idle still has one to send.
Settled == IF pc = "idle" \/ record = 0 THEN record ELSE record - 1

\* What the connection's stream holds of the record at hand.
Part ==
    IF pc # "idle" /\ end.record = record /\ end.unit < Len THEN end.unit ELSE 0

Stream == INSTANCE RecordStream WITH
    settled <- Settled, part <- Part, open <- up, torn <- cut,
    delivered <- complete, abandoned <- givenUp

\* The sender keeps its promise to the receiver (RecordStream): however send()
\* splits the records and whenever connections break, each one goes into a
\* stream from start to end and is settled once, in order, and only a record
\* given up in the middle leaves a part of itself on a connection that goes on.
StreamSpec == Stream!Spec

\* The loop of send_xdr_pkt ends, or finds the connection gone: a receiver
\* that stops reading does not hold the sender for ever.
SendEnds == pc = "send" ~> pc # "send"

\* What the receiver of test/xdr_receiver takes for granted ("NOT a SDTP packet" otherwise):
\* the records follow each other without a gap on every connection, also after five seconds
\* without room.  A record given up in the middle breaks it.
FramedThroughout == [][\A n \in 1 .. Len : SendSome(n) => Follows(record, sent + 1)]_vars
=============================================================================

-------------------------- MODULE XdrSenderProofs --------------------------
(* What holds of XdrSender for every record length and room in the socket. *)
EXTENDS XdrSender, TLAPS

Done == complete \cup givenUp

\* Every record before the one at hand is done, and that one is exactly when
\* the sender is idle.
DoneUpTo ==
    /\ \A r \in Done : r <= record
    /\ \A r \in 1 .. record : r \in Done \/ r = record
    /\ pc = "idle" /\ record # 0 => record \in Done
    /\ pc # "idle" => record \notin Done

Standing ==
    /\ pc = "connect" => ~up
    /\ pc = "send" => record # 0 /\ sent < Len

\* The stream ends where the record at hand stands.  Otherwise it ends with a
\* whole record, unless one was given up in the middle of it.
EndMatches ==
    /\ end.record <= record
    /\ pc = "send" /\ sent > 0 => end = [record |-> record, unit |-> sent]
    /\ pc = "send" /\ sent = 0 => end.record # record \/ end.unit = Len
    /\ up /\ ~cut /\ (pc = "send" => sent = 0) => end.unit = Len

IInv == TypeOK /\ DoneUpTo /\ Standing /\ EndMatches

-----------------------------------------------------------------------------

\* The end of an empty stream is one, and that of a whole record.
LEMMA EmptyEnd ==
    /\ Empty \in [record : 0 .. MaxRecords, unit : 1 .. Len]
    /\ Empty.unit = Len /\ Empty.record = 0
  BY LenAssumption, BoundAssumption DEF Empty

\* IInv holds at first, when there is no record and no connection.
LEMMA Start == Init => IInv
<1> SUFFICES ASSUME Init PROVE IInv
  OBVIOUS
<1> USE LenAssumption, RoomAssumption, BoundAssumption DEF Init
<1>0. up \in BOOLEAN /\ cut \in BOOLEAN
  BY Zenon
<1>1. TypeOK
  BY <1>0, EmptyEnd DEF TypeOK
<1>2. DoneUpTo /\ Standing /\ EndMatches
  BY EmptyEnd DEF DoneUpTo, Standing, EndMatches, Done
<1> QED
  BY <1>1, <1>2 DEF IInv

\* Every step of the sender, the receiver and the network keeps IInv.
LEMMA Step == IInv /\ [Next]_vars => IInv'
<1> SUFFICES ASSUME IInv, [Next]_vars PROVE IInv'
  OBVIOUS
<1> USE LenAssumption, RoomAssumption, BoundAssumption
    DEF IInv, TypeOK, DoneUpTo, Standing, EndMatches, Done, Records,
        senderVars, connVars
<1>1. CASE Connect
  <2> USE <1>1 DEF Connect, SentAgain
  <2>0. up' \in BOOLEAN /\ cut' \in BOOLEAN
    BY Zenon
  <2>1. TypeOK'
    BY <2>0, EmptyEnd
  <2>2. DoneUpTo' /\ Standing' /\ EndMatches'
    BY EmptyEnd
  <2> QED
    BY <2>1, <2>2
<1>2. CASE TakeRecord
  BY <1>2 DEF TakeRecord
<1>3. ASSUME NEW n \in 1 .. Len, SendSome(n)
      PROVE  IInv'
  <2> USE <1>3 DEF SendSome, Left, AfterLoop
  <2>1. TypeOK'
    OBVIOUS
  <2>2. DoneUpTo'
    OBVIOUS
  <2>3. Standing'
    OBVIOUS
  <2>4. /\ end' = [record |-> record, unit |-> sent + n]
        /\ end'.record = record /\ end'.unit = sent + n
        /\ record' = record /\ sent' = sent + n /\ sent' > 0
        /\ sent + n # Len => pc' = "send"
        /\ sent + n = Len => pc' = "idle"
    OBVIOUS
  <2>5. EndMatches'
    BY <2>4
  <2> QED
    BY <2>1, <2>2, <2>3, <2>5
<1>4. CASE TimeOut
  <2> USE <1>4 DEF TimeOut, AfterLoop
  <2>1. TypeOK'
    OBVIOUS
  <2>2. DoneUpTo'
    OBVIOUS
  <2>3. Standing'
    OBVIOUS
  <2>4. ~cut' => ~cut /\ ~(sent > 0)
    BY Zenon
  <2>5. sent \in Nat /\ pc = "send" /\ pc' = "idle" /\ up
    OBVIOUS
  <2>6. EndMatches'
    BY <2>4, <2>5
  <2> QED
    BY <2>1, <2>2, <2>3, <2>6
<1>5. CASE SendFails
  BY <1>5 DEF SendFails, AfterFailure
<1>6. CASE Receive
  BY <1>6 DEF Receive
<1>7. CASE Break
  <2> USE <1>7 DEF Break
  <2>0. up' \in BOOLEAN
    BY Zenon
  <2>1. TypeOK'
    BY <2>0
  <2>2. DoneUpTo' /\ Standing' /\ EndMatches'
    OBVIOUS
  <2> QED
    BY <2>1, <2>2
<1>8. CASE UNCHANGED vars
  BY <1>8 DEF vars
<1> QED
  BY <1>1, <1>2, <1>3, <1>4, <1>5, <1>6, <1>7, <1>8 DEF Next

\* IInv is an invariant: the three facts above in one.
LEMMA Invariant == Spec => []IInv
  BY Start, Step, PTL DEF Spec

\* The sender's and the connection's variables stay in their types, so sent
\* never passes the size of the record (xdr_socket.c, send_xdr_pkt).
THEOREM SenderType == Spec => []TypeOK
<1>1. IInv => TypeOK
  BY DEF IInv
<1> QED
  BY <1>1, Invariant, PTL

\* No failure of a connection makes the sender leave a record out: each one
\* is sent whole or given up after five seconds without room.
THEOREM NoRecordSkipped == Spec => []NoneSkipped
<1>1. IInv => NoneSkipped
  BY BoundAssumption DEF IInv, TypeOK, DoneUpTo, Done, NoneSkipped
<1> QED
  BY <1>1, Invariant, PTL

\* On a connection without a record given up in the middle, every send goes on
\* where the stream ends, however send() splits the records.
THEOREM StreamFramed == Spec => Framed
<1>1. ASSUME IInv, NEW n \in 1 .. Len, SendSome(n), ~cut
      PROVE  Follows(record, sent + 1)
  BY <1>1, LenAssumption
  DEF IInv, TypeOK, DoneUpTo, Standing, EndMatches, Done, SendSome, Left, Follows
<1>2. IInv => \A n \in 1 .. Len : SendSome(n) /\ ~cut => Follows(record, sent + 1)
  BY <1>1
<1> QED
  BY <1>2, Invariant, PTL DEF Framed

\* Nothing of a record is sent once it is done, or after a later one.
THEOREM SentOnceInOrder == Spec => OnceInOrder
<1>1. ASSUME IInv, NEW n \in 1 .. Len, SendSome(n)
      PROVE  \A r \in complete \cup givenUp : r < record
  BY <1>1, BoundAssumption
  DEF IInv, TypeOK, DoneUpTo, Done, Records, SendSome
<1>2. IInv => \A n \in 1 .. Len :
                SendSome(n) => \A r \in complete \cup givenUp : r < record
  BY <1>1
<1> QED
  BY <1>2, Invariant, PTL DEF OnceInOrder

-----------------------------------------------------------------------------
(* The sender keeps its promise to the receiver: each action is a step of  *)
(* RecordStream, or changes nothing that the receiver could tell.          *)

\* While a record is being sent to a connection that takes it, the stream
\* holds of it exactly what send() has taken.
LEMMA PartIsSent ==
    ASSUME IInv, pc = "send"
    PROVE  /\ record \in 1 .. MaxRecords /\ Settled = record - 1
           /\ sent \in 0 .. Len - 1 /\ Part = sent
<1> USE LenAssumption, BoundAssumption
    DEF IInv, TypeOK, Standing, EndMatches, Settled, Part
<1>1. /\ record \in 1 .. MaxRecords /\ Settled = record - 1
      /\ sent \in 0 .. Len - 1
  OBVIOUS
<1>2. CASE sent = 0
  BY <1>1, <1>2
<1>3. CASE sent > 0
  BY <1>1, <1>3
<1> QED
  BY <1>1, <1>2, <1>3

\* send takes units: the stream takes them.
LEMMA SendIsSend ==
    ASSUME IInv, NEW n \in 1 .. Len, SendSome(n)
    PROVE  Stream!Send(n)
<1>1. /\ record \in 1 .. MaxRecords /\ Settled = record - 1
      /\ sent \in 0 .. Len - 1 /\ Part = sent
  BY PartIsSent DEF SendSome
<1>2. /\ up /\ n <= Len - sent /\ unread + n <= Room
      /\ unread' = unread + n /\ record' = record
  BY DEF SendSome, Left
<1>3. UNCHANGED <<up, cut, givenUp>>
  BY DEF SendSome
<1>4. CASE sent + n = Len
  <2>1. pc' = "idle" /\ complete' = complete \cup {record}
    BY <1>4 DEF SendSome, AfterLoop
  <2>2. Settled' = Settled + 1 /\ Settled + 1 = record /\ Part' = 0
    BY <1>1, <1>2, <2>1 DEF Settled, Part
  <2> QED
    BY <1>1, <1>2, <1>3, <1>4, <2>1, <2>2, LenAssumption, BoundAssumption
    DEF Stream!Send
<1>5. CASE sent + n # Len
  <2>1. /\ pc' = "send" /\ complete' = complete
        /\ end' = [record |-> record, unit |-> sent + n]
    BY <1>5 DEF SendSome
  <2>2. sent + n < Len
    BY <1>1, <1>2, <1>5, LenAssumption
  <2>3. Settled' = Settled /\ Part' = Part + n
    BY <1>1, <1>2, <2>1, <2>2 DEF Settled, Part
  <2> QED
    BY <1>1, <1>2, <1>3, <2>1, <2>2, <2>3, LenAssumption, BoundAssumption
    DEF Stream!Send
<1> QED
  BY <1>4, <1>5

\* Five seconds without room: the record is abandoned where it stands.
LEMMA TimeOutIsAbandon ==
    ASSUME IInv, TimeOut
    PROVE  Stream!Abandon
<1>1. /\ record \in 1 .. MaxRecords /\ Settled = record - 1
      /\ sent \in 0 .. Len - 1 /\ Part = sent
  BY PartIsSent DEF TimeOut
<1>2. /\ up /\ unread = Room /\ record' = record /\ pc' = "idle"
      /\ givenUp' = givenUp \cup {record}
  BY DEF TimeOut, AfterLoop
<1>3. cut' = (cut \/ Part > 0) /\ UNCHANGED <<up, unread, complete>>
  BY <1>1, Zenon DEF TimeOut
<1>4. Settled' = Settled + 1 /\ Settled + 1 = record /\ Part' = 0
  BY <1>1, <1>2 DEF Settled, Part
<1>5. Settled < MaxRecords
  BY <1>1, BoundAssumption
<1> QED
  BY <1>2, <1>3, <1>4, <1>5 DEF Stream!Abandon

\* A new connection starts with the record at hand, if there is one.
LEMMA ConnectIsReopen ==
    ASSUME IInv, Connect
    PROVE  Stream!Reopen
<1>1. ~up /\ UNCHANGED <<complete, givenUp>>
  BY DEF IInv, Standing, Connect
<1>2. up' = TRUE /\ cut' = FALSE /\ unread' = 0
  BY DEF Connect
<1>3. Settled' = Settled
  BY DEF Connect, Settled
<1>4. Part' = 0
  BY EmptyEnd, LenAssumption DEF Connect, Part
<1> QED
  BY <1>1, <1>2, <1>3, <1>4 DEF Stream!Reopen

\* A record that is taken from the queue is not in the stream yet.
LEMMA TakeIsStutter ==
    ASSUME IInv, TakeRecord
    PROVE  UNCHANGED Stream!streamVars
<1>1. UNCHANGED <<up, unread, cut, complete, givenUp>>
  BY DEF TakeRecord, connVars
<1>2. Settled' = Settled
  BY DEF IInv, TypeOK, TakeRecord, Settled
<1>3. Part' = Part
  <2>1. /\ record \in Nat /\ end.record \in Nat /\ end.record <= record
        /\ record' = record + 1 /\ end' = end /\ pc = "idle"
    BY BoundAssumption DEF IInv, TypeOK, EndMatches, TakeRecord, connVars
  <2>2. end'.record # record'
    BY <2>1
  <2> QED
    BY <2>1, <2>2 DEF Part
<1> QED
  BY <1>1, <1>2, <1>3 DEF Stream!streamVars

\* Whatever leaves the sender's place, record and stream alone leaves the
\* abstract record and its part alone.
LEMMA SameStanding ==
    ASSUME UNCHANGED <<record, end>>, (pc = "idle") <=> (pc' = "idle")
    PROVE  Settled' = Settled /\ Part' = Part
BY DEF Settled, Part

\* Every step of the system is a step of the stream or a stutter.
LEMMA NextIsStreamStep ==
    ASSUME IInv, [Next]_vars
    PROVE  [Stream!Next]_(Stream!streamVars)
<1>1. CASE Connect
  BY <1>1, ConnectIsReopen DEF Stream!Next
<1>2. CASE TakeRecord
  BY <1>2, TakeIsStutter
<1>3. ASSUME NEW n \in 1 .. Len, SendSome(n)
      PROVE  Stream!Next
  BY <1>3, SendIsSend DEF Stream!Next
<1>4. CASE TimeOut
  BY <1>4, TimeOutIsAbandon DEF Stream!Next
<1>5. CASE SendFails
  <2>1. /\ UNCHANGED <<record, end, up, unread, cut, complete, givenUp>>
        /\ pc = "send" /\ pc' = "connect"
    BY <1>5 DEF SendFails, AfterFailure, connVars
  <2> QED
    BY <2>1, SameStanding DEF Stream!streamVars
<1>6. CASE Receive
  <2>1. /\ UNCHANGED <<pc, record, end, up, cut, complete, givenUp>>
        /\ up /\ unread > 0 /\ unread' = unread - 1
    BY <1>6 DEF Receive, senderVars
  <2>2. Settled' = Settled /\ Part' = Part
    BY <2>1, SameStanding
  <2> QED
    BY <2>1, <2>2 DEF Stream!Read, Stream!Next
<1>7. CASE Break
  <2>1. /\ UNCHANGED <<pc, record, end, cut, complete, givenUp>>
        /\ up /\ up' = FALSE /\ unread' = 0
    BY <1>7 DEF Break, senderVars
  <2>2. Settled' = Settled /\ Part' = Part
    BY <2>1, SameStanding
  <2> QED
    BY <2>1, <2>2 DEF Stream!Break, Stream!Next
<1>8. CASE UNCHANGED vars
  <2>1. UNCHANGED <<pc, record, end, up, unread, cut, complete, givenUp>>
    BY <1>8 DEF vars, senderVars, connVars
  <2> QED
    BY <2>1, SameStanding DEF Stream!streamVars
<1> QED
  BY <1>1, <1>2, <1>3, <1>4, <1>5, <1>6, <1>7, <1>8 DEF Next

\* The sender with its loop, its offset and its timeout implements the stream
\* of records, for every record length, room in the socket and number of
\* connections that break.
THEOREM ImplementsStream == Spec => StreamSpec
<1>1. Init => Stream!Init
  <2> SUFFICES ASSUME Init PROVE Stream!Init
    OBVIOUS
  <2>1. Settled = 0 /\ Part = 0
    BY EmptyEnd, LenAssumption DEF Init, Settled, Part
  <2>2. up = FALSE /\ cut = FALSE /\ unread = 0 /\ complete = {} /\ givenUp = {}
    BY DEF Init
  <2> QED
    BY <2>1, <2>2 DEF Stream!Init
<1>2. IInv /\ [Next]_vars => [Stream!Next]_(Stream!streamVars)
  BY NextIsStreamStep
<1> QED
  BY <1>1, <1>2, Invariant, PTL DEF Spec, StreamSpec, Stream!Spec
=============================================================================

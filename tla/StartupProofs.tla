---------------------------- MODULE StartupProofs ----------------------------
(***************************************************************************)
(* What main sets up: for all numbers of processes the workers that the    *)
(* supervisor starts and stops (Lifecycle), and which of them work on      *)
(* which queue (QueueWiring), for all kinds of queue but sp_user, whose    *)
(* readers compute a base of their own; and for all files what the readers *)
(* of the configuration make of them (Config).                             *)
(*                                                                         *)
(* The entries of a line are taken one after the other by a recursive      *)
(* function.  What it makes of all lines is shown with sets of numbers: a  *)
(* set that holds 0, and with each number the next, holds them all         *)
(* (Induct), so that what is good stays good when a step that keeps it so  *)
(* is repeated (Iterate, LineGood).                                        *)
(***************************************************************************)
EXTENDS Lifecycle, QueueWiring, Config, FiniteSetTheorems, SequenceTheorems, WellFoundedInduction, TLAPS

(***************************************************************************)
(* AtMostOneLeft needs to know, while the supervisor waits, that one wait  *)
(* more than it has still to make would be enough.                         *)
(***************************************************************************)
WaitsSuffice == sup = "wait" => Cardinality(Unreaped) <= need + 1

IInv == TypeOK /\ RunningHoldsName /\ WaitsSuffice /\ AtMostOneLeft

-----------------------------------------------------------------------------

\* The workers are finitely many, and so are those not waited for.
LEMMA Finite ==
    /\ IsFiniteSet(Unreaped)
    /\ Cardinality(Unreaped) \in Nat
    /\ Cardinality(Unreaped) <= NumWorkers
<1>1. IsFiniteSet(Workers) /\ Cardinality(Workers) = NumWorkers
  BY FS_Interval, WorkersAssumption DEF Workers
<1>2. Unreaped \subseteq Workers
  BY DEF Unreaped
<1> QED
  BY <1>1, <1>2, FS_Subset, FS_CardinalityType

\* A step that makes no worker an unreaped one keeps their number down.
LEMMA NoMore ==
    ASSUME Unreaped' \subseteq Unreaped
    PROVE  /\ Cardinality(Unreaped') \in Nat
           /\ Cardinality(Unreaped') <= Cardinality(Unreaped)
  BY Finite, FS_Subset, FS_CardinalityType

\* Only fork makes a worker an unreaped one.
LEMMA OnlyForkAdds ==
    ASSUME TypeOK, [Next]_vars, ~Fork
    PROVE  Unreaped' \subseteq Unreaped
<1> USE DEF TypeOK, Unreaped, Places, bounds, supVars
<1>1. CASE Supervisor
  BY <1>1 DEF Supervisor, Start, InitFails, InitSucceeds, ForkFails, EnterLoop,
       PollExit, HandleTerm, Reap, NoChild, LeaveHandler, ReleaseResource,
       DeleteNameMutex
<1>2. CASE \E w \in Workers : Worker(w)
  BY <1>2 DEF Worker, SetProcessId, EnterMainLoop, LeaveMain, LeavesMain,
       WorkerTerm, ForkedTerm, Exit
<1>3. CASE Outside
  BY <1>3 DEF Outside, Crash, CrashSupervisor, Signal, Alive
<1>4. CASE UNCHANGED vars
  BY <1>4 DEF vars
<1> QED
  BY <1>1, <1>2, <1>3, <1>4 DEF Next

\* Every step of every process keeps the types.
LEMMA TypeStep == TypeOK /\ [Next]_vars => TypeOK'
<1> SUFFICES ASSUME TypeOK, [Next]_vars PROVE TypeOK'
  OBVIOUS
<1> USE WorkersAssumption, BoundAssumption
    DEF TypeOK, Places, Workers, Sup, bounds, supVars
<1>1. CASE Start
  <2>1. loc' \in [Workers -> Places]
    BY <1>1 DEF Start
  <2>2. starts' \in 0 .. MaxStarts /\ signals' \in 0 .. MaxSignals
    BY <1>1 DEF Start
  <2>3. forks' \in 0 .. NumWorkers /\ need' \in 0 .. NumWorkers
    BY <1>1 DEF Start
  <2> QED
    BY <1>1, <2>1, <2>2, <2>3, Zenon DEF Start
<1>2. CASE InitFails
  BY <1>2 DEF InitFails
<1>3. CASE InitSucceeds
  BY <1>3 DEF InitSucceeds
<1>4. CASE ForkFails
  BY <1>4 DEF ForkFails
<1>5. CASE EnterLoop
  BY <1>5 DEF EnterLoop
<1>6. CASE Fork
  <2>1. forks + 1 \in Workers
    BY <1>6 DEF Fork
  <2> QED
    BY <1>6, <2>1 DEF Fork
<1>7. CASE PollExit
  <2>1. term' \subseteq Workers \cup {Sup}
    BY <1>7 DEF PollExit, Told, Living
  <2>2. need' \in 0 .. NumWorkers
    BY <1>7 DEF PollExit, Waits
  <2> QED
    BY <1>7, <2>1, <2>2 DEF PollExit
<1>8. CASE HandleTerm
  BY <1>8 DEF HandleTerm, Waits
<1>9. CASE Reap
  BY <1>9 DEF Reap
<1>10. CASE NoChild
  BY <1>10 DEF NoChild
<1>11. CASE LeaveHandler
  BY <1>11 DEF LeaveHandler, FinalKill, Living
<1>12. CASE ReleaseResource
  BY <1>12 DEF ReleaseResource
<1>13. CASE DeleteNameMutex
  BY <1>13 DEF DeleteNameMutex
<1>14. CASE \E w \in Workers : Worker(w)
  <2>1. PICK w \in Workers : Worker(w)
    BY <1>14
  <2>2. CASE SetProcessId(w)
    BY <2>2 DEF SetProcessId
  <2>3. CASE EnterMainLoop(w)
    BY <2>3 DEF EnterMainLoop
  <2>4. CASE LeaveMain(w)
    BY <2>4 DEF LeaveMain
  <2>5. CASE WorkerTerm(w)
    BY <2>5 DEF WorkerTerm
  <2>6. CASE ForkedTerm(w)
    BY <2>6 DEF ForkedTerm, Living
  <2>7. CASE Exit(w)
    BY <2>7 DEF Exit, SemAfterExit
  <2> QED
    BY <2>1, <2>2, <2>3, <2>4, <2>5, <2>6, <2>7, Zenon DEF Worker
<1>15. CASE \E w \in Workers : Crash(w)
  BY <1>15 DEF Crash
<1>16. CASE CrashSupervisor
  BY <1>16 DEF CrashSupervisor
<1>17. CASE (\E w \in Workers : Signal({w})) \/ Signal({Sup}) \/ Signal(Living \cup {Sup})
  <2>1. term' \subseteq Workers \cup {Sup}
    <3>1. PICK group : Signal(group)
      BY <1>17, Zenon
    <3>2. group \subseteq Workers \cup {Sup}
      BY <3>1 DEF Signal, Living
    <3> QED
      BY <3>1, <3>2 DEF Signal
  <2>2. signals' \in 0 .. MaxSignals
    BY <1>17 DEF Signal
  <2> QED
    BY <1>17, <2>1, <2>2 DEF Signal
<1>18. CASE UNCHANGED vars
  BY <1>18 DEF vars
<1> QED
  BY <1>1, <1>2, <1>3, <1>4, <1>5, <1>6, <1>7, <1>8, <1>9,
     <1>10, <1>11, <1>12, <1>13, <1>14, <1>15, <1>16, <1>17, <1>18
     DEF Next, Supervisor, Outside

\* Only the supervisor's last step unlinks the name.
LEMMA NameStep == RunningHoldsName /\ [Next]_vars => RunningHoldsName'
<1> SUFFICES ASSUME RunningHoldsName, [Next]_vars PROVE RunningHoldsName'
  OBVIOUS
<1> USE DEF RunningHoldsName, bounds, supVars
<1>1. CASE Supervisor
  BY <1>1 DEF Supervisor, Start, InitFails, InitSucceeds, Fork, ForkFails,
       EnterLoop, PollExit, HandleTerm, Reap, NoChild, LeaveHandler,
       ReleaseResource, DeleteNameMutex
<1>2. CASE \E w \in Workers : Worker(w)
  BY <1>2 DEF Worker, SetProcessId, EnterMainLoop, LeaveMain, WorkerTerm,
       ForkedTerm, Exit, SemAfterExit
<1>3. CASE Outside
  BY <1>3 DEF Outside, Crash, CrashSupervisor, Signal
<1>4. CASE UNCHANGED vars
  BY <1>4 DEF vars
<1> QED
  BY <1>1, <1>2, <1>3, <1>4 DEF Next

\* The count of the waits: a stop begins with enough of them, each takes one
\* worker off or finds none, and no worker is forked meanwhile.
LEMMA CountStep ==
    TypeOK /\ WaitsSuffice /\ AtMostOneLeft /\ [Next]_vars
        => WaitsSuffice' /\ AtMostOneLeft'
<1> SUFFICES ASSUME TypeOK, WaitsSuffice, AtMostOneLeft, [Next]_vars
             PROVE  WaitsSuffice' /\ AtMostOneLeft'
  OBVIOUS
<1>0. /\ need \in Nat /\ NumWorkers \in Nat \ {0}
      /\ Cardinality(Unreaped) \in Nat /\ Cardinality(Unreaped) <= NumWorkers
  BY Finite, WorkersAssumption DEF TypeOK
<1>1. CASE Fork
  BY <1>1 DEF Fork, WaitsSuffice, AtMostOneLeft
<1>2. CASE ~Fork
  <2>1. /\ Cardinality(Unreaped') \in Nat
        /\ Cardinality(Unreaped') <= Cardinality(Unreaped)
    BY <1>2, OnlyForkAdds, NoMore
  <2>2. CASE PollExit \/ HandleTerm
    BY <2>1, <2>2, <1>0 DEF PollExit, HandleTerm, Waits, WaitsSuffice, AtMostOneLeft
  <2>3. CASE Reap
    <3>1. PICK w \in Workers :
            loc[w] = "zombie" /\ loc' = [loc EXCEPT ![w] = "gone"]
      BY <2>3 DEF Reap
    <3>2. w \in Unreaped /\ Unreaped' = Unreaped \ {w}
      BY <3>1 DEF Unreaped, TypeOK
    <3>3. Cardinality(Unreaped') = Cardinality(Unreaped) - 1
      BY <3>2, Finite, FS_RemoveElement
    <3> QED
      BY <3>3, <2>3, <1>0 DEF Reap, WaitsSuffice, AtMostOneLeft
  <2>4. CASE NoChild
    <3>1. Unreaped = {}
      BY <2>4 DEF NoChild, Unreaped
    <3>2. Cardinality(Unreaped) = 0
      BY <3>1, FS_EmptySet
    <3> QED
      BY <3>2, <2>1, <2>4, <1>0 DEF NoChild, WaitsSuffice, AtMostOneLeft
  <2>5. CASE LeaveHandler
    BY <2>1, <2>5, <1>0 DEF LeaveHandler, WaitsSuffice, AtMostOneLeft
  <2>6. CASE ReleaseResource \/ DeleteNameMutex
    BY <2>1, <2>6, <1>0 DEF ReleaseResource, DeleteNameMutex, WaitsSuffice, AtMostOneLeft
  <2>7. CASE Start \/ InitFails \/ InitSucceeds \/ ForkFails \/ EnterLoop
    BY <2>7 DEF Start, InitFails, InitSucceeds, ForkFails, EnterLoop,
         WaitsSuffice, AtMostOneLeft
  <2>8. CASE CrashSupervisor
    BY <2>8 DEF CrashSupervisor, WaitsSuffice, AtMostOneLeft
  <2>9. CASE UNCHANGED supVars
    BY <2>1, <2>9, <1>0 DEF supVars, WaitsSuffice, AtMostOneLeft
  <2>10. \/ Supervisor \/ CrashSupervisor \/ UNCHANGED supVars
    BY DEF Next, Outside, Worker, SetProcessId, EnterMainLoop, LeaveMain,
         WorkerTerm, ForkedTerm, Exit, Crash, Signal, vars, supVars
  <2> QED
    BY <1>2, <2>2, <2>3, <2>4, <2>5, <2>6, <2>7, <2>8, <2>9, <2>10 DEF Supervisor
<1> QED
  BY <1>1, <1>2

\* IInv is inductive.
THEOREM Inductive == Spec => []IInv
<1>1. Init => IInv
  <2> SUFFICES ASSUME Init PROVE IInv
    OBVIOUS
  <2>1. loc \in [Workers -> Places]
    BY DEF Init, Places
  <2>2. /\ starts \in 0 .. MaxStarts /\ signals \in 0 .. MaxSignals
        /\ forks \in 0 .. NumWorkers /\ need \in 0 .. NumWorkers
    BY WorkersAssumption, BoundAssumption DEF Init
  <2>3. TypeOK
    BY <2>1, <2>2, Zenon DEF Init, TypeOK
  <2>4. RunningHoldsName /\ WaitsSuffice /\ AtMostOneLeft
    BY DEF Init, RunningHoldsName, WaitsSuffice, AtMostOneLeft
  <2> QED
    BY <2>3, <2>4 DEF IInv
<1>2. IInv /\ [Next]_vars => IInv'
  BY TypeStep, NameStep, CountStep DEF IInv
<1> QED
  BY <1>1, <1>2, PTL DEF Spec

\* The variables keep their types.
THEOREM TypeCorrect == Spec => []TypeOK
  BY Inductive, PTL DEF IInv

\* Until the supervisor's last step no second instance can start, however the
\* workers end.
THEOREM RunningHoldsNameAlways == Spec => []RunningHoldsName
  BY Inductive, PTL DEF IInv

\* With any number of workers, crashes and signals, at most one worker is left
\* when the shared memory is freed.
THEOREM AtMostOneLeftAlways == Spec => []AtMostOneLeft
  BY Inductive, PTL DEF IInv

-----------------------------------------------------------------------------
(* The queues.                                                             *)

\* The numbers a layout is made of are not zero.
LEMMA Counts ==
    ASSUME WiringTypeOK
    PROVE  /\ NumWriters \in Nat \ {0} /\ Fan \in Nat \ {0}
           /\ NumReaders \in Nat \ {0} /\ Polled \in Nat \ {0}
  BY WiringAssumption DEF WiringTypeOK, Sizes, NumWriters, Fan, NumReaders, Polled, IsSp, IsXdr,
                         NR_SP, NR_DATA, NR_XDR, NR_DPI

\* An entry of row a lies before row b, if a does.
LEMMA RowBefore ==
    ASSUME NEW a \in Nat, NEW b \in Nat, NEW n \in Nat, NEW i \in 0 .. n - 1, a < b
    PROVE  a * n + i \in Nat /\ a * n + i < b * n
<1> DEFINE d == b - (a + 1)
<1>1. d \in Nat /\ b = a + 1 + d
  OBVIOUS
<1>2. b * n = a * n + n + d * n
  <2>1. (a + 1 + d) * n = a * n + n + d * n
    BY <1>1
  <2> QED
    BY <1>1, <2>1
<1>3. a * n \in Nat /\ d * n \in Nat
  BY <1>1
<1> HIDE DEF d
<1> QED
  BY <1>2, <1>3

\* Different rows have no entry in common.
LEMMA RowsApart ==
    ASSUME NEW a \in Nat, NEW b \in Nat, NEW n \in Nat,
           NEW i \in 0 .. n - 1, NEW j \in 0 .. n - 1, a # b
    PROVE  a * n + i # b * n + j
<1>1. CASE a < b
  <2>1. a * n + i < b * n /\ b * n \in Nat /\ a * n \in Nat
    BY <1>1, RowBefore
  <2> QED
    BY <2>1
<1>2. CASE b < a
  <2>1. b * n + j < a * n /\ b * n \in Nat /\ a * n \in Nat
    BY <1>2, RowBefore
  <2> QED
    BY <2>1
<1> QED
  BY <1>1, <1>2

-----------------------------------------------------------------------------

\* Every producer's queues are in the array.
LEMMA WriterIn ==
    ASSUME WiringTypeOK, NEW p \in 0 .. NumWriters - 1, NEW i \in 0 .. Fan - 1
    PROVE  WriterIndex(p, i) \in 0 .. Num - 1
<1>1. NumWriters \in Nat \ {0} /\ Fan \in Nat \ {0}
  BY Counts
<1>2. CASE IsSp
  <2>1. NumWriters = NR_SP
    BY <1>2 DEF NumWriters
  <2>2. i * NumWriters + p \in Nat /\ i * NumWriters + p < Fan * NumWriters
    BY <1>1, RowBefore
  <2>3. Fan * NumWriters = NumWriters * Fan /\ Fan * NumWriters \in Nat
    BY <1>1
  <2> QED
    BY <1>2, <2>1, <2>2, <2>3 DEF WriterIndex, Num
<1>3. CASE ~IsSp
  <2>1. p * Fan + i \in Nat /\ p * Fan + i < NumWriters * Fan
    BY <1>1, RowBefore
  <2>2. NumWriters * Fan \in Nat
    BY <1>1
  <2> QED
    BY <1>3, <2>1, <2>2 DEF WriterIndex, Num
<1> QED
  BY <1>2, <1>3

\* Two producers' queues are different ones.
LEMMA WritersApart ==
    ASSUME WiringTypeOK, NEW p \in 0 .. NumWriters - 1, NEW r \in 0 .. NumWriters - 1, p # r,
           NEW i \in 0 .. Fan - 1, NEW j \in 0 .. Fan - 1
    PROVE  WriterIndex(p, i) # WriterIndex(r, j)
<1>1. NumWriters \in Nat \ {0} /\ Fan \in Nat \ {0}
  BY Counts
<1>2. CASE IsSp
  <2>1. NumWriters = NR_SP
    BY <1>2 DEF NumWriters
  <2>2. i * NumWriters + p # j * NumWriters + r
    <3>1. CASE i = j
      <4>1. i * NumWriters \in Nat
        BY <1>1
      <4> QED
        BY <3>1, <4>1
    <3>2. CASE i # j
      BY <1>1, <3>2, RowsApart
    <3> QED
      BY <3>1, <3>2
  <2> QED
    BY <1>2, <2>1, <2>2 DEF WriterIndex
<1>3. CASE ~IsSp
  <2>1. p * Fan + i # r * Fan + j
    BY <1>1, RowsApart
  <2> QED
    BY <1>3, <2>1 DEF WriterIndex
<1> QED
  BY <1>2, <1>3

\* The remainder by which a consumer polls.
LEMMA Remainder ==
    ASSUME NEW t \in Nat, NEW n \in Nat \ {0}
    PROVE  t % n \in 0 .. n - 1
  OBVIOUS

\* Every consumer's queues are in the array.
LEMMA ReaderIn ==
    ASSUME WiringTypeOK, kind # "sp_user", NEW c \in 0 .. NumReaders - 1, NEW t \in Nat
    PROVE  ReaderIndex(c, t) \in 0 .. Num - 1
<1> DEFINE k == t % Polled
<1>1. NumReaders \in Nat \ {0} /\ Polled \in Nat \ {0}
  BY Counts
<1>2. k \in 0 .. Polled - 1
  BY <1>1, Remainder
<1>3. ReaderIndex(c, t) = c * Polled + k
  BY DEF ReaderIndex, ReaderBase
<1> HIDE DEF k
<1>4. c * Polled + k \in Nat /\ c * Polled + k < NumReaders * Polled
  BY <1>1, <1>2, RowBefore
<1>5. NumReaders * Polled \in Nat /\ Num \in Nat /\ NumReaders * Polled <= Num
  <2>1. NR_SP \in Nat \ {0} /\ NR_DATA \in Nat \ {0} /\ NR_XDR \in Nat \ {0} /\ NR_DPI \in Nat \ {0}
    BY WiringAssumption DEF WiringTypeOK, Sizes, NR_SP, NR_DATA, NR_XDR, NR_DPI
  <2>2. CASE IsXdr
    BY <2>1, <2>2 DEF NumReaders, Polled, Num, NumWriters, Fan
  <2>3. CASE ~IsXdr /\ IsSp
    BY <2>1, <2>3 DEF NumReaders, Polled, Num, NumWriters, Fan
  <2>4. CASE ~IsXdr /\ ~IsSp
    <3>1. NumReaders * Polled = NR_DATA /\ Num = NR_DATA * NR_DPI
      BY <2>1, <2>4 DEF NumReaders, Polled, Num, NumWriters, Fan
    <3>2. (NR_DATA - 1) * NR_DPI >= 0 + (NR_DATA - 1)
      BY <2>1
    <3>3. NR_DATA * NR_DPI = (NR_DATA - 1) * NR_DPI + NR_DPI
      BY <2>1
    <3>4. NR_DATA * NR_DPI \in Nat /\ (NR_DATA - 1) * NR_DPI \in Nat
      BY <2>1
    <3> QED
      BY <2>1, <3>1, <3>2, <3>3, <3>4
  <2> QED
    BY <2>2, <2>3, <2>4
<1> QED
  BY <1>3, <1>4, <1>5

\* Two consumers' queues are different ones.
LEMMA ReadersApart ==
    ASSUME WiringTypeOK, kind # "sp_user",
           NEW c \in 0 .. NumReaders - 1, NEW d \in 0 .. NumReaders - 1, c # d,
           NEW t \in Nat, NEW u \in Nat
    PROVE  ReaderIndex(c, t) # ReaderIndex(d, u)
<1> DEFINE k == t % Polled
           l == u % Polled
<1>1. NumReaders \in Nat \ {0} /\ Polled \in Nat \ {0}
  BY Counts
<1>2. k \in 0 .. Polled - 1 /\ l \in 0 .. Polled - 1
  BY <1>1, Remainder
<1>3. ReaderIndex(c, t) = c * Polled + k /\ ReaderIndex(d, u) = d * Polled + l
  BY DEF ReaderIndex, ReaderBase
<1> HIDE DEF k, l
<1> QED
  BY <1>1, <1>2, <1>3, RowsApart

-----------------------------------------------------------------------------

\* The types hold at first.
LEMMA WiringStart == WiringInit => WiringTypeOK
<1> SUFFICES ASSUME WiringInit PROVE WiringTypeOK
  OBVIOUS
<1>1. conf \in Sizes /\ kind \in Kinds /\ writers = {} /\ readers = {} /\ filled = {}
  BY DEF WiringInit
<1>2. turn \in [0 .. NumReaders - 1 -> 0 .. Wrap - 1]
  BY WiringAssumption DEF WiringInit
<1> QED
  BY <1>1, <1>2 DEF WiringTypeOK

\* A step leaves the layout as it is.
LEMMA SameLayout ==
    ASSUME UNCHANGED <<conf, kind>>
    PROVE  /\ NumWriters' = NumWriters /\ NumReaders' = NumReaders
           /\ Fan' = Fan /\ Num' = Num
  BY DEF NumWriters, NumReaders, Fan, Num, IsSp, IsXdr, NR_SP, NR_DATA, NR_XDR, NR_DPI

\* Every step keeps the types: producers fill queues of the array only.
LEMMA Step == WiringTypeOK /\ [WiringNext]_wiring => WiringTypeOK'
<1> SUFFICES ASSUME WiringTypeOK, [WiringNext]_wiring PROVE WiringTypeOK'
  OBVIOUS
<1>1. UNCHANGED <<conf, kind>>
  BY DEF WiringNext, StartWriter, StartReader, Put, Poll, wiring
<1>2. /\ NumWriters' = NumWriters /\ NumReaders' = NumReaders
      /\ Fan' = Fan /\ Num' = Num
  BY <1>1, SameLayout
<1>3. ASSUME NEW p \in 0 .. NumWriters - 1, StartWriter(p)
      PROVE  WiringTypeOK'
  BY <1>1, <1>2, <1>3 DEF WiringTypeOK, StartWriter
<1>4. ASSUME NEW p \in 0 .. NumWriters - 1, NEW i \in 0 .. Fan - 1, Put(p, i)
      PROVE  WiringTypeOK'
  <2>1. WriterIndex(p, i) \in 0 .. Num - 1
    BY WriterIn
  <2> QED
    BY <1>1, <1>2, <1>4, <2>1 DEF WiringTypeOK, Put
<1>5. ASSUME NEW c \in 0 .. NumReaders - 1, StartReader(c)
      PROVE  WiringTypeOK'
  BY <1>1, <1>2, <1>5 DEF WiringTypeOK, StartReader
<1>6. ASSUME NEW c \in 0 .. NumReaders - 1, Poll(c)
      PROVE  WiringTypeOK'
  <2>1. turn[c] + 1 \in Nat /\ Wrap \in Nat \ {0}
    <3>1. turn[c] \in 0 .. Wrap - 1
      BY DEF WiringTypeOK
    <3> QED
      BY <3>1, WiringAssumption
  <2>2. (turn[c] + 1) % Wrap \in 0 .. Wrap - 1
    BY <2>1, Remainder
  <2> QED
    BY <1>1, <1>2, <1>6, <2>2 DEF WiringTypeOK, Poll, NextTurn
<1>7. CASE UNCHANGED wiring
  BY <1>1, <1>2, <1>7 DEF WiringTypeOK, wiring
<1> QED
  BY <1>3, <1>4, <1>5, <1>6, <1>7 DEF WiringNext

\* The variables keep their types: only queues of the array are ever filled.
THEOREM WiringTypeCorrect == WiringSpec => []WiringTypeOK
  BY WiringStart, Step, PTL DEF WiringSpec

-----------------------------------------------------------------------------

\* Producers and consumers work inside the array, whatever their numbers.
THEOREM InBoundsAlways ==
    ASSUME "sp_user" \notin Kinds
    PROVE  WiringSpec => []InBounds
<1>1. WiringTypeOK => InBounds
  <2> SUFFICES ASSUME WiringTypeOK PROVE InBounds
    OBVIOUS
  <2>1. writers \subseteq 0 .. NumWriters - 1 /\ readers \subseteq 0 .. NumReaders - 1
        /\ kind # "sp_user"
    BY DEF WiringTypeOK
  <2>2. ASSUME NEW p \in writers PROVE WritesOf(p) \subseteq 0 .. Num - 1
    BY <2>1, WriterIn DEF WritesOf
  <2>3. ASSUME NEW c \in readers PROVE ReadsOf(c) \subseteq 0 .. Num - 1
    BY <2>1, ReaderIn DEF ReadsOf
  <2> QED
    BY <2>2, <2>3 DEF InBounds
<1> QED
  BY <1>1, WiringTypeCorrect, PTL

\* No queue has two producers or two consumers, as the lock-free queue needs it.
THEOREM OnePerSideAlways ==
    ASSUME "sp_user" \notin Kinds
    PROVE  WiringSpec => []OnePerSide
<1>1. WiringTypeOK => OnePerSide
  <2> SUFFICES ASSUME WiringTypeOK PROVE OnePerSide
    OBVIOUS
  <2>1. writers \subseteq 0 .. NumWriters - 1 /\ readers \subseteq 0 .. NumReaders - 1
        /\ kind # "sp_user"
    BY DEF WiringTypeOK
  <2>2. ASSUME NEW p \in writers, NEW r \in writers, p # r
        PROVE  WritesOf(p) \cap WritesOf(r) = {}
    BY <2>1, <2>2, WritersApart DEF WritesOf
  <2>3. ASSUME NEW c \in readers, NEW d \in readers, c # d
        PROVE  ReadsOf(c) \cap ReadsOf(d) = {}
    BY <2>1, <2>3, ReadersApart DEF ReadsOf
  <2> QED
    BY <2>2, <2>3 DEF OnePerSide
<1> QED
  BY <1>1, WiringTypeCorrect, PTL

\* A packet put into the i-th queue of a sig_parser is polled by the i-th data_parser, if
\* the polling index has a value for each sig_parser.
THEOREM ChosenReaderReadsAlways ==
    ASSUME MaxWorkers <= Wrap
    PROVE  WiringSpec => []ChosenReaderReads
<1>1. WiringTypeOK => ChosenReaderReads
  <2> SUFFICES ASSUME WiringTypeOK, kind = "sp_packet", NEW p \in writers, NEW c \in readers
               PROVE  WriterIndex(p, c) \in ReadsOf(c)
    BY DEF ChosenReaderReads
  <2>1. IsSp /\ NumWriters = NR_SP /\ Polled = NR_SP
    BY DEF IsSp, NumWriters, Polled
  <2>2. NR_SP \in 1 .. MaxWorkers /\ p \in 0 .. NR_SP - 1 /\ c \in Nat
    BY <2>1, Counts DEF WiringTypeOK, Sizes, NR_SP
  <2>3. p \in 0 .. Wrap - 1 /\ p % NR_SP = p
    BY <2>2, WiringAssumption
  <2>4. ReaderIndex(c, p) = WriterIndex(p, c)
    BY <2>1, <2>3 DEF ReaderIndex, ReaderBase, WriterIndex
  <2> QED
    BY <2>3, <2>4 DEF ReadsOf
<1> QED
  BY <1>1, WiringTypeCorrect, PTL

-----------------------------------------------------------------------------
(* Config: sets of numbers, and functions made step by step.               *)

\* There is a least number in every set of numbers.
LEMMA LeastNumber ==
    ASSUME NEW T \in SUBSET Nat, T # {}
    PROVE  \E m \in T : \A n \in T : m <= n
  <1>1. PICK m \in T : \A n \in T : ~ (<<n, m>> \in OpToRel(<, Nat))
    BY NatLessThanWellFounded, WFMin
  <1>2. \A n \in T : ~ (n < m)
    BY <1>1 DEF OpToRel
  <1> QED
    BY <1>2

\* A number that fails has a first one before it that does.
LEMMA Induct ==
    ASSUME NEW N \in Nat, NEW S, 0 \in S, \A k \in 1..N : k - 1 \in S => k \in S
    PROVE  0..N \subseteq S
<1> DEFINE T == {n \in 0..N : n \notin S}
<1>1. SUFFICES ASSUME T # {} PROVE FALSE
  OBVIOUS
<1>2. PICK m \in T : \A n \in T : m <= n
  <2>1. T \in SUBSET Nat
    OBVIOUS
  <2> HIDE DEF T
  <2> QED
    BY <1>1, <2>1, LeastNumber
<1>3. m \in 1..N /\ m - 1 \in 0..N /\ ~(m <= m - 1)
  BY <1>2
<1> QED
  BY <1>2, <1>3

\* Two functions that begin alike and go on alike are alike.
LEMMA Agree ==
    ASSUME NEW N \in Nat, NEW g, NEW h, g[0] = h[0],
           \A k \in 1..N : g[k - 1] = h[k - 1] => g[k] = h[k]
    PROVE  \A k \in 0..N : g[k] = h[k]
<1> DEFINE S == {k \in 0..N : g[k] = h[k]}
<1>1. 0 \in S /\ \A k \in 1..N : k - 1 \in S => k \in S
  OBVIOUS
<1> HIDE DEF S
<1>2. 0..N \subseteq S
  BY <1>1, Induct
<1> QED
  BY <1>2 DEF S

\* The function that F makes of "start" by n steps.
Repeated(g, n, F, start) ==
    /\ g = [k \in 0..n |-> g[k]]
    /\ g[0] = start /\ \A k \in 1..n : g[k] = F[<<k, g[k - 1]>>]

\* A step that is good where it is applied to something good can be repeated N times.
LEMMA Iterate ==
    ASSUME NEW N \in Nat, NEW F, NEW start, NEW Good, <<0, start>> \in Good,
           \A k \in 1..N : \A x : <<k - 1, x>> \in Good => <<k, F[<<k, x>>]>> \in Good
    PROVE  \E g : Repeated(g, N, F, start) /\ \A k \in 0..N : <<k, g[k]>> \in Good
<1> DEFINE Run(g, n) == Repeated(g, n, F, start) /\ \A k \in 0..n : <<k, g[k]>> \in Good
           S == {n \in 0..N : \E g : Run(g, n)}
<1>1. 0 \in S
  <2> DEFINE h == [k \in 0..0 |-> start]
  <2>1. Repeated(h, 0, F, start) /\ h[0] = start
    BY DEF Repeated
  <2> HIDE DEF h
  <2>2. Run(h, 0)
    BY <2>1
  <2> HIDE DEF Run
  <2> QED
    BY <2>2
<1>2. ASSUME NEW m \in 1..N, m - 1 \in S PROVE m \in S
  <2>1. PICK g : Run(g, m - 1)
    BY <1>2
  <2> DEFINE h == [k \in 0..m |-> IF k = m THEN F[<<m, g[m - 1]>>] ELSE g[k]]
  <2>2. /\ \A k \in 0..(m - 1) : h[k] = g[k]
        /\ h[m] = F[<<m, g[m - 1]>>]
        /\ h = [k \in 0..m |-> h[k]]
    OBVIOUS
  <2> HIDE DEF h
  <2>3. 0 \in 0..(m - 1) /\ m - 1 \in 0..(m - 1) /\ \A k \in 0..m : k # m => k \in 0..(m - 1)
    OBVIOUS
  <2>4. h[0] = start
    BY <2>1, <2>2, <2>3 DEF Repeated
  <2>5. \A k \in 1..m : h[k] = F[<<k, h[k - 1]>>]
    <3>1. h[m] = F[<<m, h[m - 1]>>]
      BY <2>2, <2>3
    <3>2. ASSUME NEW k \in 1..m, k # m PROVE h[k] = F[<<k, h[k - 1]>>]
      <4>1. k \in 1..(m - 1) /\ k \in 0..(m - 1) /\ k - 1 \in 0..(m - 1)
        BY <3>2
      <4> QED
        BY <2>1, <2>2, <4>1 DEF Repeated
    <3> QED
      BY <3>1, <3>2
  <2>6. \A k \in 0..m : <<k, h[k]>> \in Good
    <3>1. <<m - 1, g[m - 1]>> \in Good
      BY <2>1, <2>3
    <3>2. <<m, h[m]>> \in Good
      BY <2>2, <3>1
    <3> QED
      BY <2>1, <2>2, <2>3, <3>2
  <2>7. Run(h, m)
    BY <2>2, <2>4, <2>5, <2>6 DEF Repeated
  <2> HIDE DEF Run
  <2> QED
    BY <2>7
<1> HIDE DEF S
<1>3. N \in S
  BY <1>1, <1>2, Induct
<1> QED
  BY <1>3 DEF S

\* The lists after the first entries of a line.
AfterEntries(g, N, list, values, max, once) ==
    g = [n \in 0..N |-> IF n = 0 THEN list ELSE Entry(list, g[n - 1], values[n], max, once)]

\* There are such lists, and they are good if each entry is good.
LEMMA EntriesGood ==
    ASSUME NEW N \in Nat, NEW list, NEW values, NEW max, NEW once, NEW Lists,
           NEW Good \in SUBSET ((0..N) \X Lists), <<0, list>> \in Good,
           \A n \in 1..N : \A x \in Lists :
               <<n - 1, x>> \in Good => <<n, Entry(list, x, values[n], max, once)>> \in Good
    PROVE  \E g : AfterEntries(g, N, list, values, max, once) /\ <<N, g[N]>> \in Good
<1>1. PICK F : F = [at \in (1..N) \X Lists |-> Entry(list, at[2], values[at[1]], max, once)]
  OBVIOUS
<1>2. \A n \in 1..N : \A x : <<n - 1, x>> \in Good
          => x \in Lists /\ F[<<n, x>>] = Entry(list, x, values[n], max, once)
  BY <1>1
<1>3. \A n \in 1..N : \A x : <<n - 1, x>> \in Good => <<n, F[<<n, x>>]>> \in Good
  BY <1>2
<1>4. PICK g : Repeated(g, N, F, list) /\ \A n \in 0..N : <<n, g[n]>> \in Good
  BY <1>3, Iterate
<1>5. \A n \in 1..N : g[n] = Entry(list, g[n - 1], values[n], max, once)
  <2> TAKE n \in 1..N
  <2>1. n - 1 \in 0..N
    OBVIOUS
  <2> QED
    BY <1>2, <1>4, <2>1 DEF Repeated
<1>6. AfterEntries(g, N, list, values, max, once)
  <2>1. \A n \in 0..N : g[n] = IF n = 0 THEN list ELSE Entry(list, g[n - 1], values[n], max, once)
    <3>1. \A n \in 0..N : n = 0 \/ n \in 1..N
      OBVIOUS
    <3> QED
      BY <1>4, <1>5, <3>1 DEF Repeated
  <2> QED
    BY <1>4, <2>1 DEF Repeated, AfterEntries
<1> QED
  BY <1>4, <1>6

\* They are the only ones.
LEMMA OneResult ==
    ASSUME NEW N \in Nat, NEW list, NEW values, NEW max, NEW once, NEW g, NEW h,
           AfterEntries(g, N, list, values, max, once), AfterEntries(h, N, list, values, max, once)
    PROVE  g[N] = h[N]
<1>1. /\ g[0] = list /\ \A n \in 1..N : g[n] = Entry(list, g[n - 1], values[n], max, once)
      /\ h[0] = list /\ \A n \in 1..N : h[n] = Entry(list, h[n - 1], values[n], max, once)
  BY DEF AfterEntries
<1>2. g[0] = h[0] /\ \A n \in 1..N : g[n - 1] = h[n - 1] => g[n] = h[n]
  BY <1>1
<1>3. \A n \in 0..N : g[n] = h[n]
  BY <1>2, Agree
<1> QED
  BY <1>3

\* If each entry is good, so is the list after all entries of the line.
LEMMA LineGood ==
    ASSUME NEW list, NEW values, Len(values) \in Nat, NEW max, NEW once, NEW Lists,
           NEW Good \in SUBSET ((0..Len(values)) \X Lists), <<0, list>> \in Good,
           \A n \in 1..Len(values) : \A x \in Lists :
               <<n - 1, x>> \in Good => <<n, Entry(list, x, values[n], max, once)>> \in Good
    PROVE  <<Len(values), Entries(list, values, max, once)>> \in Good
<1>1. PICK N \in Nat : N = Len(values)
  OBVIOUS
<1>2. PICK g : AfterEntries(g, N, list, values, max, once) /\ <<N, g[N]>> \in Good
  BY <1>1, EntriesGood
<1> DEFINE h == CHOOSE x : AfterEntries(x, N, list, values, max, once)
<1>3. Entries(list, values, max, once) = h[N]
  BY <1>1 DEF Entries, AfterEntries
<1>4. AfterEntries(h, N, list, values, max, once)
  BY <1>2
<1> HIDE DEF h
<1>5. h[N] = g[N]
  BY <1>2, <1>4, OneResult
<1> QED
  BY <1>1, <1>2, <1>3, <1>5

-----------------------------------------------------------------------------

\* What an entry more makes of a list.
LEMMA Behind ==
    ASSUME NEW S, NEW x \in Seq(S), NEW v \in S
    PROVE  /\ Append(x, v) \in Seq(S) /\ Len(Append(x, v)) = Len(x) + 1 /\ Len(x) \in Nat
           /\ Append(x, v)[Len(x) + 1] = v
           /\ \A k \in 1..Len(x) : Append(x, v)[k] = x[k]
           /\ \A k \in 1..(Len(x) + 1) : k \in 1..Len(x) \/ k = Len(x) + 1
OBVIOUS

\* Identities: of an empty list a line makes its first ones, as far as there is room.
LEMMA AddToGives ==
    ASSUME NEW S, NEW values \in Seq(S), NEW max \in Nat \ {0},
           NEW list, list = AddTo(<< >>, values, max)
    PROVE  /\ list \in Seq(S) /\ Len(list) = IF Len(values) < max THEN Len(values) ELSE max
           /\ \A i \in 1..Len(list) : list[i] = values[i]
<1> DEFINE Is(n, x) == Len(x) = (IF n < max THEN n ELSE max) /\ \A i \in 1..Len(x) : x[i] = values[i]
           Good == {p \in (0..Len(values)) \X Seq(S) : Is(p[1], p[2])}
<1>1. Len(values) \in Nat /\ max \in Nat
  OBVIOUS
<1>a. \A n, x : <<n, x>> \in Good <=> n \in 0..Len(values) /\ x \in Seq(S) /\ Is(n, x)
  OBVIOUS
<1>b. Good \in SUBSET ((0..Len(values)) \X Seq(S))
  OBVIOUS
<1> HIDE DEF Good
<1>2. <<0, << >> >> \in Good
  <2>1. PICK y : y = << >>
    OBVIOUS
  <2>2. y \in Seq(S) /\ Is(0, y) /\ 0 \in 0..Len(values)
    BY <1>1, <2>1
  <2> HIDE DEF Is
  <2>3. <<0, y>> \in Good
    BY <1>a, <2>2
  <2> QED
    BY <2>1, <2>3
<1>3. ASSUME NEW n \in 1..Len(values), NEW x \in Seq(S), <<n - 1, x>> \in Good
      PROVE  <<n, Entry(<< >>, x, values[n], max, {})>> \in Good
  <2>1. Is(n - 1, x) /\ values[n] \in S
    BY <1>3, <1>a
  <2>2. Entry(<< >>, x, values[n], max, {}) = IF x # << >> /\ Len(x) >= max THEN x ELSE Append(x, values[n])
    BY DEF Entry, Filled, Stops
  <2>3. CASE x # << >> /\ Len(x) >= max
    <3>1. Len(x) = max /\ ~(n < max)
      BY <1>1, <2>1, <2>3
    <3>2. Is(n, x)
      BY <1>1, <2>1, <3>1
    <3> HIDE DEF Is
    <3> QED
      BY <1>a, <2>2, <2>3, <3>2
  <2>4. CASE ~(x # << >> /\ Len(x) >= max)
    <3>1. Len(x) < max
      BY <1>1, <2>4
    <3>2. Len(x) = n - 1 /\ Len(x) \in Nat
      BY <1>1, <2>1, <3>1
    <3>3. Is(n, Append(x, values[n]))
      BY <1>1, <2>1, <3>1, <3>2, Behind
    <3>4. PICK y : y = Append(x, values[n])
      OBVIOUS
    <3>5. y \in Seq(S) /\ Is(n, y)
      BY <2>1, <3>3, <3>4
    <3> HIDE DEF Is
    <3>6. <<n, y>> \in Good
      BY <1>a, <3>5
    <3> QED
      BY <2>2, <2>4, <3>4, <3>6
  <2> QED
    BY <2>3, <2>4
<1>4. <<Len(values), Entries(<< >>, values, max, {})>> \in Good
  BY <1>1, <1>2, <1>3, <1>b, LineGood
<1>5. list = Entries(<< >>, values, max, {})
  BY DEF AddTo
<1> QED
  BY <1>4, <1>5, <1>a

\* A value that is there already, or finds no room, changes nothing.
LEMMA PortLeft ==
    ASSUME NEW S, NEW s, NEW m \in Nat, NEW max \in Nat, NEW x \in Seq(S), Different(x, s, m, max),
           (\E k \in 1..Len(x) : x[k] = s[m + 1]) \/ Len(x) = max
    PROVE  Different(x, s, m + 1, max)
<1>1. \A i \in 1..m : i \in 1..(m + 1)
  OBVIOUS
<1>2. \A i \in 1..(m + 1) : i \in 1..m \/ i = m + 1
  OBVIOUS
<1>3. \A k \in 1..Len(x) : \E i \in 1..(m + 1) :
          /\ x[k] = s[i]
          /\ \A j \in 1..(i - 1) : \E l \in 1..(k - 1) : x[l] = s[j]
          /\ \A l \in 1..(k - 1) : x[l] # x[k]
  BY <1>1 DEF Different
<1>4. Len(x) = max \/ \A i \in 1..(m + 1) : \E k \in 1..Len(x) : x[k] = s[i]
  BY <1>2 DEF Different
<1> QED
  BY <1>3, <1>4 DEF Different

\* A value that is not there yet goes behind the others.
LEMMA PortTaken ==
    ASSUME NEW S, NEW s, NEW m \in Nat, NEW max \in Nat, NEW x \in Seq(S), Different(x, s, m, max),
           NEW v \in S, v = s[m + 1], Len(x) < max, \A k \in 1..Len(x) : x[k] # v
    PROVE  Different(Append(x, v), s, m + 1, max)
<1>1. PICK y : y = Append(x, v)
  OBVIOUS
<1>2. /\ y \in Seq(S) /\ Len(y) = Len(x) + 1 /\ Len(x) \in Nat /\ y[Len(x) + 1] = v
      /\ \A k \in 1..Len(x) : y[k] = x[k]
      /\ \A k \in 1..Len(y) : k \in 1..Len(x) \/ k = Len(x) + 1
  BY <1>1, Behind
<1>3. \A i \in 1..m : \E k \in 1..Len(x) : x[k] = s[i]
  <2>1. Len(x) # max
    BY <1>2
  <2> QED
    BY <2>1 DEF Different
<1>4. ASSUME NEW k \in 1..Len(y)
      PROVE  \E i \in 1..(m + 1) : /\ y[k] = s[i]
                                   /\ \A j \in 1..(i - 1) : \E l \in 1..(k - 1) : y[l] = s[j]
                                   /\ \A l \in 1..(k - 1) : y[l] # y[k]
  <2>1. CASE k \in 1..Len(x)
    <3>1. PICK i \in 1..m : /\ x[k] = s[i]
                            /\ \A j \in 1..(i - 1) : \E l \in 1..(k - 1) : x[l] = s[j]
                            /\ \A l \in 1..(k - 1) : x[l] # x[k]
      BY <2>1 DEF Different
    <3>2. \A l \in 1..(k - 1) : l \in 1..Len(x)
      BY <1>2, <2>1
    <3>3. i \in 1..(m + 1) /\ y[k] = x[k] /\ \A l \in 1..(k - 1) : y[l] = x[l]
      BY <1>2, <2>1, <3>2
    <3>4. /\ \A j \in 1..(i - 1) : \E l \in 1..(k - 1) : y[l] = s[j]
          /\ \A l \in 1..(k - 1) : y[l] # y[k]
      BY <3>1, <3>3, Zenon
    <3> QED
      BY <3>1, <3>3, <3>4, Zenon
  <2>2. CASE k = Len(x) + 1
    <3>1. k - 1 = Len(x) /\ (m + 1) - 1 = m /\ m + 1 \in 1..(m + 1)
      BY <1>2, <2>2
    <3>2. \A l \in 1..Len(x) : y[l] # y[k]
      BY <1>2, <2>2
    <3>3. \A j \in 1..m : \E l \in 1..Len(x) : y[l] = s[j]
      BY <1>2, <1>3
    <3>4. y[k] = s[m + 1]
      BY <1>2, <2>2
    <3> QED
      BY <3>1, <3>2, <3>3, <3>4
  <2> QED
    BY <1>2, <2>1, <2>2
<1>5. \A i \in 1..(m + 1) : \E k \in 1..Len(y) : y[k] = s[i]
  <2> TAKE i \in 1..(m + 1)
  <2>1. CASE i \in 1..m
    <3>1. PICK k \in 1..Len(x) : x[k] = s[i]
      BY <1>3, <2>1
    <3>2. k \in 1..Len(y) /\ y[k] = x[k]
      BY <1>2
    <3> QED
      BY <3>1, <3>2
  <2>2. CASE i = m + 1
    <3>1. Len(x) + 1 \in 1..Len(y)
      BY <1>2
    <3> QED
      BY <1>2, <2>2, <3>1
  <2> QED
    BY <2>1, <2>2
<1>6. Len(y) <= max
  BY <1>2
<1>7. Different(y, s, m + 1, max)
  BY <1>4, <1>5, <1>6 DEF Different
<1> QED
  BY <1>1, <1>7

\* Ports: behind the first, if there is one, a line adds the different ones in their order.
LEMMA AddPortsGives ==
    ASSUME NEW S, NEW first \in Seq(S), Len(first) <= 1, NEW values \in Seq(S),
           NEW max \in Nat, Len(first) < max, NEW s, s = first \o values
    PROVE  /\ AddPorts(first, values, max) \in Seq(S)
           /\ Different(AddPorts(first, values, max), s, Len(s), max)
<1> DEFINE p == Len(first)
           once == ToSet(values)
           Is(n, x) == Different(x, s, p + n, max)
           Good == {q \in (0..Len(values)) \X Seq(S) : Is(q[1], q[2])}
<1>1. /\ p \in Nat /\ Len(values) \in Nat /\ Len(s) = p + Len(values)
      /\ \A i \in 1..p : s[i] = first[i]
      /\ \A i \in 1..Len(values) : s[p + i] = values[i]
  OBVIOUS
<1>a. \A n, x : <<n, x>> \in Good <=> n \in 0..Len(values) /\ x \in Seq(S) /\ Is(n, x)
  OBVIOUS
<1>b. Good \in SUBSET ((0..Len(values)) \X Seq(S))
  OBVIOUS
<1> HIDE DEF Good
<1>2. <<0, first>> \in Good
  <2>1. Is(0, first)
    <3>1. p + 0 = p /\ p <= max
      BY <1>1
    <3>2. ASSUME NEW k \in 1..p
          PROVE  /\ first[k] = s[k]
                 /\ \A j \in 1..(k - 1) : FALSE
      BY <1>1
    <3>3. Different(first, s, p, max)
      BY <3>1, <3>2 DEF Different
    <3> QED
      BY <3>1, <3>3
  <2>2. 0 \in 0..Len(values)
    BY <1>1
  <2> HIDE DEF Is
  <2> QED
    BY <1>a, <2>1, <2>2
<1>3. ASSUME NEW n \in 1..Len(values), NEW x \in Seq(S), <<n - 1, x>> \in Good
      PROVE  <<n, Entry(first, x, values[n], max, once)>> \in Good
  <2>0. n \in Nat /\ n - 1 \in Nat /\ n \in 0..Len(values) /\ n - 1 \in 0..Len(values)
    BY <1>1
  <2>1. PICK m \in Nat : m = p + (n - 1)
    <3>1. \A a, b \in Nat : a + b \in Nat
      OBVIOUS
    <3>2. p + (n - 1) \in Nat
      BY <1>1, <2>0, <3>1
    <3> QED
      BY <3>2
  <2>2. m + 1 = p + n /\ s[m + 1] = values[n] /\ values[n] \in S /\ Len(x) \in Nat
    BY <1>1, <2>1
  <2>3. Different(x, s, m, max)
    BY <1>3, <1>a, <2>1
  <2>4. PICK y : y = Entry(first, x, values[n], max, once)
    OBVIOUS
  <2>5. y = IF (x # first /\ Len(x) >= max) \/ values[n] \in ToSet(x) THEN x ELSE Append(x, values[n])
    <3>1. values[n] \in once
      BY DEF ToSet
    <3> QED
      BY <2>4, <3>1 DEF Entry, Filled, Stops
  <2>6. values[n] \in ToSet(x) <=> \E k \in 1..Len(x) : x[k] = values[n]
    <3>1. DOMAIN x = 1..Len(x)
      OBVIOUS
    <3> QED
      BY <3>1 DEF ToSet
  <2>7. CASE (x # first /\ Len(x) >= max) \/ values[n] \in ToSet(x)
    <3>1. Len(x) >= max => Len(x) = max
      BY <2>2, <2>3 DEF Different
    <3>2. Different(x, s, m + 1, max)
      <4>1. CASE x # first /\ Len(x) >= max
        BY <2>2, <2>3, <3>1, <4>1, PortLeft, Zenon
      <4>2. CASE values[n] \in ToSet(x)
        BY <2>2, <2>3, <2>6, <4>2, PortLeft, Zenon
      <4> QED
        BY <2>7, <4>1, <4>2, Zenon
    <3>3. y = x
      BY <2>5, <2>7
    <3>4. Is(n, y)
      BY <2>2, <3>2, <3>3
    <3> HIDE DEF Is
    <3>5. <<n, y>> \in Good
      BY <1>a, <2>0, <3>3, <3>4, Zenon
    <3> QED
      BY <2>4, <3>5, Zenon
  <2>8. CASE ~((x # first /\ Len(x) >= max) \/ values[n] \in ToSet(x))
    <3>1. Len(x) < max /\ \A k \in 1..Len(x) : x[k] # values[n]
      BY <2>2, <2>6, <2>8
    <3>2. y = Append(x, values[n])
      BY <2>5, <2>8
    <3>3. Different(y, s, m + 1, max)
      BY <2>2, <2>3, <3>1, <3>2, PortTaken
    <3>4. y \in Seq(S)
      BY <2>2, <3>2
    <3>5. Is(n, y)
      BY <2>2, <3>3
    <3> HIDE DEF Is
    <3>6. <<n, y>> \in Good
      BY <1>a, <2>0, <3>4, <3>5, Zenon
    <3> QED
      BY <2>4, <3>6, Zenon
  <2> QED
    BY <2>7, <2>8
<1>4. <<Len(values), Entries(first, values, max, once)>> \in Good
  BY <1>1, <1>2, <1>3, <1>b, LineGood
<1> QED
  BY <1>1, <1>4, <1>a DEF AddPorts

Entered == Names \cup Int \cup {NoIp} \cup DataPorts
NumberKeys == Numbers \cup {"xdr_server_ip"}
Devices == [number : [NumberKeys -> Int], list : [ListKeys -> Seq(Entered)], dpi_devid : [1..DevMax -> Int]]
Rules == [RuleFields -> Nat]

ConfigTypes ==
    /\ reading \in Readers /\ file \in Files[reading] /\ place \in 0..Len(file)
    /\ result \in {"reading", "accepted", "refused", "crashed"}
    /\ device \in Devices /\ adv \in [DOMAIN Defaults -> Int]
    /\ rules \in Seq(Rules) /\ slot \in Rules

\* What one line makes of a list, the ports for data with the key in the place of the first.
ListIs(key, list, values) ==
    LET named == IF values = << >> THEN <<key>> ELSE <<key>> \o Tail(values)
    IN  /\ key \in Ports => Different(list, values, Len(values), PortMax)
        /\ key \in DataPorts => Different(list, named, Len(named), DevMax)
        /\ key \in Ids \cup {"dpi_devip"} => Counted(list, values, Len(values), DevMax)

\* A list of which no line was read is empty, and one of which one line was read is that line's.
ListsInv == reading = "device" => \A key \in ListKeys :
    /\ None(key) => device.list[key] = << >>
    /\ Once(key) => ListIs(key, device.list[key], Values(key))

NumbersInv == reading = "device" => \A key \in NumberKeys \ {"xdr_server_port"} :
    LastWins(key, device.number[key], 0)

IdsInv == reading = "device" => IdsAsWritten

AdvInv == reading = "adv" => \A key \in DOMAIN Defaults : LastWins(key, adv[key], Defaults[key])

-----------------------------------------------------------------------------
(* The lines.                                                              *)

LEMMA Maxima == PortMax \in Nat \ {0} /\ DevMax \in Nat \ {0} /\ RuleMax \in Nat \ {0} /\ Word \in Nat \ {0}
BY ConfigAssumption

\* What the next line consists of.
LEMMA LineIs ==
    ASSUME ConfigTypes, place < Len(file), reading \in {"device", "adv"}
    PROVE  /\ place \in Nat /\ Len(file) \in Nat
           /\ Line.key \in Ports \cup DataPorts => reading = "device" /\ Line.values \in Seq(Names)
           /\ Line.key \notin Ports \cup DataPorts => Line.values \in Seq(Int \cup {NoIp})
<1>1. file \in Seq(PortsText \cup NumbersText) /\ (reading = "adv" => file \in Seq(NumbersText))
  <2>1. CASE reading = "device"
    BY <2>1, ConfigAssumption DEF ConfigTypes
  <2>2. CASE reading = "adv"
    <3>1. file \in Seq(NumbersText)
      BY <2>2, ConfigAssumption DEF ConfigTypes
    <3> HIDE DEF NumbersText
    <3> QED
      BY <2>2, <3>1
  <2> QED
    BY <2>1, <2>2
<1>2. place \in Nat /\ Len(file) \in Nat /\ place + 1 \in 1..Len(file)
  BY <1>1 DEF ConfigTypes
<1>3. Line \in PortsText \cup NumbersText /\ (reading = "adv" => Line \in NumbersText)
  BY <1>1, <1>2 DEF Line
<1>4. \A t \in PortsText : t.key \in Ports \cup DataPorts /\ t.values \in Seq(Names)
  BY DEF PortsText
<1>5. \A t \in NumbersText : t.key \notin Ports \cup DataPorts /\ t.values \in Seq(Int \cup {NoIp})
  BY DEF NumbersText
<1> QED
  BY <1>2, <1>3, <1>4, <1>5

\* What a line more means for a key.
LEMMA OtherKey ==
    ASSUME NEW key, place \in Nat, place' = place + 1, file' = file, Line.key # key
    PROVE  /\ None(key)' <=> None(key)
           /\ Once(key)' <=> Once(key)
           /\ Once(key) => Values(key)' = Values(key)
           /\ LinesOf(key)' = LinesOf(key)
<1>1. \A n : n \in 1..place' <=> n \in 1..place \/ n = place + 1
  OBVIOUS
<1>2. file[place + 1].key # key /\ place + 1 \notin 1..place
  BY DEF Line
<1>3. None(key)' <=> None(key)
  BY <1>1, <1>2 DEF None
<1>4. Once(key)' <=> Once(key)
  <2>1. ASSUME Once(key) PROVE Once(key)'
    <3>1. PICK n \in 1..place : \A m \in 1..place : file[m].key = key <=> m = n
      BY <2>1 DEF Once
    <3>2. n # place + 1 /\ n \in 1..place'
      BY <1>1, <1>2
    <3>3. \A m \in 1..place' : file'[m].key = key <=> m = n
      BY <1>1, <1>2, <3>1, <3>2
    <3> QED
      BY <3>2, <3>3 DEF Once
  <2>2. ASSUME Once(key)' PROVE Once(key)
    <3>1. PICK n \in 1..place' : \A m \in 1..place' : file'[m].key = key <=> m = n
      BY <2>2 DEF Once
    <3>2. n \in 1..place
      BY <1>1, <1>2, <3>1
    <3> QED
      BY <1>1, <3>1, <3>2 DEF Once
  <2> QED
    BY <2>1, <2>2
<1>5. ASSUME Once(key) PROVE Values(key)' = Values(key)
  <2>1. PICK n \in 1..place : \A m \in 1..place : file[m].key = key <=> m = n
    BY <1>5 DEF Once
  <2>2. \A m \in 1..place' : file'[m].key = key <=> m = n
    BY <1>1, <1>2, <2>1
  <2>3. (CHOOSE m \in 1..place : file[m].key = key) = n
    BY <2>1
  <2>4. (CHOOSE m \in 1..place' : file'[m].key = key) = n
    BY <1>1, <2>1, <2>2
  <2> QED
    BY <2>3, <2>4 DEF Values
<1>6. LinesOf(key)' = LinesOf(key)
  <2>1. \A n : n \in LinesOf(key)' <=> n \in LinesOf(key)
    BY <1>1, <1>2 DEF LinesOf
  <2> QED
    BY <2>1
<1> QED
  BY <1>3, <1>4, <1>5, <1>6

LEMMA ThisKey ==
    ASSUME NEW key, place \in Nat, place' = place + 1, file' = file, Line.key = key
    PROVE  /\ ~None(key)'
           /\ Once(key)' => None(key)
           /\ None(key) => Values(key)' = Line.values
           /\ Line.values # << >> => place + 1 \in LinesOf(key)'
<1>1. \A n : n \in 1..place' <=> n \in 1..place \/ n = place + 1
  OBVIOUS
<1>2. file[place + 1].key = key /\ place + 1 \notin 1..place /\ Line = file[place + 1]
  BY DEF Line
<1>3. ~None(key)'
  BY <1>1, <1>2 DEF None
<1>4. ASSUME Once(key)' PROVE None(key)
  <2>1. PICK n \in 1..place' : \A m \in 1..place' : file'[m].key = key <=> m = n
    BY <1>4 DEF Once
  <2>2. n = place + 1
    BY <1>1, <1>2, <2>1
  <2> QED
    BY <1>1, <1>2, <2>1, <2>2 DEF None
<1>5. ASSUME None(key) PROVE Values(key)' = Line.values
  <2>1. \A m \in 1..place' : file'[m].key = key <=> m = place + 1
    BY <1>1, <1>2, <1>5 DEF None
  <2>2. (CHOOSE m \in 1..place' : file'[m].key = key) = place + 1
    BY <1>1, <2>1
  <2> QED
    BY <1>2, <2>2 DEF Values
<1>6. Line.values # << >> => place + 1 \in LinesOf(key)'
  BY <1>1, <1>2 DEF LinesOf
<1> QED
  BY <1>3, <1>4, <1>5, <1>6

\* The lines that give a number.
Given(key) == {n \in LinesOf(key) : key # "xdr_server_ip" \/ file[n].values[1] # NoIp}

Gives(key) == /\ Line.key = key /\ Line.values # << >>
              /\ key # "xdr_server_ip" \/ Line.values[1] # NoIp

LEMMA LastStays ==
    ASSUME NEW key, place \in Nat, place' = place + 1, file' = file, ~Gives(key),
           NEW value, NEW default, LastWins(key, value, default)
    PROVE  LastWins(key, value, default)'
<1>1. \A n : n \in 1..place' <=> n \in 1..place \/ n = place + 1
  OBVIOUS
<1>2. \A n : n \in Given(key)' <=> n \in Given(key)
  BY <1>1 DEF Given, LinesOf, Gives, Line
<1>3. Given(key)' = Given(key)
  BY <1>2
<1> DEFINE IsTold(f, T) == value = IF T = {} THEN default
                                   ELSE NumberOf(f[CHOOSE n \in T : \A m \in T : m <= n].values[1])
<1>4. IsTold(file, Given(key))
  BY Zenon DEF LastWins, Given
<1>5. IsTold(file', Given(key)')
  BY <1>3, <1>4
<1> QED
  BY <1>5, Zenon DEF LastWins, Given

LEMMA LastMoves ==
    ASSUME NEW key, place \in Nat, place' = place + 1, file' = file, Gives(key),
           NEW value, value = NumberOf(Line.values[1]), NEW default
    PROVE  LastWins(key, value, default)'
<1>1. \A n : n \in 1..place' <=> n \in 1..place \/ n = place + 1
  OBVIOUS
<1> DEFINE T == Given(key)'
<1>2. place + 1 \in T /\ \A n \in T : n \in 1..place'
  BY <1>1 DEF Given, LinesOf, Gives, Line
<1> HIDE DEF T
<1>3. \A n \in T : n <= place + 1 /\ n \in Nat
  BY <1>2
<1>4. (CHOOSE n \in T : \A m \in T : m <= n) = place + 1
  BY <1>2, <1>3
<1>5. T # {} /\ value = NumberOf(file'[CHOOSE n \in T : \A m \in T : m <= n].values[1])
  BY <1>2, <1>4 DEF Line
<1> QED
  BY <1>5, Zenon DEF LastWins, Given, T

\* Lists keep their type.
LEMMA EntriesType ==
    ASSUME NEW S, NEW list \in Seq(S), NEW values \in Seq(S), NEW max, NEW once
    PROVE  Entries(list, values, max, once) \in Seq(S)
<1>1. PICK Good : Good = (0..Len(values)) \X Seq(S)
  OBVIOUS
<1>2. Len(values) \in Nat /\ 0 \in 0..Len(values)
  OBVIOUS
<1>3. <<0, list>> \in Good /\ Good \in SUBSET ((0..Len(values)) \X Seq(S))
  BY <1>1, <1>2
<1>4. ASSUME NEW n \in 1..Len(values), NEW x \in Seq(S)
      PROVE  <<n, Entry(list, x, values[n], max, once)>> \in Good
  <2>1. n \in 0..Len(values) /\ values[n] \in S
    BY <1>2
  <2>2. PICK y : y = Entry(list, x, values[n], max, once)
    OBVIOUS
  <2>3. y \in Seq(S)
    BY <2>1, <2>2 DEF Entry
  <2> QED
    BY <1>1, <2>1, <2>2, <2>3
<1>5. <<Len(values), Entries(list, values, max, once)>> \in Good
  BY <1>2, <1>3, <1>4, LineGood
<1> QED
  BY <1>1, <1>5

LEMMA ListTypes ==
    ASSUME NEW S, NEW list \in Seq(S), NEW values \in Seq(S), NEW max
    PROVE  AddTo(list, values, max) \in Seq(S) /\ AddPorts(list, values, max) \in Seq(S)
BY EntriesType DEF AddTo, AddPorts

\* A list of names is one of entries.
LEMMA Wider ==
    ASSUME NEW S, NEW T, S \subseteq T, NEW s \in Seq(S)
    PROVE  s \in Seq(T)
OBVIOUS

LEMMA PortsGiven ==
    ASSUME NEW key \in Ports, NEW values \in Seq(Names)
    PROVE  ListIs(key, AddPorts(<< >>, values, PortMax), values)
<1>1. PortMax \in Nat /\ 0 < PortMax
  BY Maxima
<1>2. PICK first : first = << >>
  OBVIOUS
<1>3. /\ first \in Seq(Names) /\ Len(first) <= 1 /\ Len(first) < PortMax
      /\ values = first \o values
  BY <1>1, <1>2
<1>4. Different(AddPorts(first, values, PortMax), values, Len(values), PortMax)
  BY <1>1, <1>3, AddPortsGives
<1>5. key \notin DataPorts /\ key \notin Ids \cup {"dpi_devip"}
  BY DEF Ports, DataPorts, Ids
<1> QED
  BY <1>2, <1>4, <1>5 DEF ListIs

\* What a first value before others makes of a list.
LEMMA InFront ==
    ASSUME NEW S, NEW s \in Seq(S), NEW f \in Seq(S), Len(f) = 1
    PROVE  Len(f \o s) = 1 + Len(s) /\ Len(s) \in Nat /\ (f \o s)[1] = f[1]
<1>1. Len(s) \in Nat /\ 1 \in 1..(Len(f) + Len(s)) /\ 1 <= Len(f)
  OBVIOUS
<1>2. /\ Len(f \o s) = Len(f) + Len(s)
      /\ \A i \in 1..(Len(f) + Len(s)) : (f \o s)[i] = IF i <= Len(f) THEN f[i] ELSE s[i - Len(f)]
  BY ConcatProperties, Zenon
<1>3. (f \o s)[1] = f[1]
  BY <1>1, <1>2, Zenon
<1> QED
  BY <1>1, <1>2, <1>3

\* What a line of a key for data ports makes of a list.
DataPortsAfter(key, list, values) ==
    LET first == Append(list, key)
    IN  IF Stops(Len(first), DevMax) \/ values = << >> THEN first
        ELSE AddPorts(first, Tail(values), DevMax)

LEMMA DataPortsGiven ==
    ASSUME NEW key \in DataPorts, NEW values \in Seq(Names)
    PROVE  ListIs(key, DataPortsAfter(key, << >>, values), values)
<1>1. DevMax \in Nat /\ 0 < DevMax
  BY Maxima
<1>2. PICK first : first = <<key>>
  OBVIOUS
<1>3. /\ first \in Seq(Entered) /\ Len(first) = 1 /\ first[1] = key
      /\ DataPortsAfter(key, << >>, values)
            = IF 1 >= DevMax \/ values = << >> THEN first ELSE AddPorts(first, Tail(values), DevMax)
  BY <1>2 DEF Entered, DataPortsAfter, Stops
<1>4. PICK named : named = IF values = << >> THEN first ELSE first \o Tail(values)
  OBVIOUS
<1>5. /\ values # << >> => Tail(values) \in Seq(Names) /\ Tail(values) \in Seq(Entered)
      /\ Len(named) \in Nat /\ 1 \in 1..Len(named) /\ named[1] = key
      /\ values = << >> => named = first
  <2>1. CASE values = << >>
    BY <1>3, <1>4, <2>1
  <2>2. CASE values # << >>
    <3>1. PICK rest \in Seq(Names) : rest = Tail(values)
      BY <2>2, HeadTailProperties
    <3>2. rest \in Seq(Entered)
      BY <3>1, Wider DEF Entered
    <3>3. named = first \o rest
      BY <1>4, <2>2, <3>1
    <3>4. Len(named) = 1 + Len(rest) /\ Len(rest) \in Nat /\ named[1] = key
      BY <1>3, <3>2, <3>3, InFront
    <3> QED
      BY <2>2, <3>1, <3>2, <3>4
  <2> QED
    BY <2>1, <2>2
<1>6. CASE 1 >= DevMax \/ values = << >>
  <2>1. \A k \in 1..Len(first) : /\ first[k] = named[1]
                                 /\ \A j \in 1..(1 - 1) : FALSE
                                 /\ \A l \in 1..(k - 1) : FALSE
    BY <1>3, <1>5
  <2>2. Len(first) = DevMax \/ \A i \in 1..Len(named) : \E k \in 1..Len(first) : first[k] = named[i]
    BY <1>1, <1>3, <1>5, <1>6
  <2>3. Len(first) <= DevMax
    BY <1>1, <1>3
  <2>4. Different(first, named, Len(named), DevMax)
    <3>1. ASSUME NEW k \in 1..Len(first)
          PROVE  \E i \in 1..Len(named) : /\ first[k] = named[i]
                                          /\ \A j \in 1..(i - 1) : \E l \in 1..(k - 1) : first[l] = named[j]
                                          /\ \A l \in 1..(k - 1) : first[l] # first[k]
      BY <1>5, <2>1
    <3> QED
      BY <2>2, <2>3, <3>1 DEF Different
  <2>5. key \notin Ports /\ key \notin Ids \cup {"dpi_devip"}
    BY DEF Ports, DataPorts, Ids
  <2> QED
    BY <1>2, <1>3, <1>4, <1>6, <2>4, <2>5 DEF ListIs
<1>7. CASE ~(1 >= DevMax \/ values = << >>)
  <2>1. PICK rest \in Seq(Entered) : rest = Tail(values)
    BY <1>5, <1>7
  <2>2. named = first \o rest
    BY <1>4, <1>7, <2>1
  <2>3. Len(first) <= 1 /\ Len(first) < DevMax
    BY <1>1, <1>3, <1>7
  <2>4. Different(AddPorts(first, rest, DevMax), named, Len(named), DevMax)
    BY <1>1, <1>3, <2>2, <2>3, AddPortsGives
  <2>5. key \notin Ports /\ key \notin Ids \cup {"dpi_devip"}
    BY DEF Ports, DataPorts, Ids
  <2> QED
    BY <1>2, <1>3, <1>4, <1>7, <2>1, <2>4, <2>5 DEF ListIs
<1> QED
  BY <1>6, <1>7

\* A list takes the first DevMax of the numbers.
LEMMA FirstOfThem ==
    ASSUME NEW numbers \in Seq(Int), NEW list, list = AddTo(<< >>, numbers, DevMax)
    PROVE  /\ list \in Seq(Int) /\ Len(list) = IF Len(numbers) < DevMax THEN Len(numbers) ELSE DevMax
           /\ \A i \in 1..Len(list) : list[i] = numbers[i]
<1>1. DevMax \in Nat \ {0}
  BY Maxima
<1> QED
  BY <1>1, AddToGives

\* Identities and addresses, as the list takes them.
LEMMA IdsGiven ==
    ASSUME NEW key \in Ids \cup {"dpi_devip"}, NEW values \in Seq(Int \cup {NoIp}),
           NEW numbers, numbers = [i \in DOMAIN values |-> NumberOf(values[i])]
    PROVE  ListIs(key, AddTo(<< >>, numbers, DevMax), values)
<1>1. DevMax \in Nat \ {0}
  BY Maxima
<1>2. DOMAIN values = 1..Len(values) /\ Len(values) \in Nat
  OBVIOUS
<1>3. numbers \in Seq(Int) /\ Len(numbers) = Len(values)
  <2>1. \A i \in 1..Len(values) : NumberOf(values[i]) \in Int
    BY DEF NumberOf
  <2>2. numbers \in [1..Len(values) -> Int]
    BY <1>2, <2>1
  <2> QED
    BY <1>2, <2>2
<1>4. PICK list : list = AddTo(<< >>, numbers, DevMax)
  OBVIOUS
<1>5. /\ list \in Seq(Int) /\ Len(list) = IF Len(numbers) < DevMax THEN Len(numbers) ELSE DevMax
      /\ \A i \in 1..Len(list) : list[i] = numbers[i]
  BY <1>3, <1>4, FirstOfThem
<1>6. \A i \in 1..Len(list) : i \in 1..Len(values)
  <2> DEFINE n == Len(list)
             m == Len(values)
  <2>1. DevMax \in Nat /\ m \in Nat /\ n = IF m < DevMax THEN m ELSE DevMax
    BY <1>1, <1>2, <1>3, <1>5
  <2> HIDE DEF n, m
  <2>2. \A i \in 1..n : i \in 1..m
    BY <2>1
  <2> QED
    BY <2>2 DEF n, m
<1>7. Counted(list, values, Len(values), DevMax)
  BY <1>2, <1>3, <1>5, <1>6 DEF Counted
<1>8. key \notin Ports /\ key \notin DataPorts
  BY DEF Ports, DataPorts, Ids
<1> QED
  BY <1>4, <1>7, <1>8 DEF ListIs

\* A line of device.ini has been read.
DeviceRead ==
    /\ reading = "device" /\ place < Len(file) /\ place' = place + 1
    /\ UNCHANGED <<reading, file, result, adv, rules, slot>>

\* What a line may do to the lists, the numbers and the identities.
ListsMove ==
    /\ \A key \in ListKeys : key # Line.key => device'.list[key] = device.list[key]
    /\ Line.key \in ListKeys /\ device.list[Line.key] = << >>
          => ListIs(Line.key, device'.list[Line.key], Line.values)
NumbersMove == \A key \in NumberKeys \ {"xdr_server_port"} :
    device'.number[key] = IF Gives(key) THEN NumberOf(Line.values[1]) ELSE device.number[key]
IdsMove ==
    /\ Line.key # "dpi_devid" => device'.dpi_devid = device.dpi_devid
    /\ Line.key = "dpi_devid" => \A i \in 1..DevMax :
          i <= Len(Line.values) /\ i <= Len(device.list["dpi_devip"])
              => device'.dpi_devid[i] = NumberOf(Line.values[i])

LEMMA ListsStep ==
    ASSUME ConfigTypes, ListsInv, DeviceRead, ListsMove
    PROVE  ListsInv'
<1>1. place \in Nat /\ place' = place + 1 /\ file' = file /\ reading = "device"
  BY LineIs DEF DeviceRead
<1>2. ASSUME NEW key \in ListKeys
      PROVE  /\ None(key)' => device'.list[key] = << >>
             /\ Once(key)' => ListIs(key, device'.list[key], Values(key)')
  <2>1. /\ None(key) => device.list[key] = << >>
        /\ Once(key) => ListIs(key, device.list[key], Values(key))
    BY <1>1 DEF ListsInv
  <2>2. CASE Line.key # key
    <3>1. device'.list[key] = device.list[key]
      BY <2>2 DEF ListsMove
    <3>2. /\ None(key)' <=> None(key)
          /\ Once(key)' <=> Once(key)
          /\ Once(key) => Values(key)' = Values(key)
      BY <1>1, <2>2, OtherKey
    <3> QED
      BY <2>1, <3>1, <3>2
  <2>3. CASE Line.key = key
    <3>1. /\ ~None(key)'
          /\ Once(key)' => None(key)
          /\ None(key) => Values(key)' = Line.values
      BY <1>1, <2>3, ThisKey
    <3>2. None(key) => ListIs(key, device'.list[key], Line.values)
      BY <1>2, <2>1, <2>3 DEF ListsMove
    <3> QED
      BY <3>1, <3>2
  <2> QED
    BY <2>2, <2>3
<1> QED
  BY <1>2 DEF ListsInv

LEMMA NumbersStep ==
    ASSUME ConfigTypes, NumbersInv, DeviceRead, NumbersMove
    PROVE  NumbersInv'
<1>1. place \in Nat /\ place' = place + 1 /\ file' = file /\ reading = "device"
  BY LineIs DEF DeviceRead
<1>2. ASSUME NEW key \in NumberKeys \ {"xdr_server_port"}
      PROVE  LastWins(key, device.number[key], 0)'
  <2>1. PICK old : old = device.number[key]
    OBVIOUS
  <2>2. PICK new : new = device'.number[key]
    OBVIOUS
  <2>3. LastWins(key, old, 0)
    BY <1>1, <2>1 DEF NumbersInv
  <2>4. new = IF Gives(key) THEN NumberOf(Line.values[1]) ELSE old
    BY <2>1, <2>2 DEF NumbersMove
  <2>5. LastWins(key, new, 0)'
    <3>1. CASE Gives(key)
      BY <1>1, <2>4, <3>1, LastMoves
    <3>2. CASE ~Gives(key)
      BY <1>1, <2>3, <2>4, <3>2, LastStays
    <3> QED
      BY <3>1, <3>2
  <2> QED
    BY <2>2, <2>5, Zenon DEF LastWins
<1> QED
  BY <1>2 DEF NumbersInv

\* A list of addresses of which only one line was read.
LEMMA AddressesFit ==
    ASSUME ListsInv, reading = "device", Once("dpi_devip")
    PROVE  LET list == device.list["dpi_devip"]
           IN  Len(list) = IF Len(Values("dpi_devip")) < DevMax THEN Len(Values("dpi_devip")) ELSE DevMax
BY DEF ListsInv, ListKeys, ListIs, Counted

LEMMA IdsStep ==
    ASSUME ConfigTypes, ListsInv, ListsInv', IdsInv, DeviceRead, ListsMove, IdsMove
    PROVE  IdsInv'
<1> DEFINE ip == "dpi_devip"
           id == "dpi_devid"
<1>1. /\ place \in Nat /\ place' = place + 1 /\ file' = file /\ reading = "device" /\ reading' = reading
      /\ DevMax \in Nat /\ DevMax > 0
  BY LineIs, Maxima DEF DeviceRead
<1>2. SUFFICES ASSUME Once(ip)', Once(id)', \A m \in LinesOf(id)', n \in LinesOf(ip)' : n < m,
                      NEW i \in 1..Len(device'.list[ip]), i <= Len(Values(id)')
               PROVE  device'.dpi_devid[i] = NumberOf(Values(id)'[i])
  BY DEF IdsInv, IdsAsWritten
<1>3. IdsAsWritten /\ ip # id /\ ip \in ListKeys /\ id \notin ListKeys
  BY <1>1 DEF IdsInv, ListKeys, Ports, DataPorts, Ids
<1>4. CASE Line.key # ip /\ Line.key # id
  <2>1. Once(ip) /\ Once(id) /\ Values(id)' = Values(id) /\ LinesOf(ip)' = LinesOf(ip) /\ LinesOf(id)' = LinesOf(id)
    BY <1>1, <1>2, <1>4, OtherKey
  <2>2. device'.list[ip] = device.list[ip] /\ device'.dpi_devid = device.dpi_devid
    BY <1>3, <1>4 DEF ListsMove, IdsMove
  <2> QED
    BY <1>2, <1>3, <2>1, <2>2 DEF IdsAsWritten
<1>5. CASE Line.key = ip
  <2>1. /\ Once(id) /\ Values(id)' = Values(id) /\ LinesOf(id)' = LinesOf(id)
        /\ None(ip) /\ Values(ip)' = Line.values
        /\ Line.values # << >> => place + 1 \in LinesOf(ip)'
    BY <1>1, <1>2, <1>3, <1>5, OtherKey, ThisKey
  <2>2. Line.values \in Seq(Int \cup {NoIp})
    BY <1>1, <1>5, LineIs DEF DeviceRead, Ports, DataPorts
  <2>3. CASE Line.values = << >>
    <3>1. Len(device'.list[ip]) = IF Len(Values(ip)') < DevMax THEN Len(Values(ip)') ELSE DevMax
      BY <1>1, <1>2 DEF ListsInv, ListKeys, ListIs, Counted
    <3>2. Len(device'.list[ip]) = 0
      BY <1>1, <2>1, <2>3, <3>1
    <3> QED
      BY <1>2, <3>2
  <2>4. CASE Line.values # << >>
    <3>1. LinesOf(id) = {}
      <4>1. \A m \in LinesOf(id) : m \in 1..place /\ place + 1 < m
        BY <1>2, <2>1, <2>4 DEF LinesOf
      <4> QED
        BY <1>1, <4>1
    <3>2. PICK n \in 1..place : \A m \in 1..place : file[m].key = id <=> m = n
      BY <2>1 DEF Once
    <3>3. file[n].values = << >>
      BY <3>1, <3>2 DEF LinesOf
    <3>4. Values(id) = << >>
      <4>1. (CHOOSE m \in 1..place : file[m].key = id) = n
        BY <3>2
      <4> QED
        BY <3>3, <4>1 DEF Values
    <3>5. Len(Values(id)') = 0
      BY <2>1, <3>4
    <3>6. Len(device'.list[ip]) \in Nat
      <4>1. Len(device'.list[ip]) = IF Len(Values(ip)') < DevMax THEN Len(Values(ip)') ELSE DevMax
        BY <1>1, <1>2 DEF ListsInv, ListKeys, ListIs, Counted
      <4> QED
        BY <1>1, <2>1, <2>2, <4>1
    <3> QED
      BY <1>2, <3>5, <3>6
  <2> QED
    BY <2>3, <2>4
<1>6. CASE Line.key = id
  <2>1. Once(ip) /\ None(id) /\ Values(id)' = Line.values
    BY <1>1, <1>2, <1>3, <1>6, OtherKey, ThisKey
  <2>2. device'.list[ip] = device.list[ip]
    BY <1>3, <1>6 DEF ListsMove
  <2>3. Len(device.list[ip]) = IF Len(Values(ip)) < DevMax THEN Len(Values(ip)) ELSE DevMax
    BY <1>1, <2>1, AddressesFit
  <2>4. Len(device.list[ip]) \in Nat
    BY <1>1, <1>3 DEF ConfigTypes, Devices
  <2>5. i \in 1..DevMax /\ i <= Len(device.list[ip])
    BY <1>1, <1>2, <2>2, <2>3, <2>4
  <2> QED
    BY <1>2, <1>6, <2>1, <2>5 DEF IdsMove
<1> QED
  BY <1>4, <1>5, <1>6

\* What a line does to device, and that it does no more.
Moves == device' \in Devices /\ ListsMove /\ NumbersMove /\ IdsMove

\* A number of its own.
LEMMA NumberStored ==
    ASSUME device \in Devices, Line.key \in NumberKeys, NEW v \in Int, Store(Line.key, v),
           Line.key # "xdr_server_port"
              => v = IF Gives(Line.key) THEN NumberOf(Line.values[1]) ELSE device.number[Line.key]
    PROVE  Moves
<1> DEFINE k == Line.key
<1>1. /\ device' = [device EXCEPT !.number = [device.number EXCEPT ![k] = v]]
      /\ device.number \in [NumberKeys -> Int]
  BY DEF Store, Devices
<1>2. /\ device'.list = device.list /\ device'.dpi_devid = device.dpi_devid
      /\ device'.number = [device.number EXCEPT ![k] = v]
      /\ device' \in Devices
  BY <1>1 DEF Devices
<1>3. k \notin ListKeys /\ k # "dpi_devid"
  BY DEF NumberKeys, Numbers, ListKeys, Ports, DataPorts, Ids
<1>4. ListsMove /\ IdsMove
  BY <1>2, <1>3 DEF ListsMove, IdsMove
<1>5. ASSUME NEW key \in NumberKeys \ {"xdr_server_port"}
      PROVE  device'.number[key] = IF Gives(key) THEN NumberOf(Line.values[1]) ELSE device.number[key]
  <2>1. CASE key = k
    BY <1>1, <1>2, <2>1
  <2>2. CASE key # k
    <3>1. ~Gives(key)
      BY <2>2 DEF Gives
    <3> QED
      BY <1>1, <1>2, <2>2, <3>1
  <2> QED
    BY <2>1, <2>2
<1> QED
  BY <1>2, <1>4, <1>5 DEF Moves, NumbersMove

\* A list of its own.
LEMMA ListStored ==
    ASSUME device \in Devices, Line.key \in ListKeys, NEW l \in Seq(Entered), Keep(Line.key, l),
           device.list[Line.key] = << >> => ListIs(Line.key, l, Line.values)
    PROVE  Moves
<1> DEFINE k == Line.key
<1>1. /\ device' = [device EXCEPT !.list = [device.list EXCEPT ![k] = l]]
      /\ device.list \in [ListKeys -> Seq(Entered)]
  BY DEF Keep, Devices
<1>2. /\ device'.number = device.number /\ device'.dpi_devid = device.dpi_devid
      /\ device'.list = [device.list EXCEPT ![k] = l]
      /\ device' \in Devices
  BY <1>1 DEF Devices
<1>3. k \notin NumberKeys /\ k # "dpi_devid"
  BY DEF NumberKeys, Numbers, ListKeys, Ports, DataPorts, Ids
<1>4. ListsMove
  <2>1. device'.list[k] = l /\ \A key \in ListKeys : key # k => device'.list[key] = device.list[key]
    BY <1>1, <1>2
  <2> QED
    BY <2>1 DEF ListsMove
<1>5. NumbersMove /\ IdsMove
  <2>1. \A key \in NumberKeys : ~Gives(key)
    BY <1>3 DEF Gives
  <2> QED
    BY <1>2, <1>3, <2>1 DEF NumbersMove, IdsMove
<1> QED
  BY <1>2, <1>4, <1>5 DEF Moves

\* Each kind of line.
LEMMA NumberLineMoves ==
    ASSUME ConfigTypes, NumberLine
    PROVE  DeviceRead /\ Moves
<1>1. DeviceRead /\ Line.key \in Numbers /\ Line.values # << >> /\ device \in Devices
  BY DEF NumberLine, DeviceLine, NextLine, ReadOn, DeviceRead, ConfigTypes
<1>2. PICK v : v = IF Line.key = "xdr_server_port" THEN NumberOf(Line.values[1]) % Word
                   ELSE NumberOf(Line.values[1])
  OBVIOUS
<1>3. Store(Line.key, v)
  BY <1>2 DEF NumberLine
<1>4. Line.values \in Seq(Int \cup {NoIp})
  BY <1>1, LineIs DEF DeviceRead, Numbers, Ports, DataPorts
<1>5. NumberOf(Line.values[1]) \in Int
  <2>1. Line.values[1] \in Int \cup {NoIp}
    <3>1. Len(Line.values) # 0
      BY <1>1, <1>4
    <3> QED
      BY <1>4, <3>1
  <2> QED
    BY <2>1 DEF NumberOf
<1>6. v \in Int
  <2>1. PICK n \in Int : n = NumberOf(Line.values[1])
    BY <1>5
  <2>2. n % Word \in Int
    BY Maxima
  <2> QED
    BY <1>2, <2>1, <2>2
<1>7. Line.key \in NumberKeys /\ Gives(Line.key)
  BY <1>1 DEF NumberKeys, Numbers, Gives
<1> QED
  BY <1>1, <1>2, <1>3, <1>6, <1>7, NumberStored

LEMMA ServerIpLineMoves ==
    ASSUME ConfigTypes, ServerIpLine
    PROVE  DeviceRead /\ Moves
<1>1. DeviceRead /\ Line.key = "xdr_server_ip" /\ Line.values # << >> /\ device \in Devices
  BY DEF ServerIpLine, DeviceLine, NextLine, ReadOn, DeviceRead, ConfigTypes
<1>2. PICK v : v = IpOf(Line.values[1], device.number[Line.key])
  OBVIOUS
<1>3. Store(Line.key, v)
  BY <1>2 DEF ServerIpLine
<1>4. Line.values \in Seq(Int \cup {NoIp})
  BY <1>1, LineIs DEF DeviceRead, Ports, DataPorts
<1>5. Line.values[1] \in Int \cup {NoIp}
  <2>1. Len(Line.values) # 0
    BY <1>1, <1>4
  <2> QED
    BY <1>4, <2>1
<1>6. Line.key \in NumberKeys /\ device.number[Line.key] \in Int
  BY <1>1 DEF NumberKeys, Devices
<1>7. v \in Int /\ v = IF Gives(Line.key) THEN NumberOf(Line.values[1]) ELSE device.number[Line.key]
  BY <1>1, <1>2, <1>5, <1>6, ConfigAssumption DEF IpOf, NumberOf, Gives
<1> QED
  BY <1>1, <1>3, <1>6, <1>7, NumberStored

LEMMA PortsLineMoves ==
    ASSUME ConfigTypes, PortsLine
    PROVE  DeviceRead /\ Moves
<1>1. DeviceRead /\ Line.key \in Ports /\ Line.key \in ListKeys /\ device \in Devices
  BY DEF PortsLine, DeviceLine, NextLine, ReadOn, DeviceRead, ConfigTypes, ListKeys
<1>2. Line.values \in Seq(Names)
  BY <1>1, LineIs DEF DeviceRead
<1>3. PICK l : l = AddPorts(device.list[Line.key], Line.values, PortMax)
  OBVIOUS
<1>4. l \in Seq(Entered)
  <2>1. device.list[Line.key] \in Seq(Entered)
    BY <1>1 DEF Devices
  <2>2. Line.values \in Seq(Entered)
    BY <1>2, Wider DEF Entered
  <2> QED
    BY <1>3, <2>1, <2>2, ListTypes
<1>5. device.list[Line.key] = << >> => ListIs(Line.key, l, Line.values)
  BY <1>1, <1>2, <1>3, PortsGiven
<1>6. Keep(Line.key, l)
  BY <1>3 DEF PortsLine
<1> QED
  BY <1>1, <1>4, <1>5, <1>6, ListStored

LEMMA DataPortsLineMoves ==
    ASSUME ConfigTypes, DataPortsLine
    PROVE  DeviceRead /\ Moves
<1>1. DeviceRead /\ Line.key \in DataPorts /\ Line.key \in ListKeys /\ device \in Devices
  BY DEF DataPortsLine, DeviceLine, NextLine, ReadOn, DeviceRead, ConfigTypes, ListKeys
<1>2. Line.values \in Seq(Names)
  BY <1>1, LineIs DEF DeviceRead
<1>3. PICK l : l = DataPortsAfter(Line.key, device.list[Line.key], Line.values)
  OBVIOUS
<1>4. l \in Seq(Entered)
  <2>1. device.list[Line.key] \in Seq(Entered) /\ Line.key \in Entered
    <3>1. device.list[Line.key] \in Seq(Entered)
      BY <1>1 DEF Devices
    <3>2. Line.key \in Entered
      BY <1>1 DEF Entered
    <3> QED
      BY <3>1, <3>2
  <2>2. PICK first \in Seq(Entered) : first = Append(device.list[Line.key], Line.key)
    <3>1. PICK list \in Seq(Entered) : list = device.list[Line.key]
      BY <2>1
    <3>2. PICK key \in Entered : key = Line.key
      BY <2>1
    <3>3. Append(list, key) \in Seq(Entered)
      BY AppendProperties
    <3> QED
      BY <3>1, <3>2, <3>3
  <2>3. CASE Line.values = << >>
    BY <1>3, <2>2, <2>3 DEF DataPortsAfter
  <2>4. CASE Line.values # << >>
    <3>1. Tail(Line.values) \in Seq(Names)
      BY <1>2, <2>4, HeadTailProperties
    <3>2. Tail(Line.values) \in Seq(Entered)
      BY <3>1, Wider DEF Entered
    <3>3. AddPorts(first, Tail(Line.values), DevMax) \in Seq(Entered)
      BY <3>2, ListTypes
    <3> QED
      BY <1>3, <2>2, <2>4, <3>3 DEF DataPortsAfter
  <2> QED
    BY <2>3, <2>4
<1>5. device.list[Line.key] = << >> => ListIs(Line.key, l, Line.values)
  BY <1>1, <1>2, <1>3, DataPortsGiven
<1>6. Keep(Line.key, l)
  BY <1>3 DEF DataPortsLine, DataPortsAfter
<1> QED
  BY <1>1, <1>4, <1>5, <1>6, ListStored

LEMMA NumbersLineMoves ==
    ASSUME ConfigTypes, IdsLine \/ DeviceIpsLine
    PROVE  DeviceRead /\ Moves
<1>1. DeviceRead /\ Line.key \in Ids \cup {"dpi_devip"} /\ Line.key \in ListKeys /\ device \in Devices
  BY DEF IdsLine, DeviceIpsLine, DeviceLine, NextLine, ReadOn, DeviceRead, ConfigTypes, ListKeys
<1>2. Line.values \in Seq(Int \cup {NoIp})
  BY <1>1, LineIs DEF DeviceRead, Ids, Ports, DataPorts
<1>3. PICK numbers : numbers = [i \in DOMAIN Line.values |-> NumberOf(Line.values[i])]
  OBVIOUS
<1>4. PICK l : l = AddTo(device.list[Line.key], numbers, DevMax)
  OBVIOUS
<1>5. l \in Seq(Entered)
  <2>1. device.list[Line.key] \in Seq(Entered)
    BY <1>1 DEF Devices
  <2>2. numbers \in Seq(Entered)
    <3>1. DOMAIN Line.values = 1..Len(Line.values) /\ Len(Line.values) \in Nat
      BY <1>2
    <3>2. \A i \in 1..Len(Line.values) : NumberOf(Line.values[i]) \in Entered
      BY <1>2 DEF NumberOf, Entered
    <3>3. numbers \in [1..Len(Line.values) -> Entered]
      BY <1>3, <3>1, <3>2
    <3> QED
      BY <3>1, <3>3
  <2> QED
    BY <1>4, <2>1, <2>2, ListTypes
<1>6. device.list[Line.key] = << >> => ListIs(Line.key, l, Line.values)
  BY <1>1, <1>2, <1>3, <1>4, IdsGiven
<1>7. Keep(Line.key, l)
  <2>1. CASE IdsLine
    BY <1>3, <1>4, <2>1 DEF IdsLine
  <2>2. CASE DeviceIpsLine
    <3>1. \A v : IpOf(v, 0) = NumberOf(v)
      BY DEF IpOf, NumberOf
    <3>2. [i \in DOMAIN Line.values |-> IpOf(Line.values[i], 0)] = numbers
      BY <1>3, <3>1
    <3> QED
      BY <1>1, <1>4, <2>2, <3>2 DEF DeviceIpsLine, DeviceLine
  <2> QED
    BY <2>1, <2>2
<1> QED
  BY <1>1, <1>5, <1>6, <1>7, ListStored

LEMMA DeviceIdsLineMoves ==
    ASSUME ConfigTypes, DeviceIdsLine
    PROVE  DeviceRead /\ Moves
<1>1. DeviceRead /\ Line.key = "dpi_devid" /\ device \in Devices
  BY DEF DeviceIdsLine, DeviceLine, NextLine, ReadOn, DeviceRead, ConfigTypes
<1>2. Line.values \in Seq(Int \cup {NoIp})
  BY <1>1, LineIs DEF DeviceRead, Ports, DataPorts
<1> DEFINE known == Len(device.list["dpi_devip"])
           old == device.dpi_devid
           Written(i) == i <= Len(Line.values) /\ (i = 1 \/ i <= known)
           new == [i \in DOMAIN old |-> IF Written(i) THEN NumberOf(Line.values[i]) ELSE old[i]]
<1>3. device' = [device EXCEPT !.dpi_devid = new]
  BY DEF DeviceIdsLine
<1>4. old \in [1..DevMax -> Int] /\ DOMAIN old = 1..DevMax /\ Len(Line.values) \in Nat /\ DevMax \in Nat
  BY <1>1, <1>2, Maxima DEF Devices
<1>5. new \in [1..DevMax -> Int]
  <2>1. ASSUME NEW i \in 1..DevMax, Written(i) PROVE NumberOf(Line.values[i]) \in Int
    <3>1. i \in 1..Len(Line.values)
      BY <1>4, <2>1
    <3> QED
      BY <1>2, <3>1 DEF NumberOf
  <2> HIDE DEF Written, old
  <2> QED
    BY <1>4, <2>1
<1>6. \A i \in 1..DevMax : Written(i) => new[i] = NumberOf(Line.values[i])
  BY <1>4
<1> HIDE DEF new
<1>7. /\ device'.number = device.number /\ device'.list = device.list /\ device'.dpi_devid = new
      /\ device' \in Devices
  BY <1>1, <1>3, <1>5 DEF Devices
<1>8. Line.key \notin ListKeys /\ Line.key \notin NumberKeys
  BY <1>1 DEF ListKeys, Ports, DataPorts, Ids, NumberKeys, Numbers
<1>9. ListsMove /\ NumbersMove
  <2>1. \A key \in NumberKeys : ~Gives(key)
    BY <1>8 DEF Gives
  <2> QED
    BY <1>7, <1>8, <2>1 DEF ListsMove, NumbersMove
<1>10. IdsMove
  BY <1>1, <1>6, <1>7 DEF IdsMove
<1> QED
  BY <1>1, <1>7, <1>9, <1>10 DEF Moves

LEMMA DeviceLineIgnoredMoves ==
    ASSUME ConfigTypes, DeviceLineIgnored
    PROVE  DeviceRead /\ Moves
<1>1. DeviceRead /\ device' = device /\ device \in Devices
      /\ (Line.key \notin DeviceKeys \/ (Line.key \in NumberKeys /\ Line.values = << >>))
  BY DEF DeviceLineIgnored, DeviceLine, NextLine, ReadOn, DeviceRead, ConfigTypes, NumberKeys
<1>2. Line.key \notin ListKeys /\ Line.key # "dpi_devid"
  BY <1>1 DEF DeviceKeys, ListKeys, Ports, DataPorts, Ids, NumberKeys, Numbers
<1>3. \A key \in NumberKeys : ~Gives(key)
  BY <1>1 DEF Gives, DeviceKeys, NumberKeys
<1> QED
  BY <1>1, <1>2, <1>3 DEF Moves, ListsMove, NumbersMove, IdsMove

-----------------------------------------------------------------------------
(* adv.ini                                                                 *)

LEMMA DefaultsAre == Defaults \in [DOMAIN Defaults -> Int]
BY DEF Defaults

LEMMA AdvStep ==
    ASSUME ConfigTypes, AdvInv, AdvLine
    PROVE  adv' \in [DOMAIN Defaults -> Int] /\ AdvInv'
<1>1. /\ reading = "adv" /\ reading' = reading /\ place < Len(file) /\ place \in Nat
      /\ place' = place + 1 /\ file' = file
      /\ adv \in [DOMAIN Defaults -> Int] /\ Line.values \in Seq(Int \cup {NoIp})
  <2>1. Line.key \notin Ports \cup DataPorts
    BY LineIs DEF AdvLine, NextLine
  <2> QED
    BY <2>1, LineIs DEF AdvLine, NextLine, ReadOn, ConfigTypes
<1>2. Line.values # << >> => NumberOf(Line.values[1]) \in Int
  <2>1. SUFFICES ASSUME Line.values # << >> PROVE NumberOf(Line.values[1]) \in Int
    OBVIOUS
  <2>2. Len(Line.values) # 0
    BY <1>1, <2>1
  <2>3. Line.values[1] \in Int \cup {NoIp}
    BY <1>1, <2>2
  <2> QED
    BY <2>3 DEF NumberOf
<1>3. adv' = IF Line.key \in DOMAIN Defaults /\ Line.values # << >>
             THEN [adv EXCEPT ![Line.key] = NumberOf(Line.values[1])] ELSE adv
  BY DEF AdvLine
<1>4. adv' \in [DOMAIN Defaults -> Int]
  BY <1>1, <1>2, <1>3
<1>5. "xdr_server_ip" \notin DOMAIN Defaults
  BY DEF Defaults
<1>6. ASSUME NEW key \in DOMAIN Defaults
      PROVE  LastWins(key, adv[key], Defaults[key])'
  <2>1. PICK old : old = adv[key]
    OBVIOUS
  <2>2. PICK new : new = adv'[key]
    OBVIOUS
  <2>3. PICK default : default = Defaults[key]
    OBVIOUS
  <2>4. LastWins(key, old, default)
    BY <1>1, <2>1, <2>3 DEF AdvInv
  <2>5. new = IF Gives(key) THEN NumberOf(Line.values[1]) ELSE old
    BY <1>1, <1>3, <1>5, <2>1, <2>2 DEF Gives
  <2>6. LastWins(key, new, default)'
    <3>1. CASE Gives(key)
      BY <1>1, <2>5, <3>1, LastMoves
    <3>2. CASE ~Gives(key)
      BY <1>1, <2>4, <2>5, <3>2, LastStays
    <3> QED
      BY <3>1, <3>2
  <2> QED
    BY <2>2, <2>3, <2>6, Zenon DEF LastWins
<1>7. AdvInv'
  BY <1>6, Zenon DEF AdvInv
<1> QED
  BY <1>4, <1>7

-----------------------------------------------------------------------------
(* ps_filter.ini                                                           *)

LEMMA FiniteCount ==
    ASSUME NEW n \in Nat
    PROVE  IsFiniteSet(1..n)
BY FS_Interval

\* One line more.
LEMMA RulesCounted ==
    ASSUME NEW n \in Nat
    PROVE  /\ RulesIn(n) \in Nat
           /\ RulesIn(n + 1) = RulesIn(n) + (IF NineFields(file[n + 1]) THEN 1 ELSE 0)
<1> DEFINE S == {m \in 1..n : NineFields(file[m])}
           T == {m \in 1..(n + 1) : NineFields(file[m])}
<1>1. IsFiniteSet(S) /\ Cardinality(S) \in Nat
  BY FiniteCount, FS_Subset, FS_CardinalityType
<1>2. n + 1 \notin S
  OBVIOUS
<1>3. RulesIn(n) = Cardinality(S) /\ RulesIn(n + 1) = Cardinality(T)
  BY DEF RulesIn
<1>4. CASE NineFields(file[n + 1])
  <2>1. \A m : m \in T <=> m \in S \cup {n + 1}
    BY <1>4
  <2>2. T = S \cup {n + 1}
    BY <2>1
  <2>3. Cardinality(S \cup {n + 1}) = Cardinality(S) + 1
    BY <1>1, <1>2, FS_AddElement
  <2> QED
    BY <1>1, <1>3, <1>4, <2>2, <2>3
<1>5. CASE ~NineFields(file[n + 1])
  <2>1. \A m : m \in T <=> m \in S
    BY <1>5
  <2>2. T = S
    BY <2>1
  <2> QED
    BY <1>1, <1>3, <1>5, <2>2
<1> QED
  BY <1>4, <1>5

LEMMA RulesSame ==
    ASSUME NEW n, file' = file
    PROVE  RulesIn(n)' = RulesIn(n)
BY DEF RulesIn

LEMMA RulesGrow ==
    ASSUME NEW n \in Nat, n > 0, NineFields(file[n])
    PROVE  RulesIn(n) > 0
<1>1. PICK m \in Nat : m + 1 = n
  <2>1. n - 1 \in Nat /\ (n - 1) + 1 = n
    OBVIOUS
  <2> QED
    BY <2>1
<1>2. RulesIn(m) \in Nat /\ RulesIn(m + 1) = RulesIn(m) + 1
  BY <1>1, RulesCounted
<1> QED
  BY <1>1, <1>2

\* What a line of rules consists of.
LEMMA RuleIs ==
    ASSUME ConfigTypes, place < Len(file), reading = "filter"
    PROVE  place \in Nat /\ Line.fields \in Seq(Nat \cup {NoIp}) /\ Line.cell \in Seq(Nat)
<1>1. file \in Seq(RuleText)
  BY ConfigAssumption DEF ConfigTypes
<1>2. place \in Nat /\ Len(file) \in Nat /\ place + 1 \in 1..Len(file)
  BY <1>1 DEF ConfigTypes
<1>3. Line \in RuleText
  BY <1>1, <1>2 DEF Line
<1> QED
  BY <1>2, <1>3 DEF RuleText

LEMMA StoredType ==
    ASSUME NEW rule \in Rules, NEW line, line.fields \in Seq(Nat \cup {NoIp}), line.cell \in Seq(Nat)
    PROVE  Stored(rule, line) \in Rules
<1> DEFINE Upto(f) == LET i == PlaceOf(f, FieldOrder)
                      IN  IF i \notin 1..Len(line.fields) THEN rule[f]
                          ELSE IF f \in IpFields THEN IpOf(line.fields[i], rule[f])
                          ELSE NumberOf(line.fields[i])
           upto == [f \in RuleFields |-> Upto(f)]
           order == CellOrder(upto.cid_type)
           At(f) == LET i == PlaceOf(f, order)
                    IN  IF i \notin 1..Len(line.cell) THEN upto[f]
                        ELSE IF f = "ci" THEN line.cell[i] ELSE line.cell[i] % Word
<1>1. Stored(rule, line) = [f \in RuleFields |-> At(f)]
  BY Zenon DEF Stored
<1>2. ASSUME NEW f \in RuleFields PROVE Upto(f) \in Nat
  <2>1. rule[f] \in Nat
    BY DEF Rules
  <2>2. PICK i : i = PlaceOf(f, FieldOrder)
    OBVIOUS
  <2>3. i \in 1..Len(line.fields) => line.fields[i] \in Nat \cup {NoIp}
    OBVIOUS
  <2> QED
    BY <2>1, <2>2, <2>3 DEF IpOf, NumberOf
<1> HIDE DEF Upto
<1>3. \A f \in RuleFields : upto[f] \in Nat
  BY <1>2
<1> HIDE DEF upto, order
<1>4. ASSUME NEW f \in RuleFields PROVE At(f) \in Nat
  <2>1. PICK i : i = PlaceOf(f, order)
    OBVIOUS
  <2>2. ASSUME i \in 1..Len(line.cell) PROVE line.cell[i] \in Nat /\ line.cell[i] % Word \in Nat
    <3>1. PICK c \in Nat : c = line.cell[i]
      BY <2>2
    <3>2. c % Word \in Nat
      BY Maxima
    <3> QED
      BY <3>1, <3>2
  <2> QED
    BY <1>3, <2>1, <2>2
<1> HIDE DEF At
<1> QED
  BY <1>1, <1>4 DEF Rules

LEMMA NoRuleType == NoRule \in Rules
BY DEF NoRule, Rules

LEMMA Standing ==
    ASSUME NEW order, NEW f, NEW i \in 1..Len(order), Len(order) \in Nat, order[i] = f,
           \A j \in 1..Len(order) : order[j] = f => j = i
    PROVE  PlaceOf(f, order) = i
<1> DEFINE I == {j \in 1..Len(order) : order[j] = f}
<1>1. I = {i}
  OBVIOUS
<1>2. PlaceOf(f, order) = IF I # {} THEN Min(I) ELSE 0
  BY DEF PlaceOf, SelectInSeq
<1>3. Min({i}) = i
  BY DEF Min
<1> QED
  BY <1>1, <1>2, <1>3

LEMMA Absent ==
    ASSUME NEW order, NEW f, \A j \in 1..Len(order) : order[j] # f
    PROVE  PlaceOf(f, order) = 0
<1> DEFINE I == {j \in 1..Len(order) : order[j] = f}
<1>1. I = {}
  OBVIOUS
<1>2. PlaceOf(f, order) = IF I # {} THEN Min(I) ELSE 0
  BY DEF PlaceOf, SelectInSeq
<1> QED
  BY <1>1, <1>2

LEMMA FieldsStand ==
    /\ Len(FieldOrder) = 8
    /\ \A i \in 1..8 : PlaceOf(FieldOrder[i], FieldOrder) = i /\ FieldOrder[i] \in RuleFields
    /\ \A f \in {"mcc", "mnc", "lac", "rac", "ci"} : PlaceOf(f, FieldOrder) = 0
<1>1. Len(FieldOrder) = 8
  BY DEF FieldOrder
<1>2. \A i, j \in 1..8 : FieldOrder[i] = FieldOrder[j] => i = j
  BY DEF FieldOrder
<1>3. \A i \in 1..8 : FieldOrder[i] \notin {"mcc", "mnc", "lac", "rac", "ci"}
  BY DEF FieldOrder
<1>4. ToSet(FieldOrder) = {FieldOrder[i] : i \in 1..8}
  BY <1>1 DEF ToSet, FieldOrder
<1> HIDE DEF FieldOrder
<1>5. ASSUME NEW i \in 1..8
      PROVE  PlaceOf(FieldOrder[i], FieldOrder) = i /\ FieldOrder[i] \in RuleFields
  <2>1. PICK f : f = FieldOrder[i]
    OBVIOUS
  <2>2. \A j \in 1..Len(FieldOrder) : FieldOrder[j] = f => j = i
    BY <1>1, <1>2, <2>1
  <2>3. PlaceOf(f, FieldOrder) = i
    <3>1. i \in 1..Len(FieldOrder) /\ Len(FieldOrder) \in Nat
      BY <1>1
    <3> QED
      BY <3>1, <2>1, <2>2, Standing, Zenon
  <2> QED
    BY <1>4, <2>1, <2>3 DEF RuleFields
<1>6. ASSUME NEW f \in {"mcc", "mnc", "lac", "rac", "ci"}
      PROVE  PlaceOf(f, FieldOrder) = 0
  BY <1>1, <1>3, Absent
<1> QED
  BY <1>1, <1>5, <1>6

\* Where the parts of a cell stand, and the fields that are none.
LEMMA PartsStand ==
    ASSUME NEW type \in Nat
    PROVE  /\ \A i \in 1..8 : PlaceOf(FieldOrder[i], CellOrder(type)) = 0
           /\ PlaceOf("mcc", CellOrder(type)) = 1 /\ PlaceOf("mnc", CellOrder(type)) = 2
           /\ type < 2 => PlaceOf("lac", CellOrder(type)) = 3
           /\ type = 2 => PlaceOf("lac", CellOrder(type)) = 0
           /\ type = 0 => PlaceOf("rac", CellOrder(type)) = 4
           /\ type # 0 => PlaceOf("rac", CellOrder(type)) = 0
           /\ type < 3 => PlaceOf("ci", CellOrder(type)) = 5 - type
<1> DEFINE order == CellOrder(type)
<1>1. \/ type = 0 /\ order = <<"mcc", "mnc", "lac", "rac", "ci">>
      \/ type = 1 /\ order = <<"mcc", "mnc", "lac", "ci">>
      \/ type = 2 /\ order = <<"mcc", "mnc", "ci">>
      \/ type > 2 /\ order = <<"mcc", "mnc", "lac">>
  BY DEF CellOrder
<1> HIDE DEF order
<1>2. /\ Len(order) \in Nat /\ Len(order) > 1
      /\ type < 3 => Len(order) = 5 - type
  <2>1. CASE type = 0
    BY <1>1, <2>1
  <2>2. CASE type = 1
    BY <1>1, <2>2
  <2>3. CASE type = 2
    BY <1>1, <2>3
  <2>4. CASE type > 2
    <3>1. Len(order) = 3
      BY <1>1, <2>4
    <3> QED
      BY <2>4, <3>1
  <2> QED
    BY <2>1, <2>2, <2>3, <2>4
<1>3. \A i \in 1..Len(order) : order[i] \in {"mcc", "mnc", "lac", "rac", "ci"}
  BY <1>1
<1>4. \A i, j \in 1..Len(order) : order[i] = order[j] => i = j
  BY <1>1
<1>5. \A f : \A i \in 1..Len(order) : order[i] = f => PlaceOf(f, order) = i
  BY <1>2, <1>4, Standing
<1>6. \A f : (\A j \in 1..Len(order) : order[j] # f) => PlaceOf(f, order) = 0
  BY Absent
<1>7. ASSUME NEW i \in 1..8 PROVE PlaceOf(FieldOrder[i], order) = 0
  <2>1. FieldOrder[i] \notin {"mcc", "mnc", "lac", "rac", "ci"}
    BY DEF FieldOrder
  <2> QED
    BY <1>3, <1>6, <2>1
<1>8. order[1] = "mcc" /\ order[2] = "mnc"
  BY <1>1
<1>9. /\ type < 2 => 3 \in 1..Len(order) /\ order[3] = "lac"
      /\ type = 0 => 4 \in 1..Len(order) /\ order[4] = "rac"
      /\ type < 3 => 5 - type \in 1..Len(order) /\ order[5 - type] = "ci"
  <2>1. CASE type = 0
    BY <1>1, <1>2, <2>1
  <2>2. CASE type = 1
    BY <1>1, <1>2, <2>2
  <2>3. CASE type = 2
    BY <1>1, <1>2, <2>3
  <2> QED
    BY <2>1, <2>2, <2>3
<1>10. /\ type = 2 => \A j \in 1..Len(order) : order[j] # "lac"
       /\ type # 0 => \A j \in 1..Len(order) : order[j] # "rac"
  BY <1>1
<1> QED
  BY <1>2, <1>5, <1>6, <1>7, <1>8, <1>9, <1>10 DEF order

\* An empty slot takes from a whole line what it says.
LEMMA SaysStored ==
    ASSUME NEW line, line.fields \in Seq(Nat \cup {NoIp}), line.cell \in Seq(Nat), NineFields(line)
    PROVE  Says(Stored(NoRule, line), line)
<1> DEFINE Upto(f) == LET i == PlaceOf(f, FieldOrder)
                      IN  IF i \notin 1..Len(line.fields) THEN NoRule[f]
                          ELSE IF f \in IpFields THEN IpOf(line.fields[i], NoRule[f])
                          ELSE NumberOf(line.fields[i])
           upto == [f \in RuleFields |-> Upto(f)]
           order == CellOrder(upto.cid_type)
           At(f) == LET i == PlaceOf(f, order)
                    IN  IF i \notin 1..Len(line.cell) THEN upto[f]
                        ELSE IF f = "ci" THEN line.cell[i] ELSE line.cell[i] % Word
           Parts == {"mcc", "mnc", "lac", "rac", "ci"}
           rule == Stored(NoRule, line)
<1>1. rule = [f \in RuleFields |-> At(f)]
  BY Zenon DEF Stored
<1>2. \A f \in RuleFields : NoRule[f] = 0
  BY DEF NoRule
<1>3. Len(line.fields) = 8
  BY FieldsStand DEF NineFields
<1>4. \A f \in Parts : f \in RuleFields
  BY DEF RuleFields
<1>5. ASSUME NEW i \in 1..8 PROVE upto[FieldOrder[i]] = NumberOf(line.fields[i])
  <2>1. PICK f \in RuleFields : f = FieldOrder[i] /\ PlaceOf(f, FieldOrder) = i
    BY FieldsStand, Zenon
  <2>2. Upto(f) = NumberOf(line.fields[i])
    BY <1>2, <1>3, <2>1 DEF IpOf, NumberOf
  <2> HIDE DEF Upto
  <2> QED
    BY <2>1, <2>2
<1>6. ASSUME NEW f \in Parts PROVE upto[f] = 0
  <2>1. PlaceOf(f, FieldOrder) = 0 /\ f \in RuleFields
    BY <1>4, FieldsStand
  <2>2. Upto(f) = 0
    BY <1>2, <2>1
  <2> HIDE DEF Upto
  <2> QED
    BY <2>1, <2>2
<1>7. PICK type \in Nat : type = upto.cid_type
  <2>1. FieldOrder[8] = "cid_type"
    BY DEF FieldOrder
  <2>2. upto["cid_type"] = NumberOf(line.fields[8])
    BY <1>5, <2>1
  <2>3. line.fields[8] \in Nat \cup {NoIp}
    <3>1. PICK s \in Seq(Nat \cup {NoIp}) : s = line.fields
      OBVIOUS
    <3>2. Len(s) = 8
      BY <1>3, <3>1
    <3>3. s[8] \in Nat \cup {NoIp}
      <4>1. 8 \in 1..8
        OBVIOUS
      <4>2. \A j \in 1..Len(s) : s[j] \in Nat \cup {NoIp}
        OBVIOUS
      <4> QED
        BY <3>2, <4>1, <4>2, Zenon
    <3> QED
      BY <3>1, <3>3
  <2> HIDE DEF upto
  <2> QED
    BY <2>2, <2>3 DEF NumberOf
<1> HIDE DEF upto
<1>8. order = CellOrder(type)
  BY <1>7
<1> HIDE DEF order
<1>9. \A f \in RuleFields : rule[f] = At(f)
  <2> HIDE DEF At
  <2> QED
    BY <1>1
<1> HIDE DEF rule
<1>10. \A i \in 1..8 : rule[FieldOrder[i]] = NumberOf(line.fields[i])
  <2>1. ASSUME NEW i \in 1..8 PROVE At(FieldOrder[i]) = NumberOf(line.fields[i])
    <3>1. PlaceOf(FieldOrder[i], order) = 0
      BY <1>8, PartsStand
    <3>2. At(FieldOrder[i]) = upto[FieldOrder[i]]
      <4>1. 0 \notin 1..Len(line.cell)
        OBVIOUS
      <4> QED
        BY <3>1, <4>1, Zenon
    <3> QED
      BY <1>5, <3>2, Zenon
  <2> HIDE DEF At
  <2> QED
    BY <1>9, <2>1, FieldsStand
<1>11. rule.cid_type = type
  <2>1. FieldOrder[8] = "cid_type"
    BY DEF FieldOrder
  <2> QED
    BY <1>5, <1>7, <1>10, <2>1
<1>12. ASSUME type < 3, Len(line.cell) = 5 - type
       PROVE  /\ rule.mcc = line.cell[1] % Word /\ rule.mnc = line.cell[2] % Word
              /\ rule.lac = IF type < 2 THEN line.cell[3] % Word ELSE 0
              /\ rule.rac = IF type = 0 THEN line.cell[4] % Word ELSE 0
              /\ rule.ci = Last(line.cell)
  <2>1. PICK n \in Nat : n = Len(line.cell)
    OBVIOUS
  <2>2. n = 5 - type
    BY <1>12, <2>1
  <2>3. rule["mcc"] = line.cell[1] % Word /\ rule["mnc"] = line.cell[2] % Word
    <3>1. PlaceOf("mcc", order) = 1 /\ PlaceOf("mnc", order) = 2
      BY <1>8, PartsStand
    <3>2. At("mcc") = line.cell[1] % Word /\ At("mnc") = line.cell[2] % Word
      BY <1>12, <2>1, <2>2, <3>1
    <3> HIDE DEF At
    <3> QED
      BY <1>4, <1>9, <3>2
  <2>4. rule["lac"] = IF type < 2 THEN line.cell[3] % Word ELSE 0
    <3>1. PlaceOf("lac", order) = IF type < 2 THEN 3 ELSE 0
      BY <1>8, <1>12, PartsStand
    <3>2. At("lac") = IF type < 2 THEN line.cell[3] % Word ELSE 0
      BY <1>6, <1>12, <2>1, <2>2, <3>1
    <3> HIDE DEF At
    <3> QED
      BY <1>4, <1>9, <3>2
  <2>5. rule["rac"] = IF type = 0 THEN line.cell[4] % Word ELSE 0
    <3>1. PlaceOf("rac", order) = IF type = 0 THEN 4 ELSE 0
      BY <1>8, <1>12, PartsStand
    <3>2. At("rac") = IF type = 0 THEN line.cell[4] % Word ELSE 0
      BY <1>6, <1>12, <2>1, <2>2, <3>1
    <3> HIDE DEF At
    <3> QED
      BY <1>4, <1>9, <3>2
  <2>6. rule["ci"] = line.cell[n]
    <3>1. PlaceOf("ci", order) = n
      BY <1>8, <1>12, <2>2, PartsStand
    <3>2. At("ci") = line.cell[n]
      BY <1>12, <2>1, <2>2, <3>1
    <3> HIDE DEF At
    <3> QED
      BY <1>4, <1>9, <3>2
  <2> QED
    BY <2>1, <2>3, <2>4, <2>5, <2>6 DEF Last
<1>13. \A i \in 1..Len(FieldOrder) : rule[FieldOrder[i]] = NumberOf(line.fields[i])
  BY <1>10, FieldsStand
<1> HIDE DEF At
<1> QED
  BY <1>11, <1>12, <1>13 DEF Says, rule

\* A whole line behind a whole line or none.
Clean(n) == NineFields(file[n]) /\ (n = 1 \/ NineFields(file[n - 1]))

\* Each clean line so far has its rule, and the slot is empty but for the rest of a refused line.
FilterInv == reading = "filter" =>
    /\ Len(rules) = RulesIn(place) /\ Len(rules) <= RuleMax
    /\ result = "reading" => Len(rules) < RuleMax
    /\ place = 0 \/ NineFields(file[place]) => slot = NoRule
    /\ \A n \in 1..place : Clean(n) =>
          RulesIn(n) \in 1..Len(rules) /\ rules[RulesIn(n)] = Stored(NoRule, file[n])

LEMMA RulesMoved ==
    ASSUME place' = place + 1, file' = file
    PROVE  RulesIn(place)' = RulesIn(place + 1)
<1> DEFINE S == {m \in 1..place' : NineFields(file'[m])}
           T == {m \in 1..(place + 1) : NineFields(file[m])}
<1>1. S = T
  OBVIOUS
<1>2. RulesIn(place)' = Cardinality(S) /\ RulesIn(place + 1) = Cardinality(T)
  BY DEF RulesIn
<1> HIDE DEF S, T
<1> QED
  BY <1>1, <1>2

LEMMA RuleLineStep ==
    ASSUME ConfigTypes, FilterInv, RuleLine
    PROVE  rules' \in Seq(Rules) /\ slot' \in Rules /\ FilterInv'
<1>1. /\ reading = "filter" /\ reading' = reading /\ place < Len(file) /\ place \in Nat
      /\ place' = place + 1 /\ file' = file /\ result = "reading"
      /\ rules \in Seq(Rules) /\ slot \in Rules
      /\ Line.fields \in Seq(Nat \cup {NoIp}) /\ Line.cell \in Seq(Nat) /\ NineFields(Line)
  BY RuleIs DEF RuleLine, NextLine, ConfigTypes
<1>2. PICK rule \in Rules : rule = Stored(slot, Line)
  BY <1>1, StoredType
<1>3. rules' = Append(rules, rule) /\ slot' = NoRule
  BY <1>2 DEF RuleLine
<1>4. PICK len \in Nat : len = Len(rules)
  BY <1>1
<1>5. /\ rules' \in Seq(Rules) /\ Len(rules') = len + 1 /\ rules'[len + 1] = rule
      /\ \A k \in 1..len : rules'[k] = rules[k]
  BY <1>1, <1>3, <1>4, AppendProperties
<1>6. len = RulesIn(place) /\ len < RuleMax
  BY <1>1, <1>4 DEF FilterInv
<1>7. RulesIn(place + 1) = len + 1
  BY <1>1, <1>6, RulesCounted DEF Line
<1>8. \A n : RulesIn(n)' = RulesIn(n)
  BY <1>1, RulesSame
<1>9. RulesIn(place)' = len + 1
  BY <1>1, <1>7, RulesMoved
<1>10. Len(rules') = RulesIn(place)' /\ Len(rules') <= RuleMax
  BY <1>5, <1>6, <1>9, Maxima
<1>11. result' = "reading" => Len(rules') < RuleMax
  <2>1. result' = IF len + 1 >= RuleMax THEN "accepted" ELSE result
    BY <1>4 DEF RuleLine, Stops
  <2> QED
    BY <1>5, <2>1, Maxima
<1>12. ASSUME NEW n \in 1..place', Clean(n)'
       PROVE  RulesIn(n)' \in 1..Len(rules') /\ rules'[RulesIn(n)'] = Stored(NoRule, file'[n])
  <2>1. Clean(n)
    BY <1>1, <1>12 DEF Clean
  <2>2. CASE n = place + 1
    <3>1. slot = NoRule
      <4>1. CASE place = 0
        BY <1>1, <4>1 DEF FilterInv
      <4>2. CASE place # 0
        <5>1. n # 1 /\ n - 1 = place
          BY <1>1, <2>2, <4>2
        <5> QED
          BY <1>1, <2>1, <5>1 DEF FilterInv, Clean
      <4> QED
        BY <4>1, <4>2
    <3>2. rule = Stored(NoRule, file'[n])
      BY <1>1, <1>2, <2>2, <3>1 DEF Line
    <3>3. RulesIn(n)' = len + 1
      BY <1>7, <1>8, <2>2
    <3> QED
      BY <1>5, <3>2, <3>3
  <2>3. CASE n # place + 1
    <3>1. n \in 1..place
      BY <1>1, <2>3
    <3>2. PICK k \in 1..len : k = RulesIn(n) /\ rules[k] = Stored(NoRule, file[n])
      BY <1>1, <1>4, <2>1, <3>1 DEF FilterInv
    <3>3. k \in 1..Len(rules') /\ rules'[k] = rules[k]
      BY <1>5
    <3> QED
      BY <1>1, <1>8, <3>2, <3>3
  <2> QED
    BY <2>2, <2>3
<1> QED
  BY <1>1, <1>3, <1>5, <1>10, <1>11, <1>12, NoRuleType DEF FilterInv

LEMMA RuleLineRefusedStep ==
    ASSUME ConfigTypes, FilterInv, RuleLineRefused
    PROVE  slot' \in Rules /\ FilterInv'
<1>1. /\ reading = "filter" /\ reading' = reading /\ place < Len(file) /\ place \in Nat
      /\ place' = place + 1 /\ file' = file /\ result' = result /\ rules' = rules
      /\ slot \in Rules /\ slot' = Stored(slot, Line)
      /\ Line.fields \in Seq(Nat \cup {NoIp}) /\ Line.cell \in Seq(Nat) /\ ~NineFields(Line)
  BY RuleIs DEF RuleLineRefused, NextLine, ReadOn, ConfigTypes
<1>2. slot' \in Rules
  BY <1>1, StoredType
<1>3. \A n : RulesIn(n)' = RulesIn(n)
  BY <1>1, RulesSame
<1>4. RulesIn(place)' = RulesIn(place)
  <2>1. RulesIn(place + 1) = RulesIn(place)
    BY <1>1, RulesCounted DEF Line
  <2> QED
    BY <1>1, <2>1, RulesMoved
<1>5. ~NineFields(file[place + 1]) /\ place + 1 # 0
  BY <1>1 DEF Line
<1>6. \A n \in 1..place' : Clean(n)' => n \in 1..place /\ Clean(n)
  BY <1>1, <1>5 DEF Clean
<1>7. \A n \in 1..place' : Clean(n)' =>
         RulesIn(n)' \in 1..Len(rules') /\ rules'[RulesIn(n)'] = Stored(NoRule, file'[n])
  BY <1>1, <1>3, <1>6 DEF FilterInv
<1>8. Len(rules') = RulesIn(place)' /\ Len(rules') <= RuleMax /\ (result' = "reading" => Len(rules') < RuleMax)
  BY <1>1, <1>4 DEF FilterInv
<1>9. place' # 0 /\ ~NineFields(file'[place'])
  BY <1>1, <1>5
<1> QED
  BY <1>2, <1>7, <1>8, <1>9 DEF FilterInv

-----------------------------------------------------------------------------
(* All of it.                                                              *)

ConfigInv == ConfigTypes /\ ListsInv /\ NumbersInv /\ IdsInv /\ AdvInv /\ FilterInv

\* What is told of the lines and arrays is told as long as nothing is read.
Idle ==
    /\ UNCHANGED <<reading, file, place, device, adv, rules, slot>>
    /\ result' = "reading" => result = "reading"
    /\ result' \in {"reading", "accepted", "refused", "crashed"}

\* A number is told by the lines that have been read.
LEMMA LastSame ==
    ASSUME NEW key, NEW value, NEW default, file' = file, place' = place,
           LastWins(key, value, default)
    PROVE  LastWins(key, value, default)'
<1>1. \A n : n \in Given(key)' <=> n \in Given(key)
  BY DEF Given, LinesOf
<1>2. Given(key)' = Given(key)
  BY <1>1
<1> DEFINE IsTold(f, T) == value = IF T = {} THEN default
                                   ELSE NumberOf(f[CHOOSE n \in T : \A m \in T : m <= n].values[1])
<1>3. IsTold(file, Given(key))
  BY Zenon DEF LastWins, Given
<1>4. IsTold(file', Given(key)')
  BY <1>2, <1>3
<1> QED
  BY <1>4, Zenon DEF LastWins, Given

LEMMA IdleStep ==
    ASSUME ConfigInv, Idle
    PROVE  ConfigInv'
<1>1. ConfigTypes'
  BY DEF ConfigInv, ConfigTypes, Idle
<1>2. /\ UNCHANGED <<reading, file, place, device, adv>>
      /\ ListsInv /\ NumbersInv /\ IdsInv /\ AdvInv
  BY DEF ConfigInv, Idle
<1>3. ASSUME NEW key
      PROVE  /\ None(key)' <=> None(key)
             /\ Once(key)' <=> Once(key)
             /\ Values(key)' = Values(key)
             /\ LinesOf(key)' = LinesOf(key)
  BY <1>2 DEF None, Once, Values, LinesOf
<1>4. ListsInv'
  <2>1. SUFFICES ASSUME reading = "device", NEW key \in ListKeys
                 PROVE  /\ None(key)' => device'.list[key] = << >>
                        /\ Once(key)' => ListIs(key, device'.list[key], Values(key)')
    BY <1>2 DEF ListsInv
  <2>2. /\ None(key) => device.list[key] = << >>
        /\ Once(key) => ListIs(key, device.list[key], Values(key))
    BY <1>2, <2>1 DEF ListsInv
  <2> QED
    BY <1>2, <1>3, <2>2
<1>5. NumbersInv'
  <2>1. ASSUME reading = "device", NEW key \in NumberKeys \ {"xdr_server_port"}
        PROVE  LastWins(key, device.number[key], 0)'
    <3>1. PICK value : value = device.number[key]
      OBVIOUS
    <3>2. LastWins(key, value, 0)'
      BY <1>2, <2>1, <3>1, LastSame DEF NumbersInv
    <3>3. value = device'.number[key]
      BY <1>2, <3>1
    <3> QED
      BY <3>2, <3>3, Zenon DEF LastWins
  <2> QED
    BY <1>2, <2>1 DEF NumbersInv
<1>6. IdsInv'
  BY <1>2, <1>3 DEF IdsInv, IdsAsWritten
<1>7. AdvInv'
  <2>1. ASSUME reading = "adv", NEW key \in DOMAIN Defaults
        PROVE  LastWins(key, adv[key], Defaults[key])'
    <3>1. PICK value : value = adv[key]
      OBVIOUS
    <3>2. PICK default : default = Defaults[key]
      OBVIOUS
    <3>3. LastWins(key, value, default)'
      BY <1>2, <2>1, <3>1, <3>2, LastSame DEF AdvInv
    <3>4. value = adv'[key]
      BY <1>2, <3>1
    <3> QED
      BY <3>2, <3>3, <3>4, Zenon DEF LastWins
  <2> QED
    BY <1>2, <2>1, Zenon DEF AdvInv
<1>8. FilterInv'
  BY DEF ConfigInv, FilterInv, RulesIn, Clean, Idle
<1> QED
  BY <1>1, <1>4, <1>5, <1>6, <1>7, <1>8 DEF ConfigInv

LEMMA DeviceStep ==
    ASSUME ConfigInv, DeviceRead, Moves
    PROVE  ConfigInv'
<1>1. ConfigTypes /\ ListsInv /\ NumbersInv /\ IdsInv
  BY DEF ConfigInv
<1>2. reading' = "device"
  BY DEF DeviceRead
<1>3. ConfigTypes'
  <2>1. place' \in 0..Len(file)
    BY <1>1, LineIs DEF DeviceRead
  <2> QED
    BY <1>1, <2>1 DEF ConfigTypes, DeviceRead, Moves
<1>4. ListsInv' /\ NumbersInv'
  BY <1>1, ListsStep, NumbersStep DEF Moves
<1>5. IdsInv'
  BY <1>1, <1>4, IdsStep DEF Moves
<1>6. AdvInv' /\ FilterInv'
  BY <1>2 DEF AdvInv, FilterInv
<1> QED
  BY <1>3, <1>4, <1>5, <1>6 DEF ConfigInv

LEMMA ConfigBegins ==
    ASSUME ConfigInit
    PROVE  ConfigInv
<1>1. /\ reading \in Readers /\ file \in Files[reading] /\ place = 0 /\ result = "reading"
      /\ device = NoDevice /\ adv = Defaults /\ rules = << >> /\ slot = NoRule
  BY DEF ConfigInit
<1>2. Len(file) \in Nat
  <2>1. reading \in {"device", "adv", "filter"}
    BY <1>1 DEF Readers
  <2>2. CASE reading = "device"
    BY <1>1, <2>2, ConfigAssumption
  <2>3. CASE reading = "adv"
    BY <1>1, <2>3, ConfigAssumption
  <2>4. CASE reading = "filter"
    BY <1>1, <2>4, ConfigAssumption
  <2> QED
    BY <2>1, <2>2, <2>3, <2>4
<1>3. NoDevice \in Devices
  BY DEF NoDevice, Devices, NumberKeys
<1>4. ConfigTypes
  BY <1>1, <1>2, <1>3, DefaultsAre, NoRuleType DEF ConfigTypes
<1>5. \A key : ~Once(key) /\ LinesOf(key) = {}
  BY <1>1 DEF Once, LinesOf
<1>6. ListsInv
  BY <1>1, <1>5 DEF ListsInv, NoDevice
<1>7. NumbersInv /\ AdvInv
  BY <1>1, <1>5 DEF NumbersInv, AdvInv, LastWins, NoDevice, NumberKeys
<1>8. IdsInv
  BY <1>5 DEF IdsInv, IdsAsWritten
<1>9. FilterInv
  <2>1. RulesIn(0) = 0
    <3>1. {m \in 1..0 : NineFields(file[m])} = {}
      OBVIOUS
    <3> QED
      BY <3>1, FS_EmptySet DEF RulesIn
  <2> QED
    BY <1>1, <2>1, Maxima DEF FilterInv
<1> QED
  BY <1>4, <1>6, <1>7, <1>8, <1>9 DEF ConfigInv

LEMMA ConfigStep ==
    ASSUME ConfigInv, [ConfigNext]_configVars
    PROVE  ConfigInv'
<1> USE DEF ConfigInv
<1>1. CASE CannotOpen
  BY <1>1, IdleStep DEF CannotOpen, Idle
<1>2. CASE NumberLine
  BY <1>2, NumberLineMoves, DeviceStep
<1>3. CASE ServerIpLine
  BY <1>3, ServerIpLineMoves, DeviceStep
<1>4. CASE PortsLine
  BY <1>4, PortsLineMoves, DeviceStep
<1>5. CASE PortsLineEmpty
  BY <1>5, IdleStep DEF PortsLineEmpty, DeviceLine, Idle
<1>6. CASE DataPortsLine
  BY <1>6, DataPortsLineMoves, DeviceStep
<1>7. CASE IdsLine \/ DeviceIpsLine
  BY <1>7, NumbersLineMoves, DeviceStep
<1>8. CASE DeviceIdsLine
  BY <1>8, DeviceIdsLineMoves, DeviceStep
<1>9. CASE DeviceLineIgnored
  BY <1>9, DeviceLineIgnoredMoves, DeviceStep
<1>10. CASE DeviceEnd
  BY <1>10, IdleStep DEF DeviceEnd, AtEnd, Idle
<1>11. CASE AdvLine
  <2>1. adv' \in [DOMAIN Defaults -> Int] /\ AdvInv'
    BY <1>11, AdvStep
  <2>2. /\ reading = "adv" /\ place' = place + 1 /\ place < Len(file) /\ place \in Nat /\ Len(file) \in Nat
        /\ UNCHANGED <<reading, file, result, device, rules, slot>>
    BY <1>11, LineIs DEF AdvLine, NextLine, ReadOn
  <2>3. ConfigTypes'
    BY <2>1, <2>2 DEF ConfigTypes
  <2>4. ListsInv' /\ NumbersInv' /\ IdsInv' /\ FilterInv'
    BY <2>2 DEF ListsInv, NumbersInv, IdsInv, FilterInv
  <2> QED
    BY <2>1, <2>3, <2>4
<1>12. CASE AdvEnd
  <2>1. result' \in {"accepted", "refused"}
    BY <1>12 DEF AdvEnd
  <2> QED
    BY <1>12, <2>1, IdleStep DEF AdvEnd, Idle
<1>13. CASE RuleLine
  <2>1. rules' \in Seq(Rules) /\ slot' \in Rules /\ FilterInv'
    BY <1>13, RuleLineStep
  <2>2. /\ reading = "filter" /\ place' = place + 1 /\ place < Len(file)
        /\ result' \in {"reading", "accepted"} /\ UNCHANGED <<reading, file, device, adv>>
    BY <1>13 DEF RuleLine, NextLine
  <2>3. file \in Seq(RuleText)
    BY <2>2, ConfigAssumption DEF ConfigTypes
  <2>4. ConfigTypes'
    BY <2>1, <2>2, <2>3 DEF ConfigTypes
  <2>5. ListsInv' /\ NumbersInv' /\ IdsInv' /\ AdvInv'
    BY <2>2 DEF ListsInv, NumbersInv, IdsInv, AdvInv
  <2> QED
    BY <2>1, <2>4, <2>5
<1>14. CASE RuleLineRefused
  <2>1. slot' \in Rules /\ FilterInv'
    BY <1>14, RuleLineRefusedStep
  <2>2. /\ reading = "filter" /\ place' = place + 1 /\ place < Len(file)
        /\ UNCHANGED <<reading, file, result, device, adv, rules>>
    BY <1>14 DEF RuleLineRefused, NextLine, ReadOn
  <2>3. file \in Seq(RuleText)
    BY <2>2, ConfigAssumption DEF ConfigTypes
  <2>4. ConfigTypes'
    BY <2>1, <2>2, <2>3 DEF ConfigTypes
  <2>5. ListsInv' /\ NumbersInv' /\ IdsInv' /\ AdvInv'
    BY <2>2 DEF ListsInv, NumbersInv, IdsInv, AdvInv
  <2> QED
    BY <2>1, <2>4, <2>5
<1>15. CASE FilterEnd
  BY <1>15, IdleStep DEF FilterEnd, Idle
<1>16. CASE UNCHANGED configVars
  BY <1>16, IdleStep DEF configVars, ConfigTypes, Idle
<1> QED
  BY <1>1, <1>2, <1>3, <1>4, <1>5, <1>6, <1>7, <1>8, <1>9, <1>10, <1>11, <1>12, <1>13, <1>14,
     <1>15, <1>16 DEF ConfigNext

\* What has been read is told by the lines that have been read.
THEOREM ConfigInductive == ConfigSpec => []ConfigInv
<1>1. ConfigInit => ConfigInv
  BY ConfigBegins
<1>2. ConfigInv /\ [ConfigNext]_configVars => ConfigInv'
  BY ConfigStep
<1> QED
  BY <1>1, <1>2, PTL DEF ConfigSpec

\* in_read_config_file: no array of g_device_config is written past its end, whatever the file,
\* as long as no key that lists something comes twice.
THEOREM ArraysInBoundsAlways == ConfigSpec => []ArraysInBounds
<1>1. ConfigInv => ArraysInBounds
  <2>1. SUFFICES ASSUME ConfigInv, reading = "device", NEW key \in DOMAIN device.list, Once(key)
                 PROVE  Len(device.list[key]) <= IF key \in Ports THEN PortMax ELSE DevMax
    BY DEF ArraysInBounds
  <2>2. key \in ListKeys /\ device.list[key] \in Seq(Entered)
    BY <2>1 DEF ConfigInv, ConfigTypes, Devices
  <2>3. PICK list \in Seq(Entered) : list = device.list[key]
    BY <2>2
  <2>4. ListIs(key, list, Values(key))
    BY <2>1, <2>2, <2>3 DEF ConfigInv, ListsInv
  <2>5. Len(list) \in Nat /\ PortMax \in Nat /\ DevMax \in Nat
    BY Maxima
  <2>6. key \in Ports => Len(list) <= PortMax
    BY <2>4 DEF ListIs, Different
  <2>7. key \in DataPorts => Len(list) <= DevMax
    BY <2>4 DEF ListIs, Different
  <2>8. key \in Ids \cup {"dpi_devip"} => Len(list) <= DevMax
    <3>1. SUFFICES ASSUME key \in Ids \cup {"dpi_devip"} PROVE Len(list) <= DevMax
      OBVIOUS
    <3>2. PICK n : n = Len(Values(key))
      OBVIOUS
    <3>3. Len(list) = IF n < DevMax THEN n ELSE DevMax
      BY <2>4, <3>1, <3>2 DEF ListIs, Counted
    <3> QED
      BY <2>5, <3>3
  <2>9. key \in Ports \/ key \in DataPorts \/ key \in Ids \cup {"dpi_devip"}
    BY <2>2 DEF ListKeys
  <2>10. key \in DataPorts \/ key \in Ids \cup {"dpi_devip"} => key \notin Ports
    BY DEF DataPorts, Ids, Ports
  <2> QED
    BY <2>3, <2>6, <2>7, <2>8, <2>9, <2>10
<1> QED
  BY <1>1, ConfigInductive, PTL

\* in_read_config_file and in_read_adv_config_file: what has been read is what the lines say,
\* the last number, the different ports in their order, the devices and their identities; the
\* ports for data are left out, of which in_read_config_file does not take the first.
THEOREM AsWrittenAlways == ConfigSpec => []AsWritten
<1>1. ConfigInv => AsWritten
  <2>1. SUFFICES ASSUME ConfigInv PROVE AsWritten
    OBVIOUS
  <2>2. DOMAIN device.number = NumberKeys /\ DOMAIN device.list = ListKeys
    BY <2>1 DEF ConfigInv, ConfigTypes, Devices
  <2>3. reading = "device" => \A key \in DOMAIN device.list : Once(key) =>
            ListAsWritten(key, device.list[key], Values(key))
    BY <2>1, <2>2 DEF ConfigInv, ListsInv, ListIs, ListAsWritten
  <2> QED
    BY <2>1, <2>2, <2>3 DEF AsWritten, ConfigInv, NumbersInv, IdsInv, AdvInv
<1> QED
  BY <1>1, ConfigInductive, PTL

\* in_read_rule: each whole line makes a rule, in their order, and the rule holds what its line
\* says, but for a line behind one that was refused; there are never too many.
THEOREM RulesAsWrittenAlways == ConfigSpec => []RulesAsWritten
<1>1. ConfigInv => RulesAsWritten
  <2>1. SUFFICES ASSUME ConfigInv, reading = "filter",
                        NEW n \in 1..place, NineFields(file[n]), n = 1 \/ NineFields(file[n - 1])
                 PROVE  Says(rules[RulesIn(n)], file[n])
    BY DEF RulesAsWritten, ConfigInv, FilterInv
  <2>2. rules[RulesIn(n)] = Stored(NoRule, file[n])
    BY <2>1 DEF ConfigInv, FilterInv, Clean
  <2>3. file \in Seq(RuleText) /\ n \in 1..Len(file)
    <3>1. file \in Seq(RuleText)
      BY <2>1, ConfigAssumption DEF ConfigInv, ConfigTypes
    <3> QED
      BY <2>1, <3>1 DEF ConfigInv, ConfigTypes
  <2>4. PICK line \in RuleText : line = file[n]
    BY <2>3
  <2>5. Says(Stored(NoRule, line), line)
    BY <2>1, <2>4, SaysStored DEF RuleText
  <2> QED
    BY <2>2, <2>4, <2>5
<1> QED
  BY <1>1, ConfigInductive, PTL
=============================================================================

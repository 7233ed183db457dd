----------------------------- MODULE Lifecycle -----------------------------
(***************************************************************************)
(* The processes of SigBee from start to end.  The supervisor takes a      *)
(* named semaphore so that only one instance runs, becomes a daemon, sets  *)
(* up the shared memory and forks the workers in the order of              *)
(* process_array: logd, sig_parsers, data_parsers, xdr_senders, ui_sender. *)
(* Then it looks at *g_process_exit every five seconds.                    *)
(*                                                                         *)
(* A stop begins in one of two ways.  A worker leaves its main function    *)
(* and sets *g_process_exit, which the supervisor finds; or a signal       *)
(* reaches the supervisor, a worker, or the whole process group.  Only the *)
(* sig_parser and the xdr_sender look at *g_process_exit themselves.       *)
(*                                                                         *)
(* A step is a system call or the stretch between two of them.  A signal   *)
(* is pending until its process gets to run the handler.                   *)
(***************************************************************************)
EXTENDS Naturals, FiniteSets

CONSTANTS
    NumWorkers,  \* g_process_info_p->num - 1
    Obedient,    \* workers whose loop looks at *g_process_exit
    SigParsers,  \* workers whose loop ends when the iqueue has an error
    MaxStarts,   \* bound: starts of an instance
    MaxSignals   \* bound: signals sent from outside

ASSUME WorkersAssumption ==
    /\ NumWorkers \in Nat \ {0}
    /\ Obedient \subseteq 1 .. NumWorkers
    /\ SigParsers \subseteq Obedient
ASSUME BoundAssumption == MaxStarts \in Nat /\ MaxSignals \in Nat

Workers == 1 .. NumWorkers
Sup == 0

VARIABLES
    sem,         \* does the named semaphore exist ?
    sup,         \* where the supervisor stands, "none": it does not run
    forks,       \* workers create_process has forked
    registered,  \* are exit_sb and delete_name_mutex exit handlers yet ?
    need,        \* wait() calls the signal handler has still to make
    loc,         \* where each worker stands
    term,        \* processes with a SIGTERM pending
    flag,        \* *g_process_exit
    starts, signals

supVars == <<sup, forks, registered, need>>
bounds == <<starts, signals>>
vars == <<sem, supVars, loc, term, flag, bounds>>

\* "forked": the child has not stored its own g_process_id yet.
Places == {"unborn", "forked", "start", "run", "exiting", "zombie", "gone"}

Alive(w) == loc[w] \in {"forked", "start", "run", "exiting"}
Living == {w \in Workers : Alive(w)}

TypeOK ==
    /\ sem \in BOOLEAN
    /\ sup \in {"none", "init", "fork", "loop", "wait", "release", "unlink"}
    /\ forks \in 0 .. NumWorkers
    /\ registered \in BOOLEAN
    /\ need \in 0 .. NumWorkers
    /\ loc \in [Workers -> Places]
    /\ term \subseteq Workers \cup {Sup}
    /\ flag \in BOOLEAN
    /\ starts \in 0 .. MaxStarts
    /\ signals \in 0 .. MaxSignals

Init ==
    /\ sem = FALSE
    /\ sup = "none" /\ forks = 0 /\ registered = FALSE /\ need = 0
    /\ loc = [w \in Workers |-> "unborn"]
    /\ term = {}
    /\ flag = FALSE
    /\ starts = 0 /\ signals = 0

-----------------------------------------------------------------------------
(* The supervisor up to its loop.                                          *)

\* check_process (sem_open with O_EXCL) and start_daemon.  A start while the
\* workers of the instance before still run is not followed.
Start ==
    /\ sup = "none" /\ ~sem /\ starts < MaxStarts
    /\ Living = {}
    /\ sem' = TRUE
    /\ sup' = "init" /\ forks' = 0 /\ registered' = FALSE /\ need' = 0
    /\ loc' = [w \in Workers |-> "unborn"]
    /\ term' = {}
    /\ flag' = FALSE
    /\ starts' = starts + 1
    /\ UNCHANGED signals

\* The configuration, the mPIPE, the shared memory; one failure ends main.
\* No exit handler is registered yet: the semaphore stays.
InitFails ==
    /\ sup = "init"
    /\ sup' = "none"
    /\ UNCHANGED <<sem, forks, registered, need, loc, term, flag, bounds>>

InitSucceeds ==
    /\ sup = "init"
    /\ sup' = "fork"
    /\ UNCHANGED <<sem, forks, registered, need, loc, term, flag, bounds>>

\* fork() does not return a child while a signal is pending.
Fork ==
    /\ sup = "fork" /\ forks < NumWorkers /\ Sup \notin term
    /\ forks' = forks + 1
    /\ loc' = [loc EXCEPT ![forks + 1] = "forked"]
    /\ UNCHANGED <<sem, sup, registered, need, term, flag, bounds>>

\* main returns; the workers that exist are left alone.
ForkFails ==
    /\ sup = "fork" /\ forks < NumWorkers
    /\ sup' = "none"
    /\ UNCHANGED <<sem, forks, registered, need, loc, term, flag, bounds>>

EnterLoop ==
    /\ sup = "fork" /\ forks = NumWorkers
    /\ sup' = "loop"
    /\ registered' = TRUE
    /\ UNCHANGED <<sem, forks, need, loc, term, flag, bounds>>

-----------------------------------------------------------------------------
(* The supervisor's stop.                                                  *)

\* Mutant: wait() is called once less.
WaitsOneLess == IF NumWorkers > 1 THEN NumWorkers - 2 ELSE 0

\* num - 1 - 1: one less than there are workers.
Waits == NumWorkers - 1

\* Mutant: nobody is signalled, as in the handler.
ToldNobody == {}

\* kill(0, SIGTERM) as it reaches the workers.
Told == Living

\* The loop finds the flag and signals the group, itself too: its handler
\* runs before kill returns.
PollExit ==
    /\ sup = "loop" /\ flag
    /\ term' = (term \cup Told) \ {Sup}
    /\ need' = Waits
    /\ sup' = "wait"
    /\ UNCHANGED <<sem, forks, registered, loc, flag, bounds>>

\* in_signal_func in the supervisor; its kill is commented out.
HandleTerm ==
    /\ sup \in {"fork", "loop"} /\ Sup \in term
    /\ term' = term \ {Sup}
    /\ flag' = TRUE
    /\ need' = Waits
    /\ sup' = "wait"
    /\ UNCHANGED <<sem, forks, registered, loc, bounds>>

\* wait() returns a child that has ended ...
Reap ==
    /\ sup = "wait" /\ need > 0
    /\ \E w \in Workers : loc[w] = "zombie" /\ loc' = [loc EXCEPT ![w] = "gone"]
    /\ need' = need - 1
    /\ UNCHANGED <<sem, sup, forks, registered, term, flag, bounds>>

\* ... or fails, there being no child at all.
NoChild ==
    /\ sup = "wait" /\ need > 0
    /\ \A w \in Workers : loc[w] \in {"unborn", "gone"}
    /\ need' = need - 1
    /\ UNCHANGED <<sem, sup, forks, registered, loc, term, flag, bounds>>

\* Mutant: the kill after the waits is commented out too.
FinalKillForgotten == {}

FinalKill == Living

\* sleep(1), kill(0, SIGTERM), exit().
LeaveHandler ==
    /\ sup = "wait" /\ need = 0
    /\ term' = term \cup FinalKill
    /\ sup' = IF registered THEN "release" ELSE "none"
    /\ UNCHANGED <<sem, forks, registered, need, loc, flag, bounds>>

\* exit_sb, registered last: the shared memory is freed.
ReleaseResource ==
    /\ sup = "release"
    /\ sup' = "unlink"
    /\ UNCHANGED <<sem, forks, registered, need, loc, term, flag, bounds>>

DeleteNameMutex ==
    /\ sup = "unlink"
    /\ sem' = FALSE
    /\ sup' = "none"
    /\ UNCHANGED <<forks, registered, need, loc, term, flag, bounds>>

Supervisor ==
    \/ Start \/ InitFails \/ InitSucceeds \/ Fork \/ ForkFails \/ EnterLoop
    \/ PollExit \/ HandleTerm \/ Reap \/ NoChild \/ LeaveHandler
    \/ ReleaseResource \/ DeleteNameMutex

-----------------------------------------------------------------------------
(* The workers.                                                            *)

SetProcessId(w) ==
    /\ loc[w] = "forked"
    /\ loc' = [loc EXCEPT ![w] = "start"]
    /\ UNCHANGED <<sem, supVars, term, flag, bounds>>

\* The endless loop of logd, data_parser and ui_sender, the loop of the
\* others.  The senders first wait until they are connected.
EnterMainLoop(w) ==
    /\ loc[w] = "start"
    /\ loc' = [loc EXCEPT ![w] = "run"]
    /\ UNCHANGED <<sem, supVars, term, flag, bounds>>

\* A worker's main function returns because of a bad queue head or no memory,
\* because of an iqueue error, or because of the flag.
LeavesMain(w) ==
    \/ loc[w] = "start"
    \/ loc[w] = "run" /\ w \in SigParsers
    \/ loc[w] = "run" /\ w \in Obedient /\ flag

LeaveMain(w) ==
    /\ LeavesMain(w)
    /\ flag' = TRUE
    /\ loc' = [loc EXCEPT ![w] = "exiting"]
    /\ UNCHANGED <<sem, supVars, term, bounds>>

\* in_signal_func in a worker.
WorkerTerm(w) ==
    /\ w \in term /\ loc[w] \in {"start", "run", "exiting"}
    /\ term' = term \ {w}
    /\ loc' = [loc EXCEPT ![w] = "exiting"]
    /\ UNCHANGED <<sem, supVars, flag, bounds>>

\* The same while g_process_id is the supervisor's: the child takes itself
\* for the supervisor, has nothing to wait for, and signals the group.
ForkedTerm(w) ==
    /\ w \in term /\ loc[w] = "forked"
    /\ flag' = TRUE
    /\ loc' = [loc EXCEPT ![w] = "exiting"]
    /\ term' = (term \cup Living \cup (IF sup = "none" THEN {} ELSE {Sup})) \ {w}
    /\ UNCHANGED <<sem, supVars, bounds>>

\* Mutant: delete_name_mutex was registered before the workers were forked.
SemAfterExitUnlinked == FALSE

SemAfterExit == sem

\* The worker's own exit handlers have run.
Exit(w) ==
    /\ loc[w] = "exiting"
    /\ loc' = [loc EXCEPT ![w] = "zombie"]
    /\ sem' = SemAfterExit
    /\ term' = term \ {w}
    /\ UNCHANGED <<supVars, flag, bounds>>

Worker(w) ==
    \/ SetProcessId(w) \/ EnterMainLoop(w) \/ LeaveMain(w)
    \/ WorkerTerm(w) \/ ForkedTerm(w) \/ Exit(w)

-----------------------------------------------------------------------------
(* From outside.                                                           *)

\* A fault or SIGKILL ends a worker; nobody takes notice.
Crash(w) ==
    /\ Alive(w)
    /\ loc' = [loc EXCEPT ![w] = "zombie"]
    /\ term' = term \ {w}
    /\ UNCHANGED <<sem, supVars, flag, bounds>>

\* A fault or SIGKILL, and SIGTERM before there is a handler.
CrashSupervisor ==
    /\ sup # "none"
    /\ sup' = "none"
    /\ term' = term \ {Sup}
    /\ UNCHANGED <<sem, forks, registered, need, loc, flag, bounds>>

\* SIGTERM to one process or to the group, while an instance runs.
Signal(group) ==
    /\ signals < MaxSignals
    /\ sup \notin {"none", "init"}
    /\ group \subseteq Living \cup {Sup}
    /\ term' = term \cup group
    /\ signals' = signals + 1
    /\ UNCHANGED <<sem, supVars, loc, flag, starts>>

Outside ==
    \/ \E w \in Workers : Crash(w) \/ Signal({w})
    \/ CrashSupervisor
    \/ Signal({Sup})
    \/ Signal(Living \cup {Sup})

Next ==
    \/ Supervisor
    \/ \E w \in Workers : Worker(w)
    \/ Outside

Spec == Init /\ [][Next]_vars

(***************************************************************************)
(* A process that can run does, a signal is delivered, exit() ends.  There *)
(* is no fairness on the loops of the workers: data_parser, ui_sender and  *)
(* logd never leave theirs and a sender may wait for a connection forever. *)
(***************************************************************************)
FairSpec ==
    /\ Spec
    /\ WF_vars(PollExit \/ HandleTerm \/ Reap \/ NoChild \/ LeaveHandler
               \/ ReleaseResource \/ DeleteNameMutex)
    /\ \A w \in Workers :
          WF_vars(SetProcessId(w) \/ WorkerTerm(w) \/ ForkedTerm(w) \/ Exit(w))

\* More than the code promises (a sender may wait for its connection): also each worker that
\* looks at the flag gets to do so.
AttentiveSpec ==
    /\ FairSpec
    /\ \A w \in Workers :
          /\ WF_vars(EnterMainLoop(w))
          /\ WF_vars(w \in Obedient /\ loc[w] = "run" /\ flag /\ LeaveMain(w))

-----------------------------------------------------------------------------
(* Properties.                                                             *)

\* While an instance is being set up, runs or stops, a second one is refused
\* (check_process): no exit on the way, a worker's least of all, unlinks the
\* name before the supervisor is at its end.
RunningHoldsName == sup # "none" => sem

\* Children the supervisor has not waited for.
Unreaped == {w \in Workers : loc[w] \notin {"unborn", "gone"}}

\* However workers crash, leave or are signalled one by one, and whenever the
\* stop comes, when the shared memory is freed at most one worker is left
\* that may still use it (in_signal_func, release_resource).
AtMostOneLeft == sup \in {"release", "unlink"} => Cardinality(Unreaped) <= 1

\* When a worker has ended the instance by leaving its main function, the
\* supervisor comes to its end, unless a signal to it comes in between.
StopEnds == (sup = "loop" /\ flag /\ Sup \notin term)
                ~> (sup = "none" \/ Sup \in term)

\* No worker outlives an instance that was stopped: the second kill reaches
\* the one nobody waited for.
EveryWorkerEnds == (sup = "release") ~> (Living = {})

\* "所有进程退出，本身退出", all processes have ended and now the supervisor does
\* (in_signal_func): none is left when the shared memory is freed.  One wait() is missing, and
\* the last kill does not wait.
AllEnded == sup \in {"release", "unlink"} => Living = {}

\* "程序在运行", the program is running (check_process), is what the name is taken for.  It also
\* stands for an instance whose initialisation failed before there was an exit handler, and
\* for one that was killed, and refuses every start that follows.
NameMeansRunning == sem => sup # "none" \/ Living # {}

\* "接收到退出信号，等待所有子进程退出", an exit signal came and the supervisor waits for its
\* children to end: the wait is over at some time.  Where only the supervisor was signalled
\* nobody tells the children, and most of them do not look at *g_process_exit: it is not over
\* even if all others do (AttentiveSpec).
SignalEnds == (sup = "wait") ~> (sup = "none")
=============================================================================

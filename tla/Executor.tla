------------------------------ MODULE Executor ------------------------------
(***************************************************************************)
(* One durable workflow: Workflow.executeLocked and DAG.Execute.  A drive   *)
(* loads the journal, runs the graph level by level (the nodes of a level   *)
(* in parallel under a concurrency limit), checkpoints at every level       *)
(* barrier, parks on a suspension node, and on a failure or a cancellation  *)
(* either saves the failed state or rolls the saga back.  A drive may crash *)
(* between any two steps, any store call may fail, and the workflow may be  *)
(* driven again.  Drives of one workflow exclude each other (the Locker);   *)
(* competing processes are the subject of WorkQueue.                        *)
(***************************************************************************)
EXTENDS Integers, FiniteSets

CONSTANTS Nodes,
          Deps,           \* node -> the nodes it depends on
          Level,          \* node -> its index in GetLevels
          LastLevel,
          Pos,            \* node -> its place in name order
          ChoiceNodes,    \* choice nodes
          Targets,        \* choice -> the heads of its branches
          MergeNodes,     \* OR-join nodes
          Tails,          \* merge -> its recorded From tails
          WaitNodes,      \* wait-for-signal nodes
          Awaited,        \* wait node -> the signal it takes
          Signals,
          ContinueOnError,
          Compensable,    \* nodes with a compensation
          MaxConcurrency,
          MaxFaults       \* bound: adverse events in a behaviour

ASSUME GraphAssumption ==
    /\ Deps \in [Nodes -> SUBSET Nodes]
    /\ LastLevel \in Nat
    /\ Level \in [Nodes -> 0..LastLevel]
    /\ \A n \in Nodes : \A d \in Deps[n] : Level[d] < Level[n]
    /\ Pos \in [Nodes -> Nat]
    /\ \A m, n \in Nodes : Pos[m] = Pos[n] => m = n
ASSUME KindAssumption ==
    /\ ChoiceNodes \subseteq Nodes /\ MergeNodes \subseteq Nodes /\ WaitNodes \subseteq Nodes
    /\ ContinueOnError \subseteq Nodes /\ Compensable \subseteq Nodes
    /\ Targets \in [ChoiceNodes -> SUBSET Nodes]
    /\ \A c \in ChoiceNodes : \A t \in Targets[c] : c \in Deps[t]
    /\ Tails \in [MergeNodes -> SUBSET Nodes]
    /\ \A m \in MergeNodes : Tails[m] \subseteq Deps[m]
    /\ Awaited \in [WaitNodes -> Signals]
ASSUME LimitAssumption == MaxConcurrency \in Nat \ {0} /\ MaxFaults \in Nat

VARIABLES
    journal,   \* the persisted WorkflowData: node statuses and rollback marker
    mailbox,   \* signals delivered and not acked
    pc,        \* where the drive is
    st,        \* WorkflowData in memory: node -> status
    rolling,   \* ... its rollback marker and trigger cause
    lvl,       \* the level at hand
    todo,      \* nodes of the level the launch loop has not visited
    failed,    \* fail-fast failures of the level
    parked,    \* nodes of the level that parked
    consumed,  \* signals taken by this drive
    ctxDone,   \* the caller's context is cancelled
    exit,      \* what DAG.Execute returned
    ret,       \* what the last drive returned
    faults

store  == <<journal, mailbox>>
level  == <<lvl, todo, failed, parked>>
drive  == <<pc, st, rolling, level, consumed, ctxDone, exit>>
vars   == <<store, drive, ret, faults>>

Statuses == {"pending", "running", "waiting", "completed", "failed", "skipped", "bypassed",
             "compensated", "compensation_failed"}

(* isTerminalStatus *)
TerminalStatus == Statuses \ {"pending", "running", "waiting"}

Markers == {"no", "node", "ctx"}
Exits   == {"none", "nil", "suspended", "node", "ctx", "infra"}
PCs     == {"idle", "level", "launch", "sweep", "sync", "mark", "save", "final", "ack",
            "comp", "finish"}

(* `saved`: the last store write of the drive went through. *)
Returns == [how : {"none", "crash", "nil", "suspended", "node", "ctx", "infra", "rolledback"},
            saved : BOOLEAN]

TypeOK ==
    /\ journal  \in [st : [Nodes -> Statuses], rolling : Markers]
    /\ mailbox  \in SUBSET Signals
    /\ pc       \in PCs
    /\ st       \in [Nodes -> Statuses]
    /\ rolling  \in Markers
    /\ lvl      \in -1..LastLevel + 1
    /\ todo     \in SUBSET Nodes
    /\ failed   \in SUBSET Nodes
    /\ parked   \in SUBSET Nodes
    /\ consumed \in SUBSET Signals
    /\ ctxDone  \in BOOLEAN
    /\ exit     \in Exits
    /\ ret      \in Returns
    /\ faults   \in 0..MaxFaults

AllPending == [n \in Nodes |-> "pending"]

(* What is left of a drive in memory once it has returned or died. *)
NoDrive ==
    /\ pc' = "idle" /\ st' = AllPending /\ rolling' = "no"
    /\ lvl' = 0 /\ todo' = {} /\ failed' = {} /\ parked' = {}
    /\ consumed' = {} /\ ctxDone' = FALSE /\ exit' = "none"

(* A journal that was never written loads as ErrNotFound, that is as a fresh *)
(* WorkflowData whose nodes DAG.Execute sets Pending.                        *)
Init ==
    /\ journal = [st |-> AllPending, rolling |-> "no"]
    /\ mailbox = {}
    /\ pc = "idle" /\ st = AllPending /\ rolling = "no"
    /\ lvl = 0 /\ todo = {} /\ failed = {} /\ parked = {}
    /\ consumed = {} /\ ctxDone = FALSE /\ exit = "none"
    /\ ret = [how |-> "none", saved |-> TRUE]
    /\ faults = 0

---------------------------------------------------------------------------
(* Dependency resolution *)

(* depResolved, for an AND dependent and for a merge. *)
Taken(s, d) == s[d] = "completed" \/ (d \in ContinueOnError /\ s[d] = "failed")

Resolved(s, n, d) == Taken(s, d) \/ (n \in MergeNodes /\ s[d] = "bypassed")

AllResolved(s, n) == \A d \in Deps[n] : Resolved(s, n, d)

(* Mutant of Classify: what a failure blocks is recorded as a branch not taken. *)
ClassifyFailureAsBypass(s, n) ==
    IF \E d \in Deps[n] : ~Resolved(s, n, d) /\ s[d] \in {"failed", "skipped", "bypassed"}
    THEN "bypassed" ELSE s[n]

(* classifyBlockedStatus: the status of a node that cannot launch; its       *)
(* present status where the outcome is not decidable yet.                    *)
Classify(s, n) ==
    LET open    == {d \in Deps[n] : ~Resolved(s, n, d)}
        failing == {d \in open : s[d] \in {"failed", "skipped"}}
        passed  == {d \in open : s[d] = "bypassed"}
    IN  IF failing # {} THEN "skipped"
        ELSE IF open \ passed # {} \/ passed = {} THEN s[n]
        ELSE IF passed # Deps[n] THEN "skipped" ELSE "bypassed"

(* A merge none of whose recorded tails was taken. *)
NothingToMerge(s, n) == n \in MergeNodes /\ \A d \in Tails[n] : ~Taken(s, d)

(* One level of markSkippedFrom, over the statuses the earlier ones left. *)
SweepLevel(s, k) ==
    [n \in Nodes |-> IF Level[n] = k /\ s[n] \notin TerminalStatus THEN Classify(s, n) ELSE s[n]]

(* Mutant of ClearWaiting: the deferred cleanup is lost. *)
KeepWaiting(s) == s

(* clearWaiting *)
ClearWaiting(s) == [n \in Nodes |-> IF s[n] = "waiting" THEN "pending" ELSE s[n]]

---------------------------------------------------------------------------
(* Starting a drive: Execute, Tick and DeliverAndResume all load the journal *)
(* under the lease.  A rollback in progress is finished, never re-run.       *)

AtLevel(k) == {n \in Nodes : Level[n] = k}

(* What is left to compensate: hasPendingCompensation, and compensateLevel's *)
(* filter.                                                                   *)
Pending(s) == {n \in Compensable : s[n] = "completed"}

(* Mutant of StartRollback: every level at once. *)
StartRollbackUnordered(s) ==
    /\ lvl' = LastLevel
    /\ todo' = Pending(s)
    /\ pc' = IF Pending(s) = {} THEN "finish" ELSE "comp"

(* driveRollback starts at the last level, or has nothing to do. *)
StartRollback(s) ==
    /\ lvl' = LastLevel
    /\ todo' = Pending(s) \cap AtLevel(LastLevel)
    /\ pc' = IF Pending(s) = {} THEN "finish" ELSE "comp"

(* DAG.Execute's status initialization: settled and Waiting nodes stay, the  *)
(* rest are Pending.                                                         *)
Loaded(s) ==
    [n \in Nodes |-> IF s[n] \in TerminalStatus \cup {"waiting"} THEN s[n] ELSE "pending"]

(* Mutant of Execute: a resume retries what had failed. *)
ExecuteRetriesFailed ==
    /\ pc = "idle"
    /\ rolling' = journal.rolling
    /\ IF journal.rolling # "no"
       THEN st' = journal.st /\ StartRollback(journal.st)
       ELSE /\ st' = Loaded([n \in Nodes |-> IF journal.st[n] = "failed" THEN "pending"
                                             ELSE journal.st[n]])
            /\ lvl' = 0 /\ todo' = {}
            /\ pc' = "level"
    /\ UNCHANGED <<store, failed, parked, consumed, ctxDone, exit, ret, faults>>

(* Mutant of Execute: the rollback marker is not looked at. *)
ExecuteIgnoresMarker ==
    /\ pc = "idle"
    /\ rolling' = journal.rolling
    /\ st' = Loaded(journal.st)
    /\ lvl' = 0 /\ todo' = {}
    /\ pc' = "level"
    /\ UNCHANGED <<store, failed, parked, consumed, ctxDone, exit, ret, faults>>

Execute ==
    /\ pc = "idle"
    /\ rolling' = journal.rolling
    /\ IF journal.rolling # "no"
       THEN st' = journal.st /\ StartRollback(journal.st)
       ELSE /\ st' = Loaded(journal.st)
            /\ lvl' = 0 /\ todo' = {}
            /\ pc' = "level"
    /\ UNCHANGED <<store, failed, parked, consumed, ctxDone, exit, ret, faults>>

---------------------------------------------------------------------------
(* DAG.Execute *)

(* Leaving DAG.Execute with an error other than ErrSuspended: the deferred   *)
(* clearWaiting, then the caller's choice between rollback and failed-state  *)
(* Save.                                                                     *)
LeaveWith(e, s) ==
    /\ exit' = e
    /\ st' = ClearWaiting(s)
    /\ IF e \in {"node", "ctx"} /\ Compensable # {}
       THEN rolling' = e /\ pc' = "mark"
       ELSE rolling' = rolling /\ pc' = "save"

(* Mutant of StartLevel: one level too many. *)
StartLevelOffByOne ==
    /\ pc = "level"
    /\ IF lvl > LastLevel + 1
       THEN pc' = "final" /\ exit' = "nil" /\ UNCHANGED <<st, level>>
       ELSE /\ pc' = "launch" /\ todo' = AtLevel(lvl) /\ failed' = {} /\ parked' = {}
            /\ UNCHANGED <<st, lvl, exit>>
    /\ UNCHANGED <<store, rolling, consumed, ctxDone, ret, faults>>

(* The top of the level loop. *)
StartLevel ==
    /\ pc = "level"
    /\ IF lvl > LastLevel
       THEN /\ pc' = "final"
            /\ exit' = "nil"
            /\ st' = ClearWaiting(st)
            /\ UNCHANGED <<rolling, level>>
       ELSE IF ctxDone
            THEN LeaveWith("ctx", st) /\ UNCHANGED level
            ELSE /\ pc' = "launch"
                 /\ todo' = AtLevel(lvl)
                 /\ failed' = {} /\ parked' = {}
                 /\ UNCHANGED <<st, rolling, lvl, exit>>
    /\ UNCHANGED <<store, consumed, ctxDone, ret, faults>>

Running == {n \in Nodes : st[n] = "running"}

(* The node the launch loop is at. *)
Here(n) == pc = "launch" /\ n \in todo /\ \A m \in todo : Pos[n] <= Pos[m]

Runnable(n) == /\ st[n] \notin TerminalStatus
               /\ AllResolved(st, n)
               /\ ~NothingToMerge(st, n)

(* A node that is terminal, blocked, or a merge with nothing to merge.       *)
PassNode(n) ==
    /\ Here(n)
    /\ ~Runnable(n)
    /\ todo' = todo \ {n}
    /\ st' = [st EXCEPT ![n] = IF @ \in TerminalStatus THEN @
                               ELSE IF AllResolved(st, n) THEN "bypassed"
                               ELSE Classify(st, n)]
    /\ UNCHANGED <<store, pc, rolling, lvl, failed, parked, consumed, ctxDone, exit, ret, faults>>

(* A slot is free: the goroutine is spawned and the node marked Running.     *)
(* With the level context cancelled too, the select may take either arm.     *)
LaunchNode(n) ==
    /\ Here(n)
    /\ Runnable(n)
    /\ Cardinality(Running) < MaxConcurrency
    /\ todo' = todo \ {n}
    /\ st' = [st EXCEPT ![n] = "running"]
    /\ UNCHANGED <<store, pc, rolling, lvl, failed, parked, consumed, ctxDone, exit, ret, faults>>

(* levelCtx is cancelled by the caller or by a fail-fast sibling. *)
LevelCancelled == ctxDone \/ failed # {}

StopLaunching ==
    /\ \E n \in todo : Here(n) /\ Runnable(n)
    /\ LevelCancelled
    /\ todo' = {}
    /\ UNCHANGED <<store, pc, st, rolling, lvl, failed, parked, consumed, ctxDone, exit, ret, faults>>

(* Mutant of CompleteNode: a wait acks the signal as it takes it. *)
CompleteAcksAtOnce(n) ==
    /\ pc = "launch" /\ n \in Running
    /\ n \in WaitNodes => Awaited[n] \in mailbox
    /\ st' = [st EXCEPT ![n] = "completed"]
    /\ mailbox' = IF n \in WaitNodes THEN mailbox \ {Awaited[n]} ELSE mailbox
    /\ UNCHANGED <<journal, pc, rolling, level, consumed, ctxDone, exit, ret, faults>>

(* Node.execute returns nil.  A choice has marked the heads it did not take  *)
(* Bypassed; a wait has taken its signal from the mailbox, unacked.          *)
CompleteNode(n) ==
    /\ pc = "launch" /\ n \in Running
    /\ \E untaken \in IF n \in ChoiceNodes THEN {Targets[n] \ {t} : t \in Targets[n]} ELSE {{}} :
          st' = [m \in Nodes |-> IF m = n THEN "completed"
                                 ELSE IF m \in untaken THEN "bypassed" ELSE st[m]]
    /\ IF n \in WaitNodes
       THEN Awaited[n] \in mailbox /\ consumed' = consumed \cup {Awaited[n]}
       ELSE UNCHANGED consumed
    /\ UNCHANGED <<store, pc, rolling, level, ctxDone, exit, ret, faults>>

(* Node.execute fails: fail-fast cancels the level, continue-on-error does   *)
(* not.                                                                      *)
FailNode(n) ==
    /\ pc = "launch" /\ n \in Running
    /\ st' = [st EXCEPT ![n] = "failed"]
    /\ failed' = IF n \in ContinueOnError THEN failed ELSE failed \cup {n}
    /\ UNCHANGED <<store, pc, rolling, lvl, todo, parked, consumed, ctxDone, exit, ret, faults>>

(* A suspension node finds no signal: ErrSuspended.                          *)
ParkNode(n) ==
    /\ pc = "launch" /\ n \in Running /\ n \in WaitNodes
    /\ Awaited[n] \notin mailbox
    /\ st' = [st EXCEPT ![n] = "waiting"]
    /\ parked' = parked \cup {n}
    /\ UNCHANGED <<store, pc, rolling, lvl, todo, failed, consumed, ctxDone, exit, ret, faults>>

Drained == pc = "launch" /\ todo = {} /\ Running = {}

(* After the barrier, cancellation outranks failure, failure outranks park.  *)
HaltLevel ==
    /\ Drained
    /\ LevelCancelled
    /\ IF ctxDone THEN LeaveWith("ctx", st) /\ UNCHANGED lvl
       ELSE pc' = "sweep" /\ lvl' = lvl + 1 /\ UNCHANGED <<st, rolling, exit>>
    /\ UNCHANGED <<store, todo, failed, parked, consumed, ctxDone, ret, faults>>

(* markSkippedFrom: the later levels in order, then the ExecutionError.      *)
SweepSkipped ==
    /\ pc = "sweep"
    /\ IF lvl > LastLevel
       THEN LeaveWith("node", st) /\ UNCHANGED lvl
       ELSE st' = SweepLevel(st, lvl) /\ lvl' = lvl + 1 /\ UNCHANGED <<pc, rolling, exit>>
    /\ UNCHANGED <<store, todo, failed, parked, consumed, ctxDone, ret, faults>>

(* Mutant of Checkpoint: only a park is checkpointed. *)
CheckpointParksOnly ==
    /\ Drained
    /\ ~LevelCancelled
    /\ IF parked # {}
       THEN pc' = "sync" /\ journal' = [st |-> st, rolling |-> rolling] /\ UNCHANGED lvl
       ELSE pc' = "level" /\ lvl' = lvl + 1 /\ UNCHANGED journal
    /\ UNCHANGED <<mailbox, st, rolling, todo, failed, parked, consumed, ctxDone, exit, ret, faults>>

(* Mutant of Checkpoint: a level with a failure goes on to the next. *)
CheckpointDespiteFailure ==
    /\ Drained
    /\ journal' = [st |-> st, rolling |-> rolling]
    /\ IF parked # {}
       THEN pc' = "sync" /\ UNCHANGED lvl
       ELSE pc' = "level" /\ lvl' = lvl + 1
    /\ UNCHANGED <<mailbox, st, rolling, todo, failed, parked, consumed, ctxDone, exit, ret, faults>>

(* The barrier checkpoint: a parked level goes on to the forced sync, any    *)
(* other to the next level.                                                  *)
Checkpoint ==
    /\ Drained
    /\ ~LevelCancelled
    /\ journal' = [st |-> st, rolling |-> rolling]
    /\ IF parked # {}
       THEN pc' = "sync" /\ UNCHANGED lvl
       ELSE pc' = "level" /\ lvl' = lvl + 1
    /\ UNCHANGED <<mailbox, st, rolling, todo, failed, parked, consumed, ctxDone, exit, ret, faults>>

(* forceSync, then ErrSuspended: the one exit that keeps Waiting.            *)
Suspend ==
    /\ pc = "sync"
    /\ pc' = "ack"
    /\ exit' = "suspended"
    /\ UNCHANGED <<store, st, rolling, level, consumed, ctxDone, ret, faults>>

---------------------------------------------------------------------------
(* executeLocked, after DAG.Execute *)

Return(how, saved) == NoDrive /\ ret' = [how |-> how, saved |-> saved]

SaveFailedState ==
    /\ pc = "save"
    /\ journal' = [st |-> st, rolling |-> rolling]
    /\ Return(exit, TRUE)
    /\ UNCHANGED <<mailbox, faults>>

FinalSave ==
    /\ pc = "final"
    /\ journal' = [st |-> st, rolling |-> rolling]
    /\ pc' = "ack"
    /\ UNCHANGED <<mailbox, st, rolling, level, consumed, ctxDone, exit, ret, faults>>

(* Mutant of AckConsumed: the whole mailbox is acked. *)
AckEverything ==
    /\ pc = "ack"
    /\ mailbox' = {}
    /\ Return(exit, TRUE)
    /\ UNCHANGED <<journal, faults>>

(* The taken signals are acked only now that their effect is durable.        *)
AckConsumed ==
    /\ pc = "ack"
    /\ mailbox' = mailbox \ consumed
    /\ Return(exit, TRUE)
    /\ UNCHANGED <<journal, faults>>

---------------------------------------------------------------------------
(* The saga: SetRollingBack, Save, then finishRollback.                      *)

SaveRollbackMarker ==
    /\ pc = "mark"
    /\ journal' = [st |-> st, rolling |-> rolling]
    /\ StartRollback(st)
    /\ UNCHANGED <<mailbox, st, rolling, failed, parked, consumed, ctxDone, exit, ret, faults>>

(* One compensation of the level, with its retries, ends. *)
CompensateNode(n) ==
    /\ pc = "comp" /\ n \in todo
    /\ \E s \in {"compensated", "compensation_failed"} : st' = [st EXCEPT ![n] = s]
    /\ todo' = todo \ {n}
    /\ UNCHANGED <<store, pc, rolling, lvl, failed, parked, consumed, ctxDone, exit, ret, faults>>

(* Mutant of NextCompLevel: the first level is left out. *)
NextCompLevelShort ==
    /\ lvl' = lvl - 1
    /\ IF lvl <= 1 THEN pc' = "finish" /\ todo' = {}
       ELSE pc' = "comp" /\ todo' = Pending(st) \cap AtLevel(lvl - 1)

(* driveRollback's descending loop. *)
NextCompLevel ==
    /\ lvl' = lvl - 1
    /\ IF lvl = 0 THEN pc' = "finish" /\ todo' = {}
       ELSE pc' = "comp" /\ todo' = Pending(st) \cap AtLevel(lvl - 1)

(* The Save after each reverse level. *)
SaveCompLevel ==
    /\ pc = "comp" /\ todo = {}
    /\ journal' = [st |-> st, rolling |-> rolling]
    /\ NextCompLevel
    /\ UNCHANGED <<mailbox, st, rolling, failed, parked, consumed, ctxDone, exit, ret, faults>>

FinishRollback ==
    /\ pc = "finish"
    /\ journal' = [st |-> st, rolling |-> rolling]
    /\ Return("rolledback", TRUE)
    /\ UNCHANGED <<mailbox, faults>>

---------------------------------------------------------------------------
(* The environment *)

DeliverSignal(s) ==
    /\ s \notin mailbox
    /\ mailbox' = mailbox \cup {s}
    /\ UNCHANGED <<journal, drive, ret, faults>>

Fault == faults < MaxFaults /\ faults' = faults + 1

CancelContext ==
    /\ Fault
    /\ pc # "idle" /\ ~ctxDone
    /\ ctxDone' = TRUE
    /\ UNCHANGED <<store, pc, st, rolling, level, consumed, exit, ret>>

Crash ==
    /\ Fault
    /\ pc # "idle"
    /\ NoDrive
    /\ ret' = [how |-> "crash", saved |-> FALSE]
    /\ UNCHANGED store

(* The barrier checkpoint fails (nothing is written), or the forced sync     *)
(* after a written park checkpoint fails: the drive leaves with that error.  *)
CheckpointFails ==
    /\ Fault
    /\ (Drained /\ ~LevelCancelled) \/ pc = "sync"
    /\ LeaveWith("infra", st)
    /\ UNCHANGED <<store, level, consumed, ctxDone, ret>>

(* A Save that ends the drive fails. *)
SaveFails ==
    /\ Fault
    /\ \/ pc \in {"save", "mark"} /\ Return(exit, FALSE)
       \/ pc = "final" /\ Return("infra", FALSE)
       \/ pc = "finish" /\ Return("rolledback", FALSE)
    /\ UNCHANGED store

(* The Save after a reverse level fails: remembered, and the rollback goes on. *)
CompSaveFails ==
    /\ Fault
    /\ pc = "comp" /\ todo = {}
    /\ NextCompLevel
    /\ UNCHANGED <<store, st, rolling, failed, parked, consumed, ctxDone, exit, ret>>

(* The ack is lost: logged, never an error of the drive. *)
AckFails ==
    /\ Fault
    /\ pc = "ack"
    /\ Return(exit, TRUE)
    /\ UNCHANGED store

---------------------------------------------------------------------------
DriveStep ==
    \/ StartLevel \/ StopLaunching \/ HaltLevel \/ SweepSkipped \/ Checkpoint \/ Suspend
    \/ SaveFailedState \/ FinalSave \/ AckConsumed
    \/ SaveRollbackMarker \/ SaveCompLevel \/ FinishRollback
    \/ \E n \in Nodes : \/ PassNode(n) \/ LaunchNode(n) \/ CompleteNode(n) \/ FailNode(n)
                        \/ ParkNode(n) \/ CompensateNode(n)

Next ==
    \/ Execute
    \/ DriveStep
    \/ \E s \in Signals : DeliverSignal(s)
    \/ CancelContext \/ Crash \/ CheckpointFails \/ SaveFails \/ CompSaveFails \/ AckFails

Spec == Init /\ [][Next]_vars

(* A drive keeps going (goroutines are scheduled, actions return) and the    *)
(* host keeps driving the workflow.                                          *)
FairSpec == Spec /\ WF_vars(DriveStep) /\ WF_vars(Execute)

---------------------------------------------------------------------------
(* Properties *)

(* No node's action starts on the strength of a dependency whose outcome a   *)
(* crash could take back: the level barrier checkpoint comes before the next *)
(* level, in a first drive and in every resume.                              *)
RunsOnDurableDeps ==
    \A n \in Running : \A d \in Deps[n] : Resolved(journal.st, n, d)

(* Recorded progress is never lost: a terminal status in the journal changes *)
(* only from completed to an outcome of its compensation, whatever crashes,  *)
(* faults and resumes lie between.                                           *)
JournalOnlyGrows ==
    [][\A n \in Nodes : journal.st[n] \in TerminalStatus =>
          \/ journal'.st[n] = journal.st[n]
          \/ /\ journal.st[n] = "completed" /\ journal.rolling # "no"
             /\ journal'.st[n] \in {"compensated", "compensation_failed"}]_vars

(* A drive whose last write went through returned ErrSuspended exactly if it *)
(* left a Waiting node in the journal: no other exit leaves a parked run     *)
(* behind, and no suspension goes unrecorded.                                *)
SuspendedIffWaiting ==
    pc = "idle" /\ ret.saved =>
       (ret.how = "suspended" <=> \E n \in Nodes : journal.st[n] = "waiting")

(* A run that returned nil has every node settled in the journal: no node is *)
(* left pending by a merge, a branch, a tolerated failure or a resume.       *)
NilMeansSettled ==
    pc = "idle" /\ ret.how = "nil" => \A n \in Nodes : journal.st[n] \in TerminalStatus

(* Every recorded outcome follows from the recorded outcomes before it: only *)
(* nodes with resolved dependencies ran, only a failure upstream (or a       *)
(* bypassed and a taken one together) skips a node, and only a branch not    *)
(* taken bypasses one.                                                       *)
OutcomesJustified ==
    LET j == journal.st IN
    journal.rolling = "no" => \A n \in Nodes :
       /\ j[n] \in {"completed", "failed"} => AllResolved(j, n)
       /\ j[n] = "skipped" => \E d, e \in Deps[n] :
             \/ j[d] = "skipped" \/ (j[d] = "failed" /\ d \notin ContinueOnError)
             \/ j[d] = "bypassed" /\ Taken(j, e)
       /\ j[n] = "bypassed" => \/ \E c \in ChoiceNodes : n \in Targets[c] /\ j[c] = "completed"
                               \/ NothingToMerge(j, n) /\ AllResolved(j, n)
                               \/ \A d \in Deps[n] : j[d] = "bypassed"

(* A signal leaves the mailbox only once a node that took it is settled in   *)
(* the journal: a crash between taking and acking re-delivers, never loses.  *)
AckedOnlyWhenApplied ==
    [][\A s \in mailbox \ mailbox' :
          \E n \in WaitNodes : Awaited[n] = s /\ journal.st[n] \in TerminalStatus]_vars

(* Once the rollback marker is durable no forward action runs again, in this *)
(* drive or in a resume.                                                     *)
NoForwardOnceRollingBack ==
    journal.rolling # "no" => Running = {} /\ pc \notin {"level", "launch", "sweep", "sync", "final"}

(* A node is compensated only after every compensable node that depends on   *)
(* it has had its turn, also when the rollback is resumed after a crash.     *)
CompensatesInReverse ==
    [][\A n \in Nodes : st[n] = "completed" /\ st'[n] \in {"compensated", "compensation_failed"} =>
          \A m \in Compensable : n \in Deps[m] => st[m] # "completed"]_vars

(* A started rollback is finished: every compensable completed node gets its *)
(* turn, whatever finite number of crashes and faults interrupts it.         *)
RollbackFinishes ==
    journal.rolling # "no" ~>
       \A n \in Compensable : journal.st[n] # "completed"

(* A parked wait whose signal has been delivered is woken: the signal is     *)
(* neither lost nor left for ever with a run that is driven again.           *)
SignalWakes ==
    \A n \in WaitNodes : journal.st[n] = "waiting" /\ Awaited[n] \in mailbox
                        ~> journal.st[n] # "waiting"

---------------------------------------------------------------------------
(* What comments in the code say, and the code does not keep.                *)

(* "a terminal state ... will not transition further within a run", "left    *)
(* as-is" on a resume: a settled node changes only by its compensation.      *)
TerminalStatusStays ==
    [][\A n \in Nodes : journal.st[n] \in TerminalStatus =>
          journal'.st[n] \in {journal.st[n], "compensated", "compensation_failed"}]_vars

=============================================================================

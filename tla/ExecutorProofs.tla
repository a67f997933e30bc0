--------------------------- MODULE ExecutorProofs ---------------------------
(***************************************************************************)
(* Proofs about Executor, for any graph, any set of suspension, choice and  *)
(* merge nodes, any concurrency limit and any number of adverse events.     *)
(***************************************************************************)
EXTENDS Executor, TLAPS

(* The level at hand is a level of the graph wherever it is used as one. *)
LevelInv ==
    /\ pc \in {"level", "sweep"} => lvl >= 0
    /\ pc \in {"launch", "sync", "comp"} => lvl \in 0..LastLevel

TypeInv == TypeOK /\ LevelInv

---------------------------------------------------------------------------
(* The operators on statuses return statuses. *)

LEMMA ClearWaitingType ==
  ASSUME NEW s \in [Nodes -> Statuses]
  PROVE  ClearWaiting(s) \in [Nodes -> Statuses]
  BY DEF ClearWaiting, Statuses

LEMMA ClassifyType ==
  ASSUME NEW s \in [Nodes -> Statuses], NEW n \in Nodes
  PROVE  Classify(s, n) \in {"skipped", "bypassed", s[n]}
  BY DEF Classify

LEMMA SweepLevelType ==
  ASSUME NEW s \in [Nodes -> Statuses], NEW k
  PROVE  SweepLevel(s, k) \in [Nodes -> Statuses]
<1>1. ASSUME NEW n \in Nodes PROVE Classify(s, n) \in Statuses
  BY ClassifyType DEF Statuses
<1> QED
  BY <1>1 DEF SweepLevel

(* Leaving DAG.Execute, and returning from the drive, keep the types. *)
LEMMA LeaveWithType ==
  ASSUME TypeInv, NEW e \in {"node", "ctx", "infra"}, LeaveWith(e, st)
  PROVE  /\ exit' \in Exits /\ st' \in [Nodes -> Statuses]
         /\ rolling' \in Markers /\ pc' \in {"mark", "save"}
  BY ClearWaitingType DEF LeaveWith, TypeInv, TypeOK, Exits, Markers

LEMMA NoDriveType ==
  ASSUME NoDrive
  PROVE  /\ pc' \in PCs /\ st' \in [Nodes -> Statuses] /\ rolling' \in Markers
         /\ lvl' \in -1..LastLevel + 1 /\ todo' \in SUBSET Nodes
         /\ failed' \in SUBSET Nodes /\ parked' \in SUBSET Nodes
         /\ consumed' \in SUBSET Signals /\ ctxDone' \in BOOLEAN /\ exit' \in Exits
         /\ LevelInv'
<1>1. /\ pc' \in PCs /\ st' \in [Nodes -> Statuses] /\ rolling' \in Markers
      /\ todo' \in SUBSET Nodes /\ failed' \in SUBSET Nodes /\ parked' \in SUBSET Nodes
      /\ consumed' \in SUBSET Signals /\ exit' \in Exits
  BY DEF NoDrive, PCs, Statuses, AllPending, Markers, Exits
<1>2. lvl' \in -1..LastLevel + 1 /\ LevelInv'
  BY GraphAssumption DEF NoDrive, LevelInv
<1>3. ctxDone' \in BOOLEAN
  BY Zenon DEF NoDrive
<1> QED
  BY <1>1, <1>2, <1>3

LEMMA ReturnsType ==
  ASSUME TypeOK
  PROVE  /\ [how |-> exit, saved |-> TRUE] \in Returns
         /\ [how |-> exit, saved |-> FALSE] \in Returns
         /\ [how |-> "infra", saved |-> FALSE] \in Returns
         /\ [how |-> "crash", saved |-> FALSE] \in Returns
         /\ [how |-> "rolledback", saved |-> TRUE] \in Returns
         /\ [how |-> "rolledback", saved |-> FALSE] \in Returns
  BY DEF TypeOK, Returns, Exits

LEMMA StartRollbackType ==
  ASSUME NEW s, StartRollback(s)
  PROVE  /\ lvl' \in -1..LastLevel + 1 /\ todo' \in SUBSET Nodes
         /\ pc' \in PCs /\ LevelInv'
  BY GraphAssumption, KindAssumption DEF StartRollback, LevelInv, PCs, Pending, AtLevel

---------------------------------------------------------------------------
LEMMA TypeInit == Init => TypeInv
<1> SUFFICES ASSUME Init PROVE TypeInv
  OBVIOUS
<1>1. /\ journal \in [st : [Nodes -> Statuses], rolling : Markers]
      /\ mailbox \in SUBSET Signals /\ pc \in PCs /\ st \in [Nodes -> Statuses]
      /\ rolling \in Markers /\ todo \in SUBSET Nodes /\ failed \in SUBSET Nodes
      /\ parked \in SUBSET Nodes /\ consumed \in SUBSET Signals /\ exit \in Exits
  BY DEF Init, AllPending, Statuses, Markers, PCs, Exits
<1>2. lvl \in -1..LastLevel + 1 /\ faults \in 0..MaxFaults /\ LevelInv
  BY GraphAssumption, LimitAssumption DEF Init, LevelInv
<1>3. ctxDone \in BOOLEAN /\ ret \in Returns
  BY Zenon DEF Init, Returns
<1> QED
  BY <1>1, <1>2, <1>3 DEF TypeInv, TypeOK

LEMMA TypeNext == TypeInv /\ [Next]_vars => TypeInv'
<1> SUFFICES ASSUME TypeInv, [Next]_vars PROVE TypeInv'
  OBVIOUS
<1> USE DEF TypeInv, TypeOK
<1>0. [st |-> st, rolling |-> rolling] \in [st : [Nodes -> Statuses], rolling : Markers]
  OBVIOUS
<1>1. CASE Execute
  <2>1. st' \in [Nodes -> Statuses] /\ rolling' \in Markers
    BY <1>1 DEF Execute, Loaded, Statuses
  <2>2. lvl' \in -1..LastLevel + 1 /\ todo' \in SUBSET Nodes /\ pc' \in PCs /\ LevelInv'
    BY <1>1, StartRollbackType, GraphAssumption DEF Execute, PCs, LevelInv
  <2> QED
    BY <1>1, <2>1, <2>2 DEF Execute, store
<1>2. CASE StartLevel
  <2>1. CASE lvl > LastLevel
    <3>1. pc' = "final" /\ exit' \in Exits /\ st' \in [Nodes -> Statuses]
      BY <1>2, <2>1, ClearWaitingType DEF StartLevel, Exits
    <3> QED
      BY <1>2, <2>1, <3>1 DEF StartLevel, level, store, PCs, LevelInv
  <2>2. CASE ~(lvl > LastLevel) /\ ctxDone
    <3>1. LeaveWith("ctx", st) /\ UNCHANGED level
      BY <1>2, <2>2 DEF StartLevel
    <3> QED
      BY <1>2, <3>1, LeaveWithType DEF StartLevel, level, store, PCs, LevelInv
  <2>3. CASE ~(lvl > LastLevel) /\ ~ctxDone
    <3>1. lvl \in 0..LastLevel
      BY <1>2, <2>3, GraphAssumption DEF StartLevel, LevelInv
    <3> QED
      BY <1>2, <2>3, <3>1 DEF StartLevel, store, PCs, LevelInv, AtLevel
  <2> QED
    BY <2>1, <2>2, <2>3
<1>3. ASSUME NEW n \in Nodes, PassNode(n) PROVE TypeInv'
  <2>1. Classify(st, n) \in Statuses /\ "bypassed" \in Statuses
    BY ClassifyType DEF Statuses
  <2> QED
    BY <1>3, <2>1 DEF PassNode, store, LevelInv
<1>4. ASSUME NEW n \in Nodes, LaunchNode(n) PROVE TypeInv'
  BY <1>4 DEF LaunchNode, store, LevelInv, Statuses
<1>5. CASE StopLaunching
  BY <1>5 DEF StopLaunching, store, LevelInv
<1>6. ASSUME NEW n \in Nodes, CompleteNode(n) PROVE TypeInv'
  <2>1. st' \in [Nodes -> Statuses]
    BY <1>6 DEF CompleteNode, Statuses
  <2>2. consumed' \in SUBSET Signals
    BY <1>6, KindAssumption DEF CompleteNode
  <2> QED
    BY <1>6, <2>1, <2>2 DEF CompleteNode, store, level, LevelInv
<1>7. ASSUME NEW n \in Nodes, FailNode(n) \/ ParkNode(n) PROVE TypeInv'
  <2>1. st' \in [Nodes -> Statuses] /\ failed' \in SUBSET Nodes /\ parked' \in SUBSET Nodes
    BY <1>7 DEF FailNode, ParkNode, Statuses
  <2> QED
    BY <1>7, <2>1 DEF FailNode, ParkNode, store, LevelInv
<1>8. CASE HaltLevel
  <2>1. CASE ctxDone
    <3>1. LeaveWith("ctx", st) /\ UNCHANGED lvl
      BY <1>8, <2>1 DEF HaltLevel
    <3> QED
      BY <1>8, <3>1, LeaveWithType DEF HaltLevel, store, PCs, LevelInv
  <2>2. CASE ~ctxDone
    <3>1. lvl \in 0..LastLevel
      BY <1>8 DEF HaltLevel, Drained, LevelInv
    <3>2. lvl' \in -1..LastLevel + 1 /\ lvl' >= 0
      BY <1>8, <2>2, <3>1, GraphAssumption DEF HaltLevel
    <3> QED
      BY <1>8, <2>2, <3>2 DEF HaltLevel, store, PCs, LevelInv
  <2> QED
    BY <2>1, <2>2
<1>9. CASE SweepSkipped
  <2>1. CASE lvl > LastLevel
    <3>1. LeaveWith("node", st) /\ UNCHANGED lvl
      BY <1>9, <2>1 DEF SweepSkipped
    <3> QED
      BY <1>9, <3>1, LeaveWithType DEF SweepSkipped, store, PCs, LevelInv
  <2>2. CASE ~(lvl > LastLevel)
    <3>1. lvl' \in -1..LastLevel + 1 /\ lvl' >= 0
      BY <1>9, <2>2, GraphAssumption DEF SweepSkipped, LevelInv
    <3> QED
      BY <1>9, <2>2, <3>1, SweepLevelType DEF SweepSkipped, store, PCs, LevelInv
  <2> QED
    BY <2>1, <2>2
<1>10. CASE Checkpoint
  <2>1. lvl \in 0..LastLevel
    BY <1>10 DEF Checkpoint, Drained, LevelInv
  <2>2. lvl' \in -1..LastLevel + 1 /\ pc' \in PCs /\ LevelInv'
    BY <1>10, <2>1, GraphAssumption DEF Checkpoint, LevelInv, PCs
  <2> QED
    BY <1>10, <1>0, <2>2 DEF Checkpoint
<1>11. CASE Suspend
  BY <1>11 DEF Suspend, store, level, PCs, Exits, LevelInv
<1>12. CASE SaveFailedState \/ AckConsumed \/ FinishRollback \/ Crash \/ SaveFails \/ AckFails
  <2>1. NoDrive
    BY <1>12 DEF SaveFailedState, AckConsumed, FinishRollback, Crash, SaveFails, AckFails, Return
  <2>2. ret' \in Returns
    BY <1>12, ReturnsType
       DEF SaveFailedState, AckConsumed, FinishRollback, Crash, SaveFails, AckFails, Return
  <2>3. journal' \in [st : [Nodes -> Statuses], rolling : Markers] /\ mailbox' \in SUBSET Signals
    BY <1>12, <1>0 DEF SaveFailedState, AckConsumed, FinishRollback, Crash, SaveFails, AckFails, store
  <2>4. faults' = faults \/ Fault
    BY <1>12 DEF SaveFailedState, AckConsumed, FinishRollback, Crash, SaveFails, AckFails
  <2>5. faults' \in 0..MaxFaults
    BY <2>4, LimitAssumption DEF Fault
  <2> QED
    BY <2>1, <2>2, <2>3, <2>5, NoDriveType
<1>13. CASE FinalSave
  BY <1>13, <1>0 DEF FinalSave, level, PCs, LevelInv
<1>14. CASE SaveRollbackMarker
  BY <1>14, <1>0, StartRollbackType DEF SaveRollbackMarker
<1>15. ASSUME NEW n \in Nodes, CompensateNode(n) PROVE TypeInv'
  BY <1>15 DEF CompensateNode, store, LevelInv, Statuses
<1>16. CASE SaveCompLevel \/ CompSaveFails
  <2>1. lvl \in 0..LastLevel
    BY <1>16 DEF SaveCompLevel, CompSaveFails, LevelInv
  <2>2. lvl' \in -1..LastLevel + 1 /\ pc' \in PCs /\ LevelInv' /\ todo' \in SUBSET Nodes
    BY <1>16, <2>1, GraphAssumption
       DEF SaveCompLevel, CompSaveFails, NextCompLevel, LevelInv, PCs, AtLevel
  <2>3. journal' \in [st : [Nodes -> Statuses], rolling : Markers] /\ mailbox' \in SUBSET Signals
    BY <1>16, <1>0 DEF SaveCompLevel, CompSaveFails, store
  <2>4. faults' \in 0..MaxFaults
    BY <1>16, LimitAssumption DEF SaveCompLevel, CompSaveFails, Fault
  <2> QED
    BY <1>16, <2>2, <2>3, <2>4 DEF SaveCompLevel, CompSaveFails
<1>17. ASSUME NEW s \in Signals, DeliverSignal(s) PROVE TypeInv'
  BY <1>17 DEF DeliverSignal, drive, level, LevelInv
<1>18. CASE CancelContext
  <2>1. faults' \in 0..MaxFaults
    BY <1>18, LimitAssumption DEF CancelContext, Fault
  <2>2. ctxDone' \in BOOLEAN
    BY <1>18, Zenon DEF CancelContext
  <2> QED
    BY <1>18, <2>1, <2>2 DEF CancelContext, store, level, LevelInv
<1>19. CASE CheckpointFails
  <2>1. faults' \in 0..MaxFaults
    BY <1>19, LimitAssumption DEF CheckpointFails, Fault
  <2> QED
    BY <1>19, <2>1, LeaveWithType DEF CheckpointFails, store, level, PCs, LevelInv
<1>20. CASE UNCHANGED vars
  BY <1>20 DEF vars, store, drive, level, LevelInv
<1> QED
  BY <1>1, <1>2, <1>3, <1>4, <1>5, <1>6, <1>7, <1>8, <1>9, <1>10, <1>11, <1>12, <1>13,
     <1>14, <1>15, <1>16, <1>17, <1>18, <1>19, <1>20 DEF Next, DriveStep

(* Every reachable state of a durable run is typed, whatever its graph. *)
THEOREM TypeCorrect == Spec => []TypeOK
<1>1. TypeInv => TypeOK
  BY DEF TypeInv
<1> QED
  BY <1>1, TypeInit, TypeNext, PTL DEF Spec

---------------------------------------------------------------------------
(* The inductive invariant of a drive. *)

(* Nothing in the journal is Running, and a rolling-back journal has no park. *)
JournalAtRest ==
    /\ \A n \in Nodes : journal.st[n] # "running"
    /\ journal.rolling # "no" => \A n \in Nodes : journal.st[n] # "waiting"

IdleIsEmpty == pc = "idle" => st = AllPending /\ consumed = {}

(* A node runs, and the loop looks, only at the level at hand. *)
BarrierHolds ==
    /\ pc # "launch" => Running = {}
    /\ pc = "launch" => /\ todo \cup Running \cup parked \subseteq AtLevel(lvl)
                        /\ todo \cap parked = {}
                        /\ todo \cap Running = {}

(* What the earlier levels left is in the journal before this level runs. *)
EarlierLevelsDurable ==
    pc \in {"level", "launch"} => \A n \in Nodes : Level[n] < lvl => journal.st[n] = st[n]

ForwardPCs == {"level", "launch", "sweep", "sync", "final"}

ForwardUnmarked == pc \in ForwardPCs => rolling = "no" /\ journal.rolling = "no"

ParkedWait ==
    /\ pc \in {"launch", "sync"} => \A n \in parked : st[n] = "waiting"
    /\ pc = "sync" => parked # {}

(* How DAG.Execute left, and which exits keep Waiting. *)
ExitHonest ==
    /\ pc \in {"mark", "save"} => exit \in {"node", "ctx", "infra"}
    /\ pc = "final" => exit = "nil"
    /\ pc = "ack" => exit \in {"nil", "suspended"}
    /\ pc = "ack" /\ exit = "suspended" => \E n \in Nodes : st[n] = "waiting"
    /\ pc \in {"mark", "save", "final", "comp", "finish"} \/ (pc = "ack" /\ exit = "nil") =>
          \A n \in Nodes : st[n] # "waiting"

Synced == pc \in {"sync", "ack"} => journal.st = st

ConsumedSettled ==
    \A s \in consumed : \E n \in WaitNodes : Awaited[n] = s /\ st[n] \in TerminalStatus

(* A rollback has dealt with every level above the one at hand. *)
ReverseOrder ==
    pc = "comp" =>
       /\ todo = Pending(st) \cap AtLevel(lvl)
       /\ \A m \in Compensable : Level[m] > lvl => st[m] # "completed"

DriveInv ==
    /\ TypeInv
    /\ JournalAtRest /\ IdleIsEmpty /\ BarrierHolds /\ EarlierLevelsDurable
    /\ ForwardUnmarked /\ ParkedWait /\ ExitHonest /\ Synced /\ ConsumedSettled
    /\ ReverseOrder /\ SuspendedIffWaiting /\ RunsOnDurableDeps

(* Once a drive has returned or died, only the store and what was returned   *)
(* are left to constrain.                                                    *)
LEMMA NoDriveKeeps ==
  ASSUME NoDrive
  PROVE  /\ IdleIsEmpty' /\ BarrierHolds' /\ EarlierLevelsDurable' /\ ForwardUnmarked'
         /\ ParkedWait' /\ ExitHonest' /\ Synced' /\ ConsumedSettled' /\ ReverseOrder'
         /\ RunsOnDurableDeps'
<1>1. pc' = "idle" /\ st' = AllPending /\ consumed' = {} /\ Running' = {}
  BY DEF NoDrive, Running, AllPending
<1> QED
  BY <1>1 DEF IdleIsEmpty, BarrierHolds, EarlierLevelsDurable, ForwardUnmarked, ForwardPCs,
              ParkedWait, ExitHonest, Synced, ConsumedSettled, ReverseOrder, RunsOnDurableDeps

(* Leaving DAG.Execute with an error, past the barrier. *)
LEMMA LeaveKeeps ==
  ASSUME DriveInv, NEW e \in {"node", "ctx", "infra"}, LeaveWith(e, st), Running = {},
         UNCHANGED <<journal, consumed>>
  PROVE  /\ IdleIsEmpty' /\ BarrierHolds' /\ EarlierLevelsDurable' /\ ForwardUnmarked'
         /\ ParkedWait' /\ ExitHonest' /\ Synced' /\ ConsumedSettled' /\ ReverseOrder'
         /\ RunsOnDurableDeps' /\ JournalAtRest' /\ SuspendedIffWaiting'
<1>1. pc' \in {"mark", "save"} /\ exit' = e /\ st' = ClearWaiting(st)
  BY DEF LeaveWith
<1>2. st \in [Nodes -> Statuses]
  BY DEF DriveInv, TypeInv, TypeOK
<1>3. \A n \in Nodes : st'[n] # "waiting" /\ (st[n] \in TerminalStatus => st'[n] = st[n])
  BY <1>1, <1>2 DEF ClearWaiting, TerminalStatus
<1>4. Running' = {}
  BY <1>1, <1>2 DEF Running, ClearWaiting
<1>5. ConsumedSettled'
  BY <1>3, KindAssumption DEF ConsumedSettled, DriveInv
<1>6. JournalAtRest'
  BY DEF JournalAtRest, DriveInv
<1> QED
  BY <1>1, <1>3, <1>4, <1>5, <1>6
     DEF IdleIsEmpty, BarrierHolds, EarlierLevelsDurable, ForwardUnmarked, ForwardPCs,
         ParkedWait, ExitHonest, Synced, ReverseOrder, RunsOnDurableDeps, SuspendedIffWaiting

(* Starting or resuming a rollback. *)
LEMMA RollbackKeeps ==
  ASSUME TypeInv, NEW s \in [Nodes -> Statuses], StartRollback(s), st' = s,
         \A n \in Nodes : s[n] \notin {"running", "waiting"},
         ConsumedSettled'
  PROVE  /\ IdleIsEmpty' /\ BarrierHolds' /\ EarlierLevelsDurable' /\ ForwardUnmarked'
         /\ ParkedWait' /\ ExitHonest' /\ Synced' /\ ReverseOrder' /\ RunsOnDurableDeps'
         /\ SuspendedIffWaiting'
<1>1. pc' \in {"comp", "finish"} /\ lvl' = LastLevel
  BY DEF StartRollback
<1>2. Running' = {}
  BY DEF Running
<1>3. ReverseOrder'
  <2>1. \A m \in Compensable : ~(Level[m] > LastLevel)
    BY GraphAssumption, KindAssumption
  <2> QED
    BY <2>1 DEF ReverseOrder, StartRollback, Pending
<1> QED
  BY <1>1, <1>2, <1>3
     DEF IdleIsEmpty, BarrierHolds, EarlierLevelsDurable, ForwardUnmarked, ForwardPCs,
         ParkedWait, ExitHonest, Synced, RunsOnDurableDeps, SuspendedIffWaiting

(* The launch loop and the goroutines of a level: the journal and the place  *)
(* stay, and only nodes of this level start, end or are classified; a choice *)
(* marks later nodes Bypassed.                                               *)
LEMMA LevelStepKeeps ==
  ASSUME DriveInv, pc = "launch",
         UNCHANGED <<journal, pc, rolling, lvl, exit, ret>>,
         st' \in [Nodes -> Statuses],
         todo' \subseteq todo,
         \A n \in Nodes : st'[n] # st[n] => Level[n] >= lvl,
         \A n \in Running' : n \in Running \/ (n \in todo \ todo' /\ AllResolved(st, n)),
         parked' \subseteq parked \cup Running,
         \A n \in parked' : st'[n] = "waiting",
         ConsumedSettled'
  PROVE  /\ IdleIsEmpty' /\ BarrierHolds' /\ EarlierLevelsDurable' /\ ForwardUnmarked'
         /\ ParkedWait' /\ ExitHonest' /\ Synced' /\ ReverseOrder'
         /\ RunsOnDurableDeps' /\ JournalAtRest' /\ SuspendedIffWaiting'
<1> USE DEF DriveInv, TypeInv, TypeOK
<1>1. BarrierHolds'
  BY DEF BarrierHolds, AtLevel
<1>2. EarlierLevelsDurable'
  <2>1. ASSUME NEW n \in Nodes, Level[n] < lvl PROVE journal'.st[n] = st'[n]
    BY <2>1, GraphAssumption DEF EarlierLevelsDurable
  <2> QED
    BY <2>1 DEF EarlierLevelsDurable
<1>3. RunsOnDurableDeps'
  <2>1. ASSUME NEW n \in Running', NEW d \in Deps[n] PROVE Resolved(journal.st, n, d)
    <3>1. CASE n \in Running
      BY <2>1, <3>1 DEF RunsOnDurableDeps
    <3>2. CASE n \in todo /\ AllResolved(st, n)
      <4>1. n \in Nodes /\ Level[n] = lvl
        BY <3>2 DEF BarrierHolds, AtLevel
      <4>2. d \in Nodes /\ Level[d] < lvl
        BY <4>1, GraphAssumption
      <4>3. journal.st[d] = st[d]
        BY <4>2 DEF EarlierLevelsDurable
      <4> QED
        BY <3>2, <4>3 DEF AllResolved, Resolved, Taken
    <3> QED
      BY <3>1, <3>2
  <2> QED
    BY <2>1 DEF RunsOnDurableDeps, Resolved, Taken
<1>4. JournalAtRest' /\ ForwardUnmarked'
  BY DEF JournalAtRest, ForwardUnmarked, ForwardPCs
<1> QED
  BY <1>1, <1>2, <1>3, <1>4
     DEF IdleIsEmpty, ParkedWait, ExitHonest, Synced, ReverseOrder, SuspendedIffWaiting

LEMMA DriveInit == Init => DriveInv
<1> SUFFICES ASSUME Init PROVE DriveInv
  OBVIOUS
<1>1. TypeInv
  BY TypeInit
<1>2. \A n \in Nodes : st[n] = "pending" /\ journal.st[n] = "pending"
  BY DEF Init, AllPending
<1>3. Running = {}
  BY <1>2 DEF Running
<1>4. SuspendedIffWaiting /\ JournalAtRest
  BY <1>2 DEF Init, SuspendedIffWaiting, JournalAtRest
<1> QED
  BY <1>1, <1>3, <1>4
     DEF Init, DriveInv, IdleIsEmpty, BarrierHolds, EarlierLevelsDurable, ForwardUnmarked,
         ForwardPCs, ParkedWait, ExitHonest, Synced, ConsumedSettled, ReverseOrder,
         RunsOnDurableDeps

LEMMA DriveNext == DriveInv /\ [Next]_vars => DriveInv'
<1> SUFFICES ASSUME DriveInv, [Next]_vars PROVE DriveInv'
  OBVIOUS
<1>0. TypeInv' /\ TypeInv /\ TypeOK /\ TypeOK'
  BY TypeNext DEF DriveInv, TypeInv
<1> USE <1>0
<1>a. st \in [Nodes -> Statuses] /\ st' \in [Nodes -> Statuses]
      /\ journal \in [st : [Nodes -> Statuses], rolling : Markers]
  BY DEF TypeOK
<1>1. CASE Execute
  <2>1. consumed' = {} /\ ConsumedSettled'
    BY <1>1 DEF Execute, DriveInv, IdleIsEmpty, ConsumedSettled
  <2>2. JournalAtRest'
    BY <1>1 DEF Execute, store, DriveInv, JournalAtRest
  <2>3. CASE journal.rolling # "no"
    <3>1. st' = journal.st /\ StartRollback(journal.st)
      BY <1>1, <2>3 DEF Execute
    <3>2. \A n \in Nodes : journal.st[n] \notin {"running", "waiting"}
      BY <2>3 DEF DriveInv, JournalAtRest
    <3> QED
      BY <1>a, <2>1, <2>2, <3>1, <3>2, RollbackKeeps DEF DriveInv
  <2>4. CASE journal.rolling = "no"
    <3>1. pc' = "level" /\ lvl' = 0 /\ rolling' = "no" /\ journal' = journal
      BY <1>1, <2>4 DEF Execute, store
    <3>2. Running' = {}
      BY <1>1, <2>4, <1>a DEF Execute, Loaded, Running, TerminalStatus
    <3>3. EarlierLevelsDurable'
      BY <3>1, GraphAssumption DEF EarlierLevelsDurable
    <3> QED
      BY <2>1, <2>2, <2>4, <3>1, <3>2, <3>3
         DEF DriveInv, IdleIsEmpty, BarrierHolds, ForwardUnmarked, ForwardPCs, ParkedWait,
             ExitHonest, Synced, ReverseOrder, SuspendedIffWaiting, RunsOnDurableDeps
  <2> QED
    BY <2>3, <2>4
<1>2. CASE StartLevel
  <2>0. pc = "level" /\ Running = {} /\ UNCHANGED <<journal, consumed>> /\ rolling = "no"
        /\ journal.rolling = "no"
    BY <1>2 DEF StartLevel, store, DriveInv, BarrierHolds, ForwardUnmarked, ForwardPCs
  <2>1. CASE lvl > LastLevel
    <3>1. pc' = "final" /\ exit' = "nil" /\ st' = ClearWaiting(st) /\ rolling' = rolling
      BY <1>2, <2>1 DEF StartLevel
    <3>2. \A n \in Nodes : st'[n] # "waiting" /\ (st[n] \in TerminalStatus => st'[n] = st[n])
      BY <3>1, <1>a DEF ClearWaiting, TerminalStatus
    <3>3. Running' = {}
      BY <2>0, <3>1, <1>a DEF Running, ClearWaiting
    <3>4. ConsumedSettled'
      BY <2>0, <3>2, KindAssumption DEF ConsumedSettled, DriveInv
    <3> QED
      BY <2>0, <3>1, <3>2, <3>3, <3>4
         DEF DriveInv, IdleIsEmpty, BarrierHolds, EarlierLevelsDurable, ForwardUnmarked,
             ForwardPCs, ParkedWait, ExitHonest, Synced, ReverseOrder, SuspendedIffWaiting,
             RunsOnDurableDeps, JournalAtRest
  <2>2. CASE ~(lvl > LastLevel) /\ ctxDone
    <3>1. LeaveWith("ctx", st)
      BY <1>2, <2>2 DEF StartLevel
    <3> QED
      BY <2>0, <3>1, LeaveKeeps DEF DriveInv
  <2>3. CASE ~(lvl > LastLevel) /\ ~ctxDone
    <3>1. pc' = "launch" /\ todo' = AtLevel(lvl) /\ parked' = {}
          /\ UNCHANGED <<st, rolling, lvl, exit>>
      BY <1>2, <2>3 DEF StartLevel
    <3>2. Running' = {}
      BY <2>0, <3>1 DEF Running
    <3>3. EarlierLevelsDurable' /\ ConsumedSettled' /\ JournalAtRest'
      BY <2>0, <3>1 DEF DriveInv, EarlierLevelsDurable, ConsumedSettled, JournalAtRest
    <3>4. BarrierHolds'
      BY <3>1, <3>2 DEF BarrierHolds, AtLevel
    <3> QED
      BY <2>0, <3>1, <3>2, <3>3, <3>4
         DEF DriveInv, IdleIsEmpty, ForwardUnmarked, ForwardPCs, ParkedWait, ExitHonest,
             Synced, ReverseOrder, SuspendedIffWaiting, RunsOnDurableDeps
  <2> QED
    BY <2>1, <2>2, <2>3
<1>3. ASSUME NEW n \in Nodes, PassNode(n) PROVE DriveInv'
  <2>1. pc = "launch" /\ n \in todo /\ todo' = todo \ {n}
        /\ UNCHANGED <<journal, pc, rolling, lvl, parked, consumed, exit, ret>>
    BY <1>3 DEF PassNode, Here, store
  <2>2. Level[n] = lvl /\ n \notin parked /\ n \notin Running
    BY <2>1 DEF DriveInv, BarrierHolds, AtLevel
  <2>3. \A m \in Nodes : m # n => st'[m] = st[m]
    BY <1>3, <1>a DEF PassNode
  <2>4. st'[n] \in {"skipped", "bypassed", st[n]}
        /\ (st[n] \in TerminalStatus => st'[n] = st[n])
    BY <1>3, <1>a, ClassifyType DEF PassNode
  <2>5. \A m \in Nodes : st'[m] # st[m] => Level[m] >= lvl
    BY <2>2, <2>3 DEF TypeOK
  <2>6. \A m \in Running' : m \in Running
    BY <2>2, <2>3, <2>4 DEF Running
  <2>7. \A m \in parked' : st'[m] = "waiting"
    BY <2>1, <2>2, <2>3 DEF DriveInv, ParkedWait, TypeOK
  <2>8. ConsumedSettled'
    <3>1. \A m \in WaitNodes : st[m] \in TerminalStatus => st'[m] \in TerminalStatus
      BY <2>3, <2>4, KindAssumption
    <3> QED
      BY <2>1, <3>1 DEF DriveInv, ConsumedSettled
  <2> QED
    BY <1>a, <2>1, <2>5, <2>6, <2>7, <2>8, LevelStepKeeps DEF DriveInv
<1>4. ASSUME NEW n \in Nodes, LaunchNode(n) PROVE DriveInv'
  <2>1. pc = "launch" /\ n \in todo /\ todo' = todo \ {n} /\ AllResolved(st, n)
        /\ st[n] \notin TerminalStatus
        /\ UNCHANGED <<journal, pc, rolling, lvl, parked, consumed, exit, ret>>
    BY <1>4 DEF LaunchNode, Here, Runnable, store
  <2>2. Level[n] = lvl /\ n \notin parked
    BY <2>1 DEF DriveInv, BarrierHolds, AtLevel
  <2>3. \A m \in Nodes : m # n => st'[m] = st[m]
    BY <1>4, <1>a DEF LaunchNode
  <2>5. \A m \in Nodes : st'[m] # st[m] => Level[m] >= lvl
    BY <2>2, <2>3 DEF TypeOK
  <2>6. \A m \in Running' : m \in Running \/ (m \in todo \ todo' /\ AllResolved(st, m))
    BY <2>1, <2>3 DEF Running
  <2>7. \A m \in parked' : st'[m] = "waiting"
    BY <2>1, <2>2, <2>3 DEF DriveInv, ParkedWait, TypeOK
  <2>8. ConsumedSettled'
    <3>1. \A m \in WaitNodes : st[m] \in TerminalStatus => st'[m] \in TerminalStatus
      BY <2>1, <2>3, KindAssumption
    <3> QED
      BY <2>1, <3>1 DEF DriveInv, ConsumedSettled
  <2> QED
    BY <1>a, <2>1, <2>5, <2>6, <2>7, <2>8, LevelStepKeeps DEF DriveInv
<1>5. CASE StopLaunching
  <2>1. pc = "launch" /\ todo' = {}
        /\ UNCHANGED <<journal, pc, st, rolling, lvl, parked, consumed, exit, ret>>
    BY <1>5 DEF StopLaunching, Here, store
  <2>2. Running' = Running
    BY <2>1 DEF Running
  <2>3. ConsumedSettled' /\ \A m \in parked' : st'[m] = "waiting"
    BY <2>1 DEF DriveInv, ConsumedSettled, ParkedWait
  <2> QED
    BY <1>a, <2>1, <2>2, <2>3, LevelStepKeeps DEF DriveInv
<1>6. ASSUME NEW n \in Nodes, CompleteNode(n) PROVE DriveInv'
  <2>1. pc = "launch" /\ n \in Running /\ st[n] = "running"
        /\ UNCHANGED <<journal, pc, rolling, lvl, todo, parked, exit, ret>>
    BY <1>6 DEF CompleteNode, store, level, Running
  <2>2. Level[n] = lvl /\ n \notin parked
    BY <2>1 DEF DriveInv, BarrierHolds, AtLevel, ParkedWait
  <2>3. PICK untaken \in SUBSET Nodes :
          /\ \A m \in untaken : n \in Deps[m]
          /\ st' = [m \in Nodes |-> IF m = n THEN "completed"
                                    ELSE IF m \in untaken THEN "bypassed" ELSE st[m]]
    BY <1>6, KindAssumption DEF CompleteNode
  <2>4. \A m \in untaken : m \in Nodes /\ Level[m] > lvl
    BY <2>2, <2>3, GraphAssumption
  <2>5. \A m \in Nodes : st'[m] # st[m] => Level[m] >= lvl
    BY <2>2, <2>3, <2>4, GraphAssumption DEF TypeOK
  <2>6. \A m \in Running' : m \in Running
    BY <2>3 DEF Running
  <2>7. \A m \in parked' : st'[m] = "waiting"
    <3>1. \A m \in parked : m \in Nodes /\ Level[m] = lvl /\ m # n /\ st[m] = "waiting"
      BY <2>1, <2>2 DEF DriveInv, BarrierHolds, AtLevel, ParkedWait
    <3>2. \A m \in parked : m \notin untaken
      BY <2>4, <3>1 DEF TypeOK
    <3> QED
      BY <2>1, <2>3, <3>1, <3>2
  <2>8. ConsumedSettled'
    <3>1. \A m \in WaitNodes : st[m] \in TerminalStatus => st'[m] \in TerminalStatus
      BY <2>3, KindAssumption DEF TerminalStatus, Statuses
    <3>2. st'[n] \in TerminalStatus
      BY <2>3 DEF TerminalStatus, Statuses
    <3>3. CASE n \in WaitNodes
      <4>1. consumed' = consumed \cup {Awaited[n]}
        BY <1>6, <3>3 DEF CompleteNode
      <4> QED
        BY <3>1, <3>2, <3>3, <4>1 DEF DriveInv, ConsumedSettled
    <3>4. CASE n \notin WaitNodes
      BY <1>6, <3>1, <3>4 DEF CompleteNode, DriveInv, ConsumedSettled
    <3> QED
      BY <3>3, <3>4
  <2> QED
    BY <1>a, <2>1, <2>5, <2>6, <2>7, <2>8, LevelStepKeeps DEF DriveInv
<1>7. ASSUME NEW n \in Nodes, FailNode(n) \/ ParkNode(n) PROVE DriveInv'
  <2>1. pc = "launch" /\ n \in Running /\ st[n] = "running"
        /\ UNCHANGED <<journal, pc, rolling, lvl, todo, consumed, exit, ret>>
    BY <1>7 DEF FailNode, ParkNode, store, Running
  <2>2. Level[n] = lvl /\ n \notin parked
    BY <2>1 DEF DriveInv, BarrierHolds, AtLevel, ParkedWait
  <2>3. \A m \in Nodes : m # n => st'[m] = st[m]
    BY <1>7, <1>a DEF FailNode, ParkNode
  <2>4. \/ st'[n] = "failed" /\ parked' = parked
        \/ st'[n] = "waiting" /\ parked' = parked \cup {n}
    BY <1>7, <1>a DEF FailNode, ParkNode
  <2>5. \A m \in Nodes : st'[m] # st[m] => Level[m] >= lvl
    BY <2>2, <2>3 DEF TypeOK
  <2>6. \A m \in Running' : m \in Running
    BY <2>3, <2>4 DEF Running
  <2>7. parked' \subseteq parked \cup Running /\ \A m \in parked' : st'[m] = "waiting"
    BY <2>1, <2>2, <2>3, <2>4 DEF DriveInv, ParkedWait, TypeOK
  <2>8. ConsumedSettled'
    <3>1. \A m \in WaitNodes : st[m] \in TerminalStatus => st'[m] \in TerminalStatus
      BY <2>1, <2>3, KindAssumption DEF TerminalStatus
    <3> QED
      BY <2>1, <3>1 DEF DriveInv, ConsumedSettled
  <2> QED
    BY <1>a, <2>1, <2>5, <2>6, <2>7, <2>8, LevelStepKeeps DEF DriveInv
<1>8. CASE HaltLevel
  <2>0. Running = {} /\ pc = "launch" /\ UNCHANGED <<journal, consumed>> /\ rolling = "no"
        /\ journal.rolling = "no"
    BY <1>8 DEF HaltLevel, Drained, store, DriveInv, ForwardUnmarked, ForwardPCs
  <2>1. CASE ctxDone
    <3>1. LeaveWith("ctx", st)
      BY <1>8, <2>1 DEF HaltLevel
    <3> QED
      BY <2>0, <3>1, LeaveKeeps DEF DriveInv
  <2>2. CASE ~ctxDone
    <3>1. pc' = "sweep" /\ UNCHANGED <<st, rolling, exit>>
      BY <1>8, <2>2 DEF HaltLevel
    <3>2. Running' = {} /\ ConsumedSettled' /\ JournalAtRest'
      BY <2>0, <3>1 DEF Running, DriveInv, ConsumedSettled, JournalAtRest
    <3> QED
      BY <2>0, <3>1, <3>2
         DEF DriveInv, IdleIsEmpty, BarrierHolds, EarlierLevelsDurable, ForwardUnmarked,
             ForwardPCs, ParkedWait, ExitHonest, Synced, ReverseOrder, SuspendedIffWaiting,
             RunsOnDurableDeps
  <2> QED
    BY <2>1, <2>2
<1>9. CASE SweepSkipped
  <2>0. Running = {} /\ pc = "sweep" /\ UNCHANGED <<journal, consumed>> /\ rolling = "no"
        /\ journal.rolling = "no"
    BY <1>9 DEF SweepSkipped, store, DriveInv, BarrierHolds, ForwardUnmarked, ForwardPCs
  <2>1. CASE lvl > LastLevel
    <3>1. LeaveWith("node", st)
      BY <1>9, <2>1 DEF SweepSkipped
    <3> QED
      BY <2>0, <3>1, LeaveKeeps DEF DriveInv
  <2>2. CASE ~(lvl > LastLevel)
    <3>1. pc' = pc /\ st' = SweepLevel(st, lvl) /\ UNCHANGED <<rolling, exit>>
      BY <1>9, <2>2 DEF SweepSkipped
    <3>2. ASSUME NEW n \in Nodes
          PROVE  /\ st'[n] \in {"skipped", "bypassed", st[n]}
                 /\ st[n] \in TerminalStatus => st'[n] = st[n]
      BY <1>a, <3>1, ClassifyType DEF SweepLevel
    <3>3. Running' = {}
      BY <2>0, <3>2 DEF Running
    <3>4. ConsumedSettled' /\ JournalAtRest'
      BY <2>0, <3>2, KindAssumption DEF DriveInv, ConsumedSettled, JournalAtRest
    <3> QED
      BY <2>0, <3>1, <3>3, <3>4
         DEF DriveInv, IdleIsEmpty, BarrierHolds, EarlierLevelsDurable, ForwardUnmarked,
             ForwardPCs, ParkedWait, ExitHonest, Synced, ReverseOrder, SuspendedIffWaiting,
             RunsOnDurableDeps
  <2> QED
    BY <2>1, <2>2
<1>10. CASE Checkpoint
  <2>1. /\ Running = {} /\ pc = "launch" /\ rolling = "no" /\ journal'.st = st
        /\ journal'.rolling = "no" /\ UNCHANGED <<st, rolling, parked, consumed, exit>>
        /\ \/ pc' = "sync" /\ parked # {}
           \/ pc' = "level"
    BY <1>10 DEF Checkpoint, Drained, DriveInv, ForwardUnmarked, ForwardPCs
  <2>2. Running' = {} /\ ConsumedSettled' /\ JournalAtRest'
    BY <2>1 DEF Running, DriveInv, ConsumedSettled, JournalAtRest
  <2>3. ParkedWait'
    BY <2>1 DEF DriveInv, ParkedWait
  <2> QED
    BY <2>1, <2>2, <2>3
       DEF DriveInv, IdleIsEmpty, BarrierHolds, EarlierLevelsDurable, ForwardUnmarked,
           ForwardPCs, ExitHonest, Synced, ReverseOrder, SuspendedIffWaiting, RunsOnDurableDeps
<1>11. CASE Suspend
  <2>1. pc = "sync" /\ pc' = "ack" /\ exit' = "suspended" /\ Running = {}
        /\ UNCHANGED <<journal, st, rolling, parked, consumed>>
    BY <1>11 DEF Suspend, store, level, DriveInv, BarrierHolds
  <2>2. \E n \in Nodes : st[n] = "waiting"
    BY <2>1 DEF DriveInv, ParkedWait, TypeOK
  <2>3. Running' = {} /\ ConsumedSettled' /\ JournalAtRest'
    BY <2>1 DEF Running, DriveInv, ConsumedSettled, JournalAtRest
  <2> QED
    BY <2>1, <2>2, <2>3
       DEF DriveInv, IdleIsEmpty, BarrierHolds, EarlierLevelsDurable, ForwardUnmarked,
           ForwardPCs, ParkedWait, ExitHonest, Synced, ReverseOrder, SuspendedIffWaiting,
           RunsOnDurableDeps
<1>12. CASE SaveFailedState \/ FinishRollback
  <2>1. NoDrive /\ journal'.st = st /\ pc # "launch"
        /\ (\A n \in Nodes : st[n] # "waiting") /\ Running = {}
    BY <1>12 DEF SaveFailedState, FinishRollback, Return, DriveInv, BarrierHolds, ExitHonest
  <2>2. ret'.how # "suspended"
    BY <1>12 DEF SaveFailedState, FinishRollback, Return, DriveInv, ExitHonest
  <2>3. JournalAtRest' /\ SuspendedIffWaiting'
    BY <2>1, <2>2 DEF JournalAtRest, SuspendedIffWaiting, Running
  <2> QED
    BY <2>1, <2>3, NoDriveKeeps DEF DriveInv
<1>13. CASE AckConsumed \/ AckFails
  <2>1. NoDrive /\ journal' = journal /\ ret'.how = exit /\ journal.st = st
        /\ (exit = "suspended" <=> \E n \in Nodes : st[n] = "waiting")
    BY <1>13 DEF AckConsumed, AckFails, Return, store, DriveInv, ExitHonest, Synced
  <2>2. JournalAtRest' /\ SuspendedIffWaiting'
    BY <2>1 DEF DriveInv, JournalAtRest, SuspendedIffWaiting
  <2> QED
    BY <2>1, <2>2, NoDriveKeeps DEF DriveInv
<1>14. CASE Crash \/ SaveFails
  <2>1. NoDrive /\ journal' = journal /\ ~ret'.saved
    BY <1>14 DEF Crash, SaveFails, Return, store
  <2>2. JournalAtRest' /\ SuspendedIffWaiting'
    BY <2>1 DEF DriveInv, JournalAtRest, SuspendedIffWaiting
  <2> QED
    BY <2>1, <2>2, NoDriveKeeps DEF DriveInv
<1>15. CASE FinalSave
  <2>1. pc = "final" /\ pc' = "ack" /\ journal'.st = st /\ journal'.rolling = "no"
        /\ UNCHANGED <<st, rolling, consumed, exit>> /\ Running = {} /\ exit = "nil"
        /\ \A n \in Nodes : st[n] # "waiting"
    BY <1>15 DEF FinalSave, DriveInv, BarrierHolds, ForwardUnmarked, ForwardPCs, ExitHonest
  <2>2. Running' = {} /\ ConsumedSettled' /\ JournalAtRest'
    BY <2>1 DEF Running, DriveInv, ConsumedSettled, JournalAtRest
  <2> QED
    BY <2>1, <2>2
       DEF DriveInv, IdleIsEmpty, BarrierHolds, EarlierLevelsDurable, ForwardUnmarked,
           ForwardPCs, ParkedWait, ExitHonest, Synced, ReverseOrder, SuspendedIffWaiting,
           RunsOnDurableDeps
<1>16. CASE SaveRollbackMarker
  <2>1. pc = "mark" /\ StartRollback(st) /\ UNCHANGED <<st, consumed>> /\ journal'.st = st
        /\ \A n \in Nodes : st[n] \notin {"running", "waiting"}
    BY <1>16 DEF SaveRollbackMarker, DriveInv, BarrierHolds, ExitHonest, Running
  <2>2. ConsumedSettled' /\ JournalAtRest'
    BY <2>1 DEF DriveInv, ConsumedSettled, JournalAtRest
  <2> QED
    BY <1>a, <2>1, <2>2, RollbackKeeps DEF DriveInv
<1>17. ASSUME NEW n \in Nodes, CompensateNode(n) PROVE DriveInv'
  <2>1. pc = "comp" /\ pc' = "comp" /\ n \in todo /\ todo' = todo \ {n}
        /\ UNCHANGED <<journal, lvl, consumed, exit, ret>>
    BY <1>17 DEF CompensateNode, store
  <2>2. st'[n] \in {"compensated", "compensation_failed"}
        /\ \A m \in Nodes : m # n => st'[m] = st[m]
    BY <1>17, <1>a DEF CompensateNode
  <2>3. \A m \in Nodes : st[m] \notin {"running", "waiting"}
    BY <2>1 DEF DriveInv, BarrierHolds, ExitHonest, Running
  <2>4. Running' = {} /\ \A m \in Nodes : st'[m] # "waiting"
    BY <2>2, <2>3 DEF Running
  <2>5. ConsumedSettled'
    <3>1. \A m \in WaitNodes : st[m] \in TerminalStatus => st'[m] \in TerminalStatus
      BY <2>2, KindAssumption DEF TerminalStatus, Statuses
    <3> QED
      BY <2>1, <3>1 DEF DriveInv, ConsumedSettled
  <2>6. ReverseOrder'
    <3>1. todo = Pending(st) \cap AtLevel(lvl)
          /\ \A m \in Compensable : Level[m] > lvl => st[m] # "completed"
      BY <2>1 DEF DriveInv, ReverseOrder
    <3>2. Pending(st)' = Pending(st) \ {n}
      BY <2>2, KindAssumption DEF Pending
    <3>3. todo' = Pending(st)' \cap AtLevel(lvl)'
      BY <2>1, <3>1, <3>2 DEF AtLevel
    <3>4. \A m \in Compensable : Level[m] > lvl => st'[m] # "completed"
      BY <2>2, <3>1, KindAssumption
    <3> QED
      BY <2>1, <3>3, <3>4 DEF ReverseOrder
  <2> QED
    BY <2>1, <2>4, <2>5, <2>6
       DEF DriveInv, IdleIsEmpty, BarrierHolds, EarlierLevelsDurable, ForwardUnmarked,
           ForwardPCs, ParkedWait, ExitHonest, Synced, SuspendedIffWaiting, RunsOnDurableDeps,
           JournalAtRest
<1>18. CASE SaveCompLevel \/ CompSaveFails
  <2>1. pc = "comp" /\ todo = {} /\ NextCompLevel /\ UNCHANGED <<st, consumed, exit, ret>>
        /\ journal'.st \in {st, journal.st} /\ (journal'.st = st \/ journal' = journal)
    BY <1>18 DEF SaveCompLevel, CompSaveFails, store
  <2>2. \A m \in Nodes : st[m] \notin {"running", "waiting"}
    BY <2>1 DEF DriveInv, BarrierHolds, ExitHonest, Running
  <2>3. pc' \in {"comp", "finish"} /\ Running' = {} /\ \A m \in Nodes : st'[m] # "waiting"
    BY <2>1, <2>2 DEF NextCompLevel, Running
  <2>4. JournalAtRest' /\ ConsumedSettled'
    BY <2>1, <2>2 DEF DriveInv, JournalAtRest, ConsumedSettled
  <2>5. ReverseOrder'
    <3>1. \A m \in Compensable : Level[m] >= lvl => st[m] # "completed"
      BY <2>1, GraphAssumption, KindAssumption
         DEF DriveInv, ReverseOrder, Pending, AtLevel, TypeOK
    <3>2. CASE lvl = 0
      BY <2>1, <3>2 DEF NextCompLevel, ReverseOrder
    <3>3. CASE lvl # 0
      <4>1. lvl' = lvl - 1 /\ todo' = Pending(st) \cap AtLevel(lvl - 1)
        BY <2>1, <3>3 DEF NextCompLevel
      <4>2. \A m \in Compensable : Level[m] > lvl - 1 => st[m] # "completed"
        BY <3>1, GraphAssumption, KindAssumption DEF TypeOK
      <4> QED
        BY <2>1, <4>1, <4>2 DEF ReverseOrder, Pending, AtLevel
    <3> QED
      BY <3>2, <3>3
  <2> QED
    BY <2>1, <2>3, <2>4, <2>5
       DEF DriveInv, IdleIsEmpty, BarrierHolds, EarlierLevelsDurable, ForwardUnmarked,
           ForwardPCs, ParkedWait, ExitHonest, Synced, SuspendedIffWaiting, RunsOnDurableDeps
<1>19. CASE (\E s \in Signals : DeliverSignal(s)) \/ CancelContext \/ UNCHANGED vars
  <2>1. UNCHANGED <<journal, pc, st, rolling, lvl, todo, parked, consumed, exit, ret>>
    BY <1>19 DEF DeliverSignal, CancelContext, vars, store, drive, level
  <2>2. Running' = Running
    BY <2>1 DEF Running
  <2> QED
    BY <2>1, <2>2
       DEF DriveInv, IdleIsEmpty, BarrierHolds, EarlierLevelsDurable, ForwardUnmarked,
           ForwardPCs, ParkedWait, ExitHonest, Synced, SuspendedIffWaiting, RunsOnDurableDeps,
           JournalAtRest, ConsumedSettled, ReverseOrder, Pending, Resolved, Taken
<1>20. CASE CheckpointFails
  <2>1. Running = {} /\ LeaveWith("infra", st) /\ UNCHANGED <<journal, consumed>>
    BY <1>20 DEF CheckpointFails, Drained, store, DriveInv, BarrierHolds
  <2> QED
    BY <2>1, LeaveKeeps DEF DriveInv
<1> QED
  BY <1>1, <1>2, <1>3, <1>4, <1>5, <1>6, <1>7, <1>8, <1>9, <1>10, <1>11, <1>12, <1>13,
     <1>14, <1>15, <1>16, <1>17, <1>18, <1>19, <1>20 DEF Next, DriveStep

LEMMA DriveAlways == Spec => []DriveInv
  BY DriveInit, DriveNext, PTL DEF Spec

---------------------------------------------------------------------------
(* A node runs only on dependencies whose outcome is durable (the level      *)
(* barrier checkpoint of DAG.Execute), for every graph, crash and fault.     *)
THEOREM DurableDepsHold == Spec => []RunsOnDurableDeps
<1>1. DriveInv => RunsOnDurableDeps
  BY DEF DriveInv
<1> QED
  BY <1>1, DriveAlways, PTL

(* A drive whose last write went through returned ErrSuspended exactly if it *)
(* left a Waiting node behind (park chokepoint and deferred clearWaiting).   *)
THEOREM SuspensionHolds == Spec => []SuspendedIffWaiting
<1>1. DriveInv => SuspendedIffWaiting
  BY DEF DriveInv
<1> QED
  BY <1>1, DriveAlways, PTL

(* Once executeLocked has saved the rollback marker no forward action runs   *)
(* again, in this drive or in a resume.                                      *)
THEOREM RollbackIsOneWay == Spec => []NoForwardOnceRollingBack
<1>1. DriveInv => NoForwardOnceRollingBack
  BY DEF DriveInv, NoForwardOnceRollingBack, BarrierHolds, ForwardUnmarked, ForwardPCs
<1> QED
  BY <1>1, DriveAlways, PTL

(* A node is compensated only after the compensable nodes that depend on it  *)
(* (driveRollback's descending levels), across crashes and failed saves.     *)
THEOREM ReverseHolds == Spec => CompensatesInReverse
<1> DEFINE Comp == {"compensated", "compensation_failed"}
<1>1. ASSUME DriveInv, DriveInv', [Next]_vars, NEW n \in Nodes,
             st[n] = "completed", st'[n] \in Comp,
             NEW m \in Compensable, n \in Deps[m]
      PROVE  st[m] # "completed"
  <2>0. st \in [Nodes -> Statuses] /\ st' \in [Nodes -> Statuses]
    BY <1>1 DEF DriveInv, TypeInv, TypeOK
  <2>1. pc # "idle"
    BY <1>1 DEF DriveInv, IdleIsEmpty, AllPending
  <2>2. \E k \in Nodes : CompensateNode(k)
    <3>1. ~UNCHANGED st
      BY <1>1
    <3>2. ~NoDrive
      BY <1>1 DEF NoDrive, AllPending
    <3>3. ASSUME st' = ClearWaiting(st) PROVE FALSE
      BY <1>1, <2>0, <3>3 DEF ClearWaiting
    <3>4. ASSUME NEW k \in Nodes, PassNode(k) PROVE FALSE
      BY <1>1, <2>0, <3>4, ClassifyType DEF PassNode, TerminalStatus, Statuses
    <3>5. ASSUME NEW k \in Nodes, LaunchNode(k) \/ CompleteNode(k) \/ FailNode(k) \/ ParkNode(k)
          PROVE FALSE
      BY <1>1, <2>0, <3>5 DEF LaunchNode, CompleteNode, FailNode, ParkNode
    <3>6. ASSUME st' = SweepLevel(st, lvl) PROVE FALSE
      BY <1>1, <2>0, <3>6 DEF SweepLevel, TerminalStatus, Statuses
    <3>7. ~Execute
      BY <2>1 DEF Execute
    <3>8. ~StartLevel /\ ~HaltLevel /\ ~CheckpointFails
      BY <3>1, <3>3 DEF StartLevel, HaltLevel, CheckpointFails, LeaveWith
    <3>9. ~SweepSkipped
      BY <3>1, <3>3, <3>6 DEF SweepSkipped, LeaveWith
    <3>10. ~StopLaunching /\ ~Checkpoint /\ ~Suspend /\ ~FinalSave /\ ~SaveRollbackMarker
           /\ ~SaveCompLevel /\ ~CompSaveFails /\ ~CancelContext /\ ~UNCHANGED vars
           /\ \A s \in Signals : ~DeliverSignal(s)
      BY <3>1 DEF StopLaunching, Checkpoint, Suspend, FinalSave, SaveRollbackMarker,
                  SaveCompLevel, CompSaveFails, CancelContext, DeliverSignal, vars, drive
    <3>11. ~SaveFailedState /\ ~AckConsumed /\ ~FinishRollback /\ ~Crash /\ ~SaveFails /\ ~AckFails
      BY <3>2 DEF SaveFailedState, AckConsumed, FinishRollback, Crash, SaveFails, AckFails, Return
    <3> QED
      BY <1>1, <3>4, <3>5, <3>7, <3>8, <3>9, <3>10, <3>11 DEF Next, DriveStep
  <2>3. PICK k \in Nodes : CompensateNode(k)
    BY <2>2
  <2>4. k = n
    BY <1>1, <2>0, <2>3 DEF CompensateNode
  <2>5. pc = "comp" /\ Level[n] = lvl
    BY <1>1, <2>3, <2>4 DEF CompensateNode, DriveInv, ReverseOrder, AtLevel
  <2>6. Level[m] > lvl
    BY <1>1, <2>5, GraphAssumption, KindAssumption
  <2> QED
    BY <1>1, <2>5, <2>6 DEF DriveInv, ReverseOrder
<1>2. DriveInv /\ DriveInv' /\ [Next]_vars =>
        [\A n \in Nodes : st[n] = "completed" /\ st'[n] \in {"compensated", "compensation_failed"}
            => \A m \in Compensable : n \in Deps[m] => st[m] # "completed"]_vars
  BY <1>1
<1> QED
  BY <1>2, DriveAlways, PTL DEF Spec, CompensatesInReverse

(* A signal leaves the mailbox (AckSignals in executeLocked) only once a     *)
(* node that took it is settled in the journal.                              *)
THEOREM AcksHold == Spec => AckedOnlyWhenApplied
<1>1. ASSUME DriveInv, [Next]_vars, NEW s \in mailbox, s \notin mailbox'
      PROVE  \E n \in WaitNodes : Awaited[n] = s /\ journal.st[n] \in TerminalStatus
  <2>1. AckConsumed
    BY <1>1 DEF Next, DriveStep, Execute, StartLevel, StopLaunching, HaltLevel, SweepSkipped,
                Checkpoint, Suspend, SaveFailedState, FinalSave, SaveRollbackMarker, SaveCompLevel,
                FinishRollback, PassNode, LaunchNode, CompleteNode, FailNode, ParkNode,
                CompensateNode, DeliverSignal, CancelContext, Crash, CheckpointFails, SaveFails,
                CompSaveFails, AckFails, vars, store
  <2>2. s \in consumed /\ pc = "ack" /\ journal.st = st
    BY <1>1, <2>1 DEF AckConsumed, DriveInv, Synced
  <2> QED
    BY <1>1, <2>2 DEF DriveInv, ConsumedSettled
<1>2. DriveInv /\ [Next]_vars =>
        [\A s \in mailbox \ mailbox' :
            \E n \in WaitNodes : Awaited[n] = s /\ journal.st[n] \in TerminalStatus]_vars
  BY <1>1
<1> QED
  BY <1>2, DriveAlways, PTL DEF Spec, AckedOnlyWhenApplied


---------------------------------------------------------------------------
(* A run that returns nil is settled: the levels below the one at hand are,  *)
(* and no compensation's outcome is met going forward.                       *)

Undone == {"compensated", "compensation_failed"}

Uncompensated ==
    /\ rolling = "no" => \A n \in Nodes : st[n] \notin Undone
    /\ journal.rolling = "no" => \A n \in Nodes : journal.st[n] \notin Undone
    /\ pc \in {"mark", "comp", "finish"} => rolling # "no"

LevelsSettled ==
    /\ pc \in {"level", "launch"} => \A n \in Nodes : Level[n] < lvl => st[n] \in TerminalStatus
    /\ pc = "launch" /\ ~LevelCancelled =>
          \A n \in AtLevel(lvl) \ todo : st[n] \in TerminalStatus \cup {"running"} \/ n \in parked
    /\ pc = "final" \/ (pc = "ack" /\ exit = "nil") => \A n \in Nodes : st[n] \in TerminalStatus

SettledInv == Uncompensated /\ LevelsSettled /\ NilMeansSettled

(* Once every dependency is settled, a node that cannot run can be classified. *)
LEMMA ClassifySettles ==
  ASSUME NEW s \in [Nodes -> Statuses], NEW n \in Nodes, ~AllResolved(s, n),
         \A d \in Deps[n] : s[d] \in TerminalStatus \ Undone
  PROVE  Classify(s, n) \in {"skipped", "bypassed"}
<1> DEFINE open    == {d \in Deps[n] : ~Resolved(s, n, d)}
           failing == {d \in open : s[d] \in {"failed", "skipped"}}
           passed  == {d \in open : s[d] = "bypassed"}
<1>1. open # {}
  BY DEF AllResolved
<1>2. \A d \in open : s[d] \in {"failed", "skipped", "bypassed"}
  BY DEF Resolved, Taken, TerminalStatus, Statuses, Undone
<1>3. failing = {} => passed = open
  BY <1>2
<1> QED
  BY <1>1, <1>3 DEF Classify

(* Leaving DAG.Execute with an error. *)
LEMMA LeaveSettles ==
  ASSUME DriveInv, SettledInv, NEW e \in {"node", "ctx", "infra"}, LeaveWith(e, st),
         pc \in ForwardPCs, UNCHANGED <<journal, ret>>
  PROVE  SettledInv'
<1>1. pc' \in {"mark", "save"} /\ st' = ClearWaiting(st) /\ st \in [Nodes -> Statuses]
      /\ (pc' = "mark" => rolling' # "no")
  BY DEF LeaveWith, DriveInv, TypeInv, TypeOK
<1>2. rolling = "no"
  BY DEF DriveInv, ForwardUnmarked
<1>3. \A n \in Nodes : st'[n] \notin Undone
  BY <1>1, <1>2 DEF SettledInv, Uncompensated, ClearWaiting, Undone
<1>4. Uncompensated'
  BY <1>1, <1>3 DEF SettledInv, Uncompensated
<1> QED
  BY <1>1, <1>4 DEF SettledInv, LevelsSettled, NilMeansSettled

(* The launch loop and the goroutines of a level. *)
LEMMA LevelStepSettles ==
  ASSUME DriveInv, SettledInv, pc = "launch", UNCHANGED <<journal, pc, rolling, lvl, exit, ret>>,
         st' \in [Nodes -> Statuses],
         \A n \in Nodes : st[n] \in TerminalStatus => st'[n] \in TerminalStatus,
         \A n \in Nodes : st'[n] \in Undone => st[n] \in Undone,
         ~LevelCancelled' =>
            \A n \in AtLevel(lvl) \ todo' :
               st'[n] \in TerminalStatus \cup {"running"} \/ n \in parked'
  PROVE  SettledInv'
<1>1. Uncompensated'
  BY DEF SettledInv, Uncompensated
<1>2. LevelsSettled'
  BY DEF SettledInv, LevelsSettled, AtLevel
<1> QED
  BY <1>1, <1>2 DEF SettledInv, NilMeansSettled

LEMMA SettledNext == DriveInv /\ SettledInv /\ [Next]_vars => SettledInv'
<1> SUFFICES ASSUME DriveInv, SettledInv, [Next]_vars PROVE SettledInv'
  OBVIOUS
<1>0. /\ st \in [Nodes -> Statuses] /\ journal.st \in [Nodes -> Statuses] /\ LevelInv
      /\ lvl \in -1..LastLevel + 1 /\ Uncompensated /\ LevelsSettled /\ NilMeansSettled
      /\ ForwardUnmarked /\ BarrierHolds /\ todo \subseteq Nodes /\ parked \subseteq Nodes
      /\ Undone \subseteq TerminalStatus
  BY DEF DriveInv, TypeInv, TypeOK, SettledInv, Undone, TerminalStatus, Statuses
<1>w. [st |-> st, rolling |-> rolling].st = st /\ [st |-> st, rolling |-> rolling].rolling = rolling
  OBVIOUS
<1>1. CASE Execute
  <2>1. CASE journal.rolling # "no"
    BY <1>0, <1>1, <2>1 DEF Execute, StartRollback, store, SettledInv, Uncompensated, LevelsSettled,
                           NilMeansSettled
  <2>2. CASE journal.rolling = "no"
    <3>1. /\ st' = Loaded(journal.st) /\ lvl' = 0 /\ pc' = "level" /\ UNCHANGED <<journal, ret>>
          /\ rolling' = "no"
      BY <1>1, <2>2 DEF Execute, store
    <3>2. \A n \in Nodes : st'[n] \notin Undone
      BY <1>0, <2>2, <3>1 DEF Loaded, Uncompensated, Undone
    <3>3. \A n \in Nodes : ~(Level[n] < 0)
      BY GraphAssumption
    <3> QED
      BY <1>0, <3>1, <3>2, <3>3 DEF SettledInv, Uncompensated, LevelsSettled, NilMeansSettled
  <2> QED
    BY <2>1, <2>2
<1>2. CASE StartLevel
  <2>1. CASE lvl > LastLevel
    <3>1. /\ pc' = "final" /\ st' = ClearWaiting(st) /\ UNCHANGED <<journal, rolling, ret>>
      BY <1>2, <2>1 DEF StartLevel, store
    <3>2. \A n \in Nodes : Level[n] < lvl
      BY <1>0, <2>1, GraphAssumption
    <3>3. \A n \in Nodes : st[n] \in TerminalStatus
      BY <1>0, <1>2, <3>2 DEF LevelsSettled, StartLevel
    <3>4. \A n \in Nodes : st'[n] = st[n]
      BY <3>1, <3>3 DEF ClearWaiting, TerminalStatus
    <3> QED
      BY <1>0, <3>1, <3>3, <3>4 DEF SettledInv, Uncompensated, LevelsSettled, NilMeansSettled
  <2>2. CASE ~(lvl > LastLevel) /\ ctxDone
    BY <1>2, <2>2, LeaveSettles DEF StartLevel, store, ForwardPCs
  <2>3. CASE ~(lvl > LastLevel) /\ ~ctxDone
    <3>1. /\ pc' = "launch" /\ todo' = AtLevel(lvl) /\ UNCHANGED <<journal, st, rolling, lvl, ret>>
          /\ pc = "level"
      BY <1>2, <2>3 DEF StartLevel, store
    <3> QED
      BY <1>0, <3>1 DEF SettledInv, Uncompensated, LevelsSettled, NilMeansSettled, AtLevel
  <2> QED
    BY <2>1, <2>2, <2>3
<1>3. ASSUME NEW n \in Nodes, PassNode(n) PROVE SettledInv'
  <2>0. /\ pc = "launch" /\ n \in todo /\ Level[n] = lvl /\ todo' = todo \ {n}
        /\ UNCHANGED <<journal, pc, rolling, lvl, exit, ret, failed, parked, ctxDone>>
    BY <1>0, <1>3 DEF PassNode, Here, store, BarrierHolds, AtLevel
  <2>1. \A d \in Deps[n] : st[d] \in TerminalStatus \ Undone
    <3>1. \A d \in Deps[n] : d \in Nodes /\ Level[d] < lvl
      BY <2>0, GraphAssumption
    <3>2. rolling = "no"
      BY <1>0, <2>0 DEF ForwardUnmarked, ForwardPCs
    <3> QED
      BY <1>0, <2>0, <3>1, <3>2 DEF LevelsSettled, Uncompensated
  <2>2. ~AllResolved(st, n) => Classify(st, n) \in {"skipped", "bypassed"}
    BY <1>0, <2>1, ClassifySettles
  <2>3. PICK v \in Statuses : /\ st' = [st EXCEPT ![n] = v] /\ v \in TerminalStatus
                              /\ v \in Undone => v = st[n]
    BY <1>0, <1>3, <2>2 DEF PassNode, TerminalStatus, Statuses, Undone
  <2>4. /\ st' \in [Nodes -> Statuses] /\ st'[n] \in TerminalStatus
        /\ \A m \in Nodes : m # n => st'[m] = st[m]
    <3>1. st \in [Nodes -> Statuses]
      BY <1>0
    <3>2. st' = [st EXCEPT ![n] = v] /\ v \in TerminalStatus
      BY <2>3
    <3> QED
      BY <3>1, <3>2
  <2>5. LevelCancelled' <=> LevelCancelled
    BY <2>0 DEF LevelCancelled
  <2>6. ~LevelCancelled => \A m \in AtLevel(lvl) \ todo' :
                             st'[m] \in TerminalStatus \cup {"running"} \/ m \in parked'
    BY <1>0, <2>0, <2>4 DEF LevelsSettled, AtLevel
  <2>7. \A m \in Nodes : st'[m] \in Undone => st[m] \in Undone
    <3>1. st'[n] = v
      BY <1>0, <2>3, Zenon
    <3> QED
      BY <2>3, <2>4, <3>1, Zenon
  <2> QED
    BY <2>0, <2>4, <2>5, <2>6, <2>7, LevelStepSettles
<1>4. ASSUME NEW n \in Nodes, LaunchNode(n) PROVE SettledInv'
  <2>0. /\ pc = "launch" /\ n \in todo /\ todo' = todo \ {n} /\ st[n] \notin TerminalStatus
        /\ st' = [st EXCEPT ![n] = "running"]
        /\ UNCHANGED <<journal, pc, rolling, lvl, exit, ret, failed, parked, ctxDone>>
    BY <1>4 DEF LaunchNode, Here, Runnable, store
  <2>1. st' \in [Nodes -> Statuses] /\ st'[n] = "running" /\ \A m \in Nodes : m # n => st'[m] = st[m]
    BY <1>0, <2>0 DEF Statuses
  <2>2. LevelCancelled' <=> LevelCancelled
    BY <2>0 DEF LevelCancelled
  <2>3. ~LevelCancelled => \A m \in AtLevel(lvl) \ todo' :
                             st'[m] \in TerminalStatus \cup {"running"} \/ m \in parked'
    BY <1>0, <2>0, <2>1 DEF LevelsSettled, AtLevel
  <2>4. \A m \in Nodes : /\ st[m] \in TerminalStatus => st'[m] \in TerminalStatus
                         /\ st'[m] \in Undone => st[m] \in Undone
    BY <2>0, <2>1 DEF Undone
  <2> QED
    BY <2>0, <2>1, <2>2, <2>3, <2>4, LevelStepSettles
<1>5. CASE StopLaunching
  <2>0. /\ pc = "launch" /\ UNCHANGED <<journal, pc, st, rolling, lvl, exit, ret, failed, ctxDone>>
        /\ LevelCancelled
    BY <1>5 DEF StopLaunching, Here, store
  <2>1. LevelCancelled'
    BY <2>0 DEF LevelCancelled
  <2> QED
    BY <1>0, <2>0, <2>1 DEF SettledInv, Uncompensated, LevelsSettled, NilMeansSettled
<1>6. ASSUME NEW n \in Nodes, CompleteNode(n) PROVE SettledInv'
  <2>0. /\ pc = "launch" /\ UNCHANGED <<journal, pc, rolling, lvl, todo, failed, parked, ctxDone, exit, ret>>
    BY <1>6 DEF CompleteNode, store, level
  <2>1. PICK untaken : st' = [m \in Nodes |-> IF m = n THEN "completed"
                                             ELSE IF m \in untaken THEN "bypassed" ELSE st[m]]
    BY <1>6 DEF CompleteNode
  <2>2. /\ st' \in [Nodes -> Statuses]
        /\ \A m \in Nodes : st'[m] \in {"completed", "bypassed"} \/ st'[m] = st[m]
    BY <1>0, <2>1 DEF Statuses
  <2>3. LevelCancelled' <=> LevelCancelled
    BY <2>0 DEF LevelCancelled
  <2>4. \A m \in Nodes : /\ st[m] \in TerminalStatus => st'[m] \in TerminalStatus
                         /\ st'[m] \in Undone => st[m] \in Undone
    BY <2>2 DEF Undone, TerminalStatus, Statuses
  <2>5. ~LevelCancelled => \A m \in AtLevel(lvl) \ todo' :
                             st'[m] \in TerminalStatus \cup {"running"} \/ m \in parked'
    BY <1>0, <2>0, <2>2 DEF LevelsSettled, AtLevel, TerminalStatus, Statuses
  <2> QED
    BY <2>0, <2>2, <2>3, <2>4, <2>5, LevelStepSettles
<1>7. ASSUME NEW n \in Nodes, FailNode(n) \/ ParkNode(n) PROVE SettledInv'
  <2>0. /\ pc = "launch" /\ st[n] = "running"
        /\ UNCHANGED <<journal, pc, rolling, lvl, todo, ctxDone, exit, ret>>
        /\ failed \subseteq failed' /\ parked \subseteq parked'
    BY <1>7 DEF FailNode, ParkNode, store, Running
  <2>1. PICK v \in {"failed", "waiting"} : /\ st' = [st EXCEPT ![n] = v]
                                           /\ v = "waiting" => n \in parked'
    BY <1>7 DEF FailNode, ParkNode
  <2>2. st' \in [Nodes -> Statuses] /\ st'[n] = v /\ \A m \in Nodes : m # n => st'[m] = st[m]
    <3>1. st \in [Nodes -> Statuses] /\ v \in Statuses
      BY <1>0, <2>1 DEF Statuses
    <3>2. st' = [st EXCEPT ![n] = v]
      BY <2>1
    <3> QED
      BY <3>1, <3>2
  <2>3. LevelCancelled => LevelCancelled'
    BY <2>0 DEF LevelCancelled
  <2>4. \A m \in Nodes : /\ st[m] \in TerminalStatus => st'[m] \in TerminalStatus
                         /\ st'[m] \in Undone => st[m] \in Undone
    BY <2>0, <2>2 DEF Undone, TerminalStatus, Statuses
  <2>5. ~LevelCancelled => \A m \in AtLevel(lvl) \ todo' :
                             st'[m] \in TerminalStatus \cup {"running"} \/ m \in parked'
    BY <1>0, <2>0, <2>1, <2>2 DEF LevelsSettled, AtLevel, TerminalStatus, Statuses
  <2> QED
    BY <2>0, <2>2, <2>3, <2>4, <2>5, LevelStepSettles
<1>8. CASE HaltLevel
  <2>1. CASE ctxDone
    BY <1>8, <2>1, LeaveSettles DEF HaltLevel, Drained, store, ForwardPCs
  <2>2. CASE ~ctxDone
    BY <1>0, <1>8, <2>2 DEF HaltLevel, store, SettledInv, Uncompensated, LevelsSettled, NilMeansSettled
  <2> QED
    BY <2>1, <2>2
<1>9. CASE SweepSkipped
  <2>1. CASE lvl > LastLevel
    BY <1>9, <2>1, LeaveSettles DEF SweepSkipped, store, ForwardPCs
  <2>2. CASE ~(lvl > LastLevel)
    <3>1. /\ pc = "sweep" /\ st' = SweepLevel(st, lvl) /\ UNCHANGED <<journal, pc, rolling, exit, ret>>
      BY <1>9, <2>2 DEF SweepSkipped, store
    <3>2. \A n \in Nodes : st'[n] \in {"skipped", "bypassed", st[n]}
      BY <1>0, <3>1, ClassifyType DEF SweepLevel
    <3>3. rolling = "no"
      BY <1>0, <3>1 DEF ForwardUnmarked, ForwardPCs
    <3> QED
      BY <1>0, <3>1, <3>2, <3>3
         DEF SettledInv, Uncompensated, LevelsSettled, NilMeansSettled, Undone
  <2> QED
    BY <2>1, <2>2
<1>10. CASE Checkpoint
  <2>0. /\ Drained /\ ~LevelCancelled /\ journal' = [st |-> st, rolling |-> rolling]
        /\ UNCHANGED <<st, rolling, exit, ret>>
    BY <1>10 DEF Checkpoint
  <2>1. journal'.st = st /\ journal'.rolling = rolling
    BY <2>0
  <2>2. Uncompensated'
    BY <1>0, <1>10, <2>0, <2>1 DEF Checkpoint, Uncompensated
  <2>3. ASSUME parked = {}, NEW n \in Nodes, Level[n] < lvl + 1 PROVE st[n] \in TerminalStatus
    <3>1. Level[n] < lvl \/ n \in AtLevel(lvl)
      BY <1>0, <2>3, GraphAssumption DEF AtLevel
    <3> QED
      BY <1>0, <2>0, <2>3, <3>1 DEF LevelsSettled, Drained, Running
  <2>4. LevelsSettled'
    <3>1. CASE parked # {}
      BY <1>10, <3>1 DEF Checkpoint, LevelsSettled
    <3>2. CASE parked = {}
      BY <1>10, <2>0, <2>3, <3>2 DEF Checkpoint, LevelsSettled
    <3> QED
      BY <3>1, <3>2
  <2>5. pc' # "idle"
    BY <1>10 DEF Checkpoint
  <2> QED
    BY <2>2, <2>4, <2>5 DEF SettledInv, NilMeansSettled
<1>11. CASE Suspend
  BY <1>0, <1>11 DEF Suspend, store, SettledInv, Uncompensated, LevelsSettled, NilMeansSettled
<1>12. CASE SaveFailedState \/ AckConsumed \/ FinishRollback \/ Crash \/ SaveFails \/ AckFails
  <2>1. NoDrive
    BY <1>12 DEF SaveFailedState, AckConsumed, FinishRollback, Crash, SaveFails, AckFails, Return
  <2>2. pc' = "idle" /\ rolling' = "no" /\ \A n \in Nodes : st'[n] = "pending"
    BY <2>1 DEF NoDrive, AllPending
  <2>3. \/ journal' = journal
        \/ journal'.st = st /\ journal'.rolling = rolling
    <3>1. CASE SaveFailedState \/ FinishRollback
      <4>1. journal' = [st |-> st, rolling |-> rolling]
        BY <3>1 DEF SaveFailedState, FinishRollback
      <4> QED
        BY <4>1
    <3>2. CASE AckConsumed \/ Crash \/ SaveFails \/ AckFails
      BY <3>2 DEF AckConsumed, Crash, SaveFails, AckFails, store
    <3> QED
      BY <1>12, <3>1, <3>2
  <2>4. Uncompensated' /\ LevelsSettled'
    BY <1>0, <2>2, <2>3 DEF Uncompensated, LevelsSettled, Undone
  <2>5. ASSUME ret'.how = "nil" PROVE \A n \in Nodes : journal'.st[n] \in TerminalStatus
    <3>1. /\ pc = "ack" /\ exit = "nil" /\ journal' = journal
      BY <1>12, <2>5 DEF DriveInv, ExitHonest, SaveFailedState, AckConsumed, FinishRollback, Crash,
                         SaveFails, AckFails, Return, store
    <3>2. journal.st = st
      BY <3>1 DEF DriveInv, Synced
    <3> QED
      BY <1>0, <3>1, <3>2 DEF LevelsSettled
  <2> QED
    BY <2>4, <2>5 DEF SettledInv, NilMeansSettled
<1>13. CASE FinalSave
  <2>1. /\ pc = "final" /\ pc' = "ack" /\ journal'.st = st /\ journal'.rolling = rolling
        /\ UNCHANGED <<st, rolling, exit, ret>>
    BY <1>13 DEF FinalSave
  <2> QED
    BY <1>0, <2>1 DEF SettledInv, Uncompensated, LevelsSettled, NilMeansSettled
<1>14. CASE SaveRollbackMarker
  <2>1. /\ pc = "mark" /\ pc' \in {"comp", "finish"} /\ journal'.st = st /\ journal'.rolling = rolling
        /\ UNCHANGED <<st, rolling, exit, ret>>
    BY <1>14 DEF SaveRollbackMarker, StartRollback
  <2> QED
    BY <1>0, <2>1 DEF SettledInv, Uncompensated, LevelsSettled, NilMeansSettled
<1>15. ASSUME NEW n \in Nodes, CompensateNode(n) PROVE SettledInv'
  BY <1>0, <1>15 DEF CompensateNode, store, SettledInv, Uncompensated, LevelsSettled, NilMeansSettled
<1>16. CASE SaveCompLevel \/ CompSaveFails
  <2>1. /\ pc = "comp" /\ pc' \in {"comp", "finish"} /\ UNCHANGED <<st, rolling, exit, ret>>
        /\ journal' = journal \/ (journal'.st = st /\ journal'.rolling = rolling)
    BY <1>16 DEF SaveCompLevel, CompSaveFails, NextCompLevel, store
  <2> QED
    BY <1>0, <2>1 DEF SettledInv, Uncompensated, LevelsSettled, NilMeansSettled
<1>17. ASSUME NEW s \in Signals, DeliverSignal(s) PROVE SettledInv'
  BY <1>0, <1>17 DEF DeliverSignal, drive, level, SettledInv, Uncompensated, LevelsSettled, NilMeansSettled,
                     LevelCancelled
<1>18. CASE CancelContext
  BY <1>0, <1>18 DEF CancelContext, store, level, SettledInv, Uncompensated, LevelsSettled, NilMeansSettled,
                     LevelCancelled
<1>19. CASE CheckpointFails
  BY <1>19, LeaveSettles DEF CheckpointFails, Drained, store, ForwardPCs
<1>20. CASE UNCHANGED vars
  BY <1>0, <1>20 DEF vars, store, drive, level, SettledInv, Uncompensated, LevelsSettled, NilMeansSettled,
                     LevelCancelled
<1> QED
  BY <1>1, <1>2, <1>3, <1>4, <1>5, <1>6, <1>7, <1>8, <1>9, <1>10, <1>11, <1>12, <1>13,
     <1>14, <1>15, <1>16, <1>17, <1>18, <1>19, <1>20 DEF Next, DriveStep

LEMMA SettledInit == Init => SettledInv
  BY DEF Init, AllPending, SettledInv, Uncompensated, LevelsSettled, NilMeansSettled, Undone

(* A drive that returns nil leaves every node of the graph settled in the    *)
(* journal, for any graph of choices, merges and tolerated failures and any  *)
(* history of crashes and resumes (dag.go Execute, parallel_execution.go     *)
(* classifyBlockedStatus).                                                   *)
THEOREM NilHolds == Spec => []NilMeansSettled
<1>1. SettledInv => NilMeansSettled
  BY DEF SettledInv
<1> QED
  BY <1>1, DriveAlways, SettledInit, SettledNext, PTL DEF Spec
---------------------------------------------------------------------------
(* Recorded outcomes follow from one another and are never taken back.  A    *)
(* choice marks heads whatever their status, so this asks that a head depend *)
(* on its choice only; on other graphs the code does take a Skipped back     *)
(* (TerminalStatusStays).                                                    *)

HeadsOnChoice == \A c \in ChoiceNodes : \A t \in Targets[c] : Deps[t] = {c}

(* What the statuses s of its dependencies say for n having status v. *)
Because(s, n, v) ==
    /\ v \in {"running", "completed", "failed"} => AllResolved(s, n)
    /\ v = "skipped" => \E d, e \in Deps[n] :
          \/ s[d] = "skipped" \/ (s[d] = "failed" /\ d \notin ContinueOnError)
          \/ s[d] = "bypassed" /\ Taken(s, e)
    /\ v = "bypassed" => \/ \E c \in ChoiceNodes : n \in Targets[c] /\ s[c] = "completed"
                         \/ NothingToMerge(s, n) /\ AllResolved(s, n)
                         \/ \A d \in Deps[n] : s[d] = "bypassed"

Justified(s) == \A n \in Nodes : Because(s, n, s[n])

(* t settles at most more than s. *)
Steady(s, t) == \A n \in Nodes : s[n] \in TerminalStatus => t[n] = s[n]

(* The drive's memory is ahead of the journal: by new outcomes, and in a     *)
(* rollback by compensations not saved yet.                                  *)
MemoryAhead ==
    pc # "idle" => \A n \in Nodes : journal.st[n] \in TerminalStatus =>
       \/ st[n] = journal.st[n]
       \/ journal.st[n] = "completed" /\ journal.rolling # "no" /\ st[n] \in Undone

GrowInv ==
    /\ rolling = "no" => Justified(st)
    /\ journal.rolling = "no" => Justified(journal.st)
    /\ pc \in {"comp", "finish"} => journal.rolling # "no"
    /\ MemoryAhead

(* A reason for a status outlives any forward progress. *)
LEMMA BecauseSteady ==
  ASSUME NEW s, NEW t, Steady(s, t), NEW n \in Nodes, NEW v, Because(s, n, v)
  PROVE  Because(t, n, v)
<1>1. Deps[n] \subseteq Nodes
  BY GraphAssumption
<1>2. \A d \in Nodes : s[d] \in {"completed", "failed", "skipped", "bypassed"} => t[d] = s[d]
  BY DEF Steady, TerminalStatus, Statuses
<1>3. \A d \in Nodes : Taken(s, d) => t[d] = s[d] /\ Taken(t, d)
  BY <1>2 DEF Taken
<1>4. \A d \in Deps[n] : Resolved(s, n, d) => t[d] = s[d] /\ Resolved(t, n, d)
  BY <1>1, <1>2, <1>3 DEF Resolved
<1>5. AllResolved(s, n) => AllResolved(t, n)
  BY <1>4 DEF AllResolved
<1>6. AllResolved(s, n) /\ NothingToMerge(s, n) => NothingToMerge(t, n)
  BY <1>4, KindAssumption DEF AllResolved, NothingToMerge, Taken
<1>7. CASE v = "skipped"
  <2>1. PICK d \in Deps[n], e \in Deps[n] :
          \/ s[d] = "skipped" \/ (s[d] = "failed" /\ d \notin ContinueOnError)
          \/ s[d] = "bypassed" /\ Taken(s, e)
    BY <1>7 DEF Because
  <2>2. \/ t[d] = "skipped" \/ (t[d] = "failed" /\ d \notin ContinueOnError)
        \/ t[d] = "bypassed" /\ Taken(t, e)
    BY <1>1, <1>2, <1>3, <2>1
  <2> QED
    BY <1>7, <2>2 DEF Because
<1>8. CASE v = "bypassed"
  <2>1. CASE \E c \in ChoiceNodes : n \in Targets[c] /\ s[c] = "completed"
    BY <1>2, <1>8, <2>1, KindAssumption DEF Because
  <2>2. CASE NothingToMerge(s, n) /\ AllResolved(s, n)
    BY <1>5, <1>6, <1>8, <2>2 DEF Because
  <2>3. CASE \A d \in Deps[n] : s[d] = "bypassed"
    BY <1>1, <1>2, <1>8, <2>3 DEF Because
  <2> QED
    BY <1>8, <2>1, <2>2, <2>3 DEF Because
<1>9. CASE v \notin {"skipped", "bypassed"}
  BY <1>5, <1>9 DEF Because
<1> QED
  BY <1>7, <1>8, <1>9

(* classifyBlockedStatus has a reason for the status it gives. *)
LEMMA ClassifyBecause ==
  ASSUME NEW s \in [Nodes -> Statuses], NEW n \in Nodes, s[n] \notin TerminalStatus \cup {"running"}
  PROVE  Because(s, n, Classify(s, n))
<1> DEFINE open    == {d \in Deps[n] : ~Resolved(s, n, d)}
           failing == {d \in open : s[d] \in {"failed", "skipped"}}
           passed  == {d \in open : s[d] = "bypassed"}
<1>1. Classify(s, n) = IF failing # {} THEN "skipped"
                       ELSE IF open \ passed # {} \/ passed = {} THEN s[n]
                       ELSE IF passed # Deps[n] THEN "skipped" ELSE "bypassed"
  BY DEF Classify
<1>2. CASE failing # {}
  <2>1. PICK d \in failing : TRUE
    BY <1>2
  <2>2. /\ d \in Deps[n] /\ s[d] \in {"failed", "skipped"}
        /\ s[d] = "failed" => d \notin ContinueOnError
    BY <2>1 DEF Resolved, Taken
  <2>3. Classify(s, n) = "skipped"
    BY <1>1, <1>2
  <2> QED
    BY <2>2, <2>3 DEF Because
<1>3. CASE failing = {} /\ (open \ passed # {} \/ passed = {})
  <2>1. Classify(s, n) = s[n]
    BY <1>1, <1>3
  <2>2. s[n] \in {"pending", "waiting"}
    BY DEF TerminalStatus, Statuses
  <2> QED
    BY <2>1, <2>2 DEF Because
<1>4. CASE failing = {} /\ open = passed /\ passed # {}
  <2>1. PICK d \in passed : TRUE
    BY <1>4
  <2>2. d \in Deps[n] /\ s[d] = "bypassed" /\ n \notin MergeNodes
    BY <2>1 DEF Resolved
  <2>3. CASE passed # Deps[n]
    <3>1. PICK e \in Deps[n] : e \notin open
      BY <1>4, <2>3
    <3>2. Taken(s, e)
      BY <2>2, <3>1 DEF Resolved
    <3>3. Classify(s, n) = "skipped"
      BY <1>1, <1>4, <2>3
    <3> QED
      BY <2>2, <3>2, <3>3 DEF Because
  <2>4. CASE passed = Deps[n]
    <3>1. Classify(s, n) = "bypassed"
      BY <1>1, <1>4, <2>4
    <3>2. \A c \in Deps[n] : s[c] = "bypassed"
      BY <2>4
    <3> QED
      BY <3>1, <3>2 DEF Because
  <2> QED
    BY <2>3, <2>4
<1> QED
  BY <1>2, <1>3, <1>4

(* The heads of a choice that has not completed are open. *)
LEMMA HeadsOpen ==
  ASSUME HeadsOnChoice, NEW s \in [Nodes -> Statuses], Justified(s),
         \A n \in Nodes : s[n] \notin Undone,
         NEW c \in ChoiceNodes, s[c] \notin TerminalStatus, NEW t \in Targets[c]
  PROVE  t \in Nodes /\ s[t] \notin TerminalStatus
<1>1. t \in Nodes /\ Deps[t] = {c} /\ c \in Nodes
  BY KindAssumption DEF HeadsOnChoice
<1>2. Because(s, t, s[t])
  BY <1>1 DEF Justified
<1>3. s[c] \notin {"completed", "failed", "skipped", "bypassed"}
  BY DEF TerminalStatus, Statuses
<1>4. ~AllResolved(s, t)
  BY <1>1, <1>3 DEF AllResolved, Resolved, Taken
<1>5. s[t] \notin {"completed", "failed"}
  BY <1>2, <1>4 DEF Because
<1>6. s[t] # "skipped"
  BY <1>1, <1>2, <1>3 DEF Because
<1>7. s[t] # "bypassed"
  <2>1. \A b \in ChoiceNodes : t \in Targets[b] => b = c
    BY <1>1 DEF HeadsOnChoice
  <2>2. ~\A d \in Deps[t] : s[d] = "bypassed"
    BY <1>1, <1>3
  <2> QED
    BY <1>2, <1>3, <1>4, <2>1, <2>2 DEF Because
<1> QED
  BY <1>1, <1>5, <1>6, <1>7 DEF TerminalStatus, Statuses, Undone
(* Going forward: statuses settle, each with a reason. *)
LEMMA ForwardGrows ==
  ASSUME GrowInv, pc # "idle", rolling = "no", UNCHANGED journal, pc' \notin {"comp", "finish"},
         Steady(st, st'),
         \A n \in Nodes : st'[n] = st[n] \/ Because(st, n, st'[n]) \/ Because(st', n, st'[n])
  PROVE  GrowInv'
<1>1. Justified(st')
  <2>1. ASSUME NEW n \in Nodes PROVE Because(st', n, st'[n])
    <3>1. CASE Because(st, n, st'[n])
      BY <3>1, BecauseSteady
    <3>2. CASE st'[n] = st[n]
      <4>1. Because(st, n, st[n])
        BY DEF GrowInv, Justified
      <4> QED
        BY <3>2, <4>1, BecauseSteady
    <3> QED
      BY <2>1, <3>1, <3>2
  <2> QED
    BY <2>1 DEF Justified
<1>2. MemoryAhead'
  <2>1. Undone \subseteq TerminalStatus
    BY DEF Undone, TerminalStatus, Statuses
  <2> QED
    BY <2>1 DEF GrowInv, MemoryAhead, Steady
<1>3. (journal.rolling = "no" => Justified(journal.st))'
  BY DEF GrowInv
<1> QED
  BY <1>1, <1>2, <1>3 DEF GrowInv

LEMMA ClearWaitingGrows ==
  ASSUME GrowInv, st \in [Nodes -> Statuses], pc # "idle", rolling = "no", UNCHANGED journal,
         pc' \notin {"comp", "finish"}, st' = ClearWaiting(st)
  PROVE  GrowInv'
<1>1. \A n \in Nodes : IF st[n] = "waiting" THEN st'[n] = "pending" ELSE st'[n] = st[n]
  BY DEF ClearWaiting
<1>2. Steady(st, st')
  BY <1>1 DEF Steady, TerminalStatus
<1>3. \A n \in Nodes : st'[n] = st[n] \/ Because(st, n, st'[n])
  BY <1>1 DEF Because
<1> QED
  BY <1>2, <1>3, ForwardGrows

(* A write puts the memory into the journal. *)
LEMMA SaveGrows ==
  ASSUME GrowInv, journal'.st = st, journal'.rolling = rolling, UNCHANGED <<st, rolling>>,
         pc' \in {"comp", "finish"} => rolling # "no"
  PROVE  GrowInv'
  BY DEF GrowInv, MemoryAhead

LEMMA PassGrows ==
  ASSUME DriveInv, GrowInv, NEW n \in Nodes, PassNode(n)
  PROVE  GrowInv'
<1>0. /\ st \in [Nodes -> Statuses] /\ pc = "launch" /\ pc' = pc /\ UNCHANGED journal /\ rolling = "no"
      /\ st[n] # "running" /\ ~Runnable(n)
  BY DEF DriveInv, TypeInv, TypeOK, PassNode, Here, store, ForwardUnmarked, ForwardPCs, BarrierHolds,
         Running
<1>1. /\ \A m \in Nodes : m # n => st'[m] = st[m]
      /\ st'[n] = IF st[n] \in TerminalStatus THEN st[n]
                  ELSE IF AllResolved(st, n) THEN "bypassed" ELSE Classify(st, n)
  BY <1>0 DEF PassNode
<1>2. Steady(st, st')
  BY <1>1 DEF Steady
<1>3. st'[n] = st[n] \/ Because(st, n, st'[n])
  <2>1. CASE st[n] \in TerminalStatus
    BY <1>1, <2>1
  <2>2. CASE st[n] \notin TerminalStatus /\ AllResolved(st, n)
    <3>1. NothingToMerge(st, n)
      BY <1>0, <2>2 DEF Runnable
    <3> QED
      BY <1>1, <2>2, <3>1 DEF Because
  <2>3. CASE st[n] \notin TerminalStatus /\ ~AllResolved(st, n)
    <3>1. Because(st, n, Classify(st, n))
      BY <1>0, <2>3, ClassifyBecause
    <3> QED
      BY <1>1, <2>3, <3>1
  <2> QED
    BY <2>1, <2>2, <2>3
<1> QED
  BY <1>0, <1>1, <1>2, <1>3, ForwardGrows

LEMMA SweepGrows ==
  ASSUME DriveInv, GrowInv, pc = "sweep", pc' = pc, UNCHANGED journal, st' = SweepLevel(st, lvl)
  PROVE  GrowInv'
<1>0. /\ st \in [Nodes -> Statuses] /\ rolling = "no" /\ \A n \in Nodes : st[n] # "running"
  BY DEF DriveInv, TypeInv, TypeOK, ForwardUnmarked, ForwardPCs, BarrierHolds, Running
<1>1. \A n \in Nodes : \/ st'[n] = st[n]
                       \/ st[n] \notin TerminalStatus /\ st'[n] = Classify(st, n)
  BY DEF SweepLevel
<1>2. Steady(st, st')
  BY <1>1 DEF Steady
<1>3. ASSUME NEW n \in Nodes PROVE st'[n] = st[n] \/ Because(st, n, st'[n])
  <2>1. CASE st'[n] = st[n]
    BY <2>1
  <2>2. CASE st[n] \notin TerminalStatus /\ st'[n] = Classify(st, n)
    <3>1. Because(st, n, Classify(st, n))
      BY <1>0, <2>2, ClassifyBecause
    <3> QED
      BY <2>2, <3>1
  <2> QED
    BY <1>1, <2>1, <2>2
<1> QED
  BY <1>0, <1>2, <1>3, ForwardGrows

(* A node launches, fails or parks. *)
LEMMA NodeGrows ==
  ASSUME DriveInv, GrowInv, NEW n \in Nodes, LaunchNode(n) \/ FailNode(n) \/ ParkNode(n)
  PROVE  GrowInv'
<1>0. /\ st \in [Nodes -> Statuses] /\ pc = "launch" /\ pc' = pc /\ UNCHANGED journal /\ rolling = "no"
      /\ st[n] \notin TerminalStatus
  BY DEF DriveInv, TypeInv, TypeOK, LaunchNode, FailNode, ParkNode, Here, store, ForwardUnmarked,
         ForwardPCs, Running, Runnable, TerminalStatus
<1>1. PICK v \in {"running", "failed", "waiting"} :
         /\ st' = [st EXCEPT ![n] = v]
         /\ v = "running" => LaunchNode(n)
         /\ v = "failed" => FailNode(n)
  BY DEF LaunchNode, FailNode, ParkNode
<1>2. st'[n] = v /\ \A m \in Nodes : m # n => st'[m] = st[m]
  BY <1>0, <1>1
<1>3. Steady(st, st')
  BY <1>0, <1>2 DEF Steady
<1>4. Because(st, n, v)
  <2>1. CASE v = "running"
    BY <1>1, <2>1 DEF LaunchNode, Runnable, Because
  <2>2. CASE v = "failed"
    <3>1. st[n] = "running"
      BY <1>1, <2>2 DEF FailNode, Running
    <3>2. AllResolved(st, n)
      BY <1>0, <3>1 DEF GrowInv, Justified, Because
    <3> QED
      BY <2>2, <3>2 DEF Because
  <2>3. CASE v = "waiting"
    BY <2>3 DEF Because
  <2> QED
    BY <2>1, <2>2, <2>3
<1> QED
  BY <1>0, <1>2, <1>3, <1>4, ForwardGrows

(* A node completes; a choice settles the heads it did not take. *)
LEMMA CompleteGrows ==
  ASSUME HeadsOnChoice, DriveInv, Uncompensated, GrowInv, NEW n \in Nodes, CompleteNode(n)
  PROVE  GrowInv'
<1>0. /\ st \in [Nodes -> Statuses] /\ pc = "launch" /\ pc' = pc /\ UNCHANGED journal /\ rolling = "no"
      /\ st[n] = "running" /\ Justified(st) /\ \A m \in Nodes : st[m] \notin Undone
  BY DEF DriveInv, TypeInv, TypeOK, CompleteNode, store, ForwardUnmarked, ForwardPCs, Running, GrowInv,
         Uncompensated
<1>1. PICK untaken \in IF n \in ChoiceNodes THEN {Targets[n] \ {t} : t \in Targets[n]} ELSE {{}} :
         st' = [m \in Nodes |-> IF m = n THEN "completed"
                                ELSE IF m \in untaken THEN "bypassed" ELSE st[m]]
  BY DEF CompleteNode
<1>2. \A m \in untaken : n \in ChoiceNodes /\ m \in Targets[n]
  BY <1>1
<1>3. \A m \in untaken : m \in Nodes /\ st[m] \notin TerminalStatus
  <2>1. st[n] \notin TerminalStatus
    BY <1>0 DEF TerminalStatus
  <2>2. ASSUME NEW m \in untaken PROVE m \in Nodes /\ st[m] \notin TerminalStatus
    BY <1>0, <1>2, <2>1, HeadsOpen
  <2> QED
    BY <2>2
<1>4. /\ st'[n] = "completed"
      /\ \A m \in untaken : m # n => st'[m] = "bypassed"
      /\ \A m \in Nodes : m # n /\ m \notin untaken => st'[m] = st[m]
  BY <1>1, <1>3
<1>5. Steady(st, st')
  BY <1>0, <1>3, <1>4 DEF Steady, TerminalStatus
<1>6. Because(st, n, "completed")
  BY <1>0 DEF Justified, Because
<1>7. \A m \in untaken : Because(st', m, "bypassed")
  BY <1>2, <1>4 DEF Because
<1>8. \A m \in Nodes : st'[m] = st[m] \/ Because(st, m, st'[m]) \/ Because(st', m, st'[m])
  BY <1>4, <1>6, <1>7
<1> QED
  BY <1>0, <1>5, <1>8, ForwardGrows
LEMMA GrowNext ==
  ASSUME HeadsOnChoice
  PROVE  DriveInv /\ SettledInv /\ GrowInv /\ [Next]_vars => GrowInv'
<1> SUFFICES ASSUME DriveInv, SettledInv, GrowInv, [Next]_vars PROVE GrowInv'
  OBVIOUS
<1>0. /\ st \in [Nodes -> Statuses] /\ journal.st \in [Nodes -> Statuses]
      /\ Uncompensated /\ ForwardUnmarked
  BY DEF DriveInv, TypeInv, TypeOK, SettledInv
<1>1. CASE Execute
  <2>1. CASE journal.rolling # "no"
    <3>1. st' = journal.st /\ UNCHANGED journal /\ rolling' # "no"
      BY <1>1, <2>1 DEF Execute, store
    <3> QED
      BY <2>1, <3>1 DEF GrowInv, MemoryAhead
  <2>2. CASE journal.rolling = "no"
    <3>1. st' = Loaded(journal.st) /\ UNCHANGED journal /\ pc' = "level" /\ Justified(journal.st)
      BY <1>1, <2>2 DEF Execute, store, GrowInv
    <3>2. \A n \in Nodes : \/ st'[n] = journal.st[n]
                           \/ (st'[n] = "pending" /\ journal.st[n] \notin TerminalStatus)
      BY <3>1 DEF Loaded
    <3>3. Steady(journal.st, st')
      BY <3>2 DEF Steady
    <3>4. Justified(st')
      <4>1. ASSUME NEW n \in Nodes PROVE Because(st', n, st'[n])
        <5>1. CASE st'[n] = journal.st[n]
          <6>1. Because(journal.st, n, st'[n])
            BY <3>1, <5>1 DEF Justified
          <6> QED
            BY <3>3, <6>1, BecauseSteady
        <5>2. CASE st'[n] = "pending"
          BY <5>2 DEF Because
        <5> QED
          BY <3>2, <5>1, <5>2
      <4> QED
        BY <4>1 DEF Justified
    <3>5. MemoryAhead'
      BY <3>1, <3>3 DEF MemoryAhead, Steady
    <3> QED
      BY <3>1, <3>4, <3>5 DEF GrowInv
  <2> QED
    BY <2>1, <2>2
<1>2. CASE StartLevel
  <2>0. pc = "level" /\ rolling = "no" /\ UNCHANGED journal
    BY <1>0, <1>2 DEF StartLevel, store, ForwardUnmarked, ForwardPCs
  <2>1. CASE pc' \in {"final", "mark", "save"} /\ st' = ClearWaiting(st)
    BY <1>0, <2>0, <2>1, ClearWaitingGrows
  <2>2. CASE pc' = "launch" /\ UNCHANGED <<st, rolling>>
    BY <2>0, <2>2 DEF GrowInv, MemoryAhead
  <2> QED
    BY <1>2, <2>1, <2>2 DEF StartLevel, LeaveWith
<1>3. ASSUME NEW n \in Nodes, PassNode(n) PROVE GrowInv'
  BY <1>3, PassGrows
<1>4. ASSUME NEW n \in Nodes, LaunchNode(n) \/ FailNode(n) \/ ParkNode(n) PROVE GrowInv'
  BY <1>4, NodeGrows
<1>5. ASSUME NEW n \in Nodes, CompleteNode(n) PROVE GrowInv'
  BY <1>0, <1>5, CompleteGrows
<1>6. CASE HaltLevel \/ CheckpointFails
  <2>0. /\ pc \in {"launch", "sync"} /\ rolling = "no" /\ UNCHANGED journal
    BY <1>0, <1>6 DEF HaltLevel, CheckpointFails, Drained, store, ForwardUnmarked, ForwardPCs
  <2>1. CASE pc' \in {"mark", "save"} /\ st' = ClearWaiting(st)
    BY <1>0, <2>0, <2>1, ClearWaitingGrows
  <2>2. CASE pc' = "sweep" /\ UNCHANGED <<st, rolling>>
    BY <2>0, <2>2 DEF GrowInv, MemoryAhead
  <2> QED
    BY <1>6, <2>1, <2>2 DEF HaltLevel, CheckpointFails, LeaveWith
<1>7. CASE SweepSkipped
  <2>0. pc = "sweep" /\ rolling = "no" /\ UNCHANGED journal
    BY <1>0, <1>7 DEF SweepSkipped, store, ForwardUnmarked, ForwardPCs
  <2>1. CASE lvl > LastLevel
    <3>1. pc' \in {"mark", "save"} /\ st' = ClearWaiting(st)
      BY <1>7, <2>1 DEF SweepSkipped, LeaveWith
    <3> QED
      BY <1>0, <2>0, <3>1, ClearWaitingGrows
  <2>2. CASE ~(lvl > LastLevel)
    <3>1. pc' = pc /\ st' = SweepLevel(st, lvl)
      BY <1>7, <2>2 DEF SweepSkipped
    <3> QED
      BY <2>0, <3>1, SweepGrows
  <2> QED
    BY <2>1, <2>2
<1>8. CASE Checkpoint \/ FinalSave \/ SaveRollbackMarker \/ SaveCompLevel
  <2>1. journal' = [st |-> st, rolling |-> rolling] /\ UNCHANGED <<st, rolling>>
    BY <1>8 DEF Checkpoint, FinalSave, SaveRollbackMarker, SaveCompLevel
  <2>2. journal'.st = st /\ journal'.rolling = rolling
    BY <2>1
  <2>3. pc' \in {"comp", "finish"} => rolling # "no"
    BY <1>0, <1>8 DEF Uncompensated, Checkpoint, FinalSave, SaveRollbackMarker, SaveCompLevel
  <2> QED
    BY <2>1, <2>2, <2>3, SaveGrows
<1>9. CASE SaveFailedState \/ AckConsumed \/ FinishRollback \/ Crash \/ SaveFails \/ AckFails
  <2>1. pc' = "idle" /\ st' = AllPending
    BY <1>9 DEF SaveFailedState, AckConsumed, FinishRollback, Crash, SaveFails, AckFails, Return,
                NoDrive
  <2>2. Justified(st')
    BY <2>1 DEF Justified, Because, AllPending
  <2>3. journal'.rolling = "no" => Justified(journal'.st)
    <3>1. CASE SaveFailedState \/ FinishRollback
      <4>1. journal' = [st |-> st, rolling |-> rolling]
        BY <3>1 DEF SaveFailedState, FinishRollback
      <4>2. journal'.st = st /\ journal'.rolling = rolling
        BY <4>1
      <4> QED
        BY <4>2 DEF GrowInv
    <3>2. CASE AckConsumed \/ Crash \/ SaveFails \/ AckFails
      <4>1. journal' = journal
        BY <3>2 DEF AckConsumed, Crash, SaveFails, AckFails, store
      <4> QED
        BY <4>1 DEF GrowInv
    <3> QED
      BY <1>9, <3>1, <3>2
  <2> QED
    BY <2>1, <2>2, <2>3 DEF GrowInv, MemoryAhead
<1>10. ASSUME NEW n \in Nodes, CompensateNode(n) PROVE GrowInv'
  <2>1. /\ pc = "comp" /\ pc' = "comp" /\ UNCHANGED <<journal, rolling>> /\ rolling # "no"
        /\ journal.rolling # "no" /\ n \in todo
    BY <1>0, <1>10 DEF CompensateNode, store, Uncompensated, GrowInv
  <2>2. st[n] = "completed"
    BY <2>1 DEF DriveInv, ReverseOrder, Pending
  <2>3. PICK v \in Undone : st' = [st EXCEPT ![n] = v]
    BY <1>10 DEF CompensateNode, Undone
  <2>4. st'[n] \in Undone /\ \A m \in Nodes : m # n => st'[m] = st[m]
    BY <1>0, <2>3
  <2>5. "completed" \notin Undone
    BY DEF Undone
  <2>6. MemoryAhead'
    BY <2>1, <2>2, <2>4, <2>5 DEF GrowInv, MemoryAhead
  <2> QED
    BY <2>1, <2>6 DEF GrowInv
<1>11. CASE CompSaveFails
  <2>1. pc = "comp" /\ pc' \in {"comp", "finish"} /\ UNCHANGED <<journal, st, rolling>>
    BY <1>11 DEF CompSaveFails, NextCompLevel, store
  <2> QED
    BY <2>1 DEF GrowInv, MemoryAhead
<1>12. CASE StopLaunching \/ Suspend \/ CancelContext \/ UNCHANGED vars
  <2>1. (pc' = "ack" /\ pc # "idle") \/ pc' = pc
    BY <1>12 DEF StopLaunching, Suspend, CancelContext, vars, drive
  <2>2. UNCHANGED <<journal, st, rolling>>
    BY <1>12 DEF StopLaunching, Suspend, CancelContext, vars, drive, store
  <2> QED
    BY <2>1, <2>2 DEF GrowInv, MemoryAhead
<1>13. ASSUME NEW s \in Signals, DeliverSignal(s) PROVE GrowInv'
  BY <1>13 DEF DeliverSignal, drive, GrowInv, MemoryAhead
<1> QED
  BY <1>1, <1>2, <1>3, <1>4, <1>5, <1>6, <1>7, <1>8, <1>9, <1>10, <1>11, <1>12, <1>13
     DEF Next, DriveStep

LEMMA GrowInit == Init => GrowInv
<1> SUFFICES ASSUME Init PROVE GrowInv
  OBVIOUS
<1>1. Justified(AllPending)
  BY DEF Justified, Because, AllPending
<1> QED
  BY <1>1 DEF Init, GrowInv, MemoryAhead

LEMMA GrowAlways == HeadsOnChoice /\ Spec => [](DriveInv /\ GrowInv)
<1> SUFFICES ASSUME HeadsOnChoice PROVE Spec => [](DriveInv /\ GrowInv)
  OBVIOUS
<1>1. DriveInv /\ SettledInv /\ GrowInv /\ [Next]_vars => GrowInv'
  BY GrowNext
<1> QED
  BY <1>1, DriveAlways, SettledInit, SettledNext, GrowInit, PTL DEF Spec

(* Where the heads of a choice depend on that choice only, every outcome in  *)
(* the journal follows from those of the node's dependencies: who ran had    *)
(* them resolved, who was skipped has a failure upstream, who was bypassed a *)
(* branch not taken (depResolved, classifyBlockedStatus, bypassExcept).      *)
THEOREM OutcomesHold == HeadsOnChoice /\ Spec => []OutcomesJustified
<1>1. GrowInv => OutcomesJustified
  BY DEF GrowInv, Justified, Because, OutcomesJustified
<1> QED
  BY <1>1, GrowAlways, PTL

(* Where the heads of a choice depend on that choice only, recorded progress *)
(* is never lost, whatever crashes, faults and resumes lie between: the only *)
(* settled node to change is a completed one a rollback compensates          *)
(* (executeLocked, SaveCheckpoint, finishRollback).                          *)
THEOREM JournalHolds == HeadsOnChoice /\ Spec => JournalOnlyGrows
<1>1. ASSUME DriveInv, GrowInv, [Next]_vars, NEW n \in Nodes, journal.st[n] \in TerminalStatus
      PROVE  \/ journal'.st[n] = journal.st[n]
             \/ /\ journal.st[n] = "completed" /\ journal.rolling # "no"
                /\ journal'.st[n] \in {"compensated", "compensation_failed"}
  <2>1. CASE journal' = journal
    BY <2>1
  <2>2. CASE journal' = [st |-> st, rolling |-> rolling] /\ pc # "idle"
    <3>1. journal'.st = st
      BY <2>2
    <3> QED
      BY <1>1, <2>2, <3>1 DEF GrowInv, MemoryAhead, Undone
  <2>3. journal' = journal \/ (journal' = [st |-> st, rolling |-> rolling] /\ pc # "idle")
    BY <1>1 DEF Next, DriveStep, Execute, StartLevel, StopLaunching, HaltLevel, SweepSkipped,
                Checkpoint, Suspend, SaveFailedState, FinalSave, AckConsumed, SaveRollbackMarker,
                SaveCompLevel, FinishRollback, PassNode, LaunchNode, CompleteNode, FailNode, ParkNode,
                CompensateNode, DeliverSignal, CancelContext, Crash, CheckpointFails, SaveFails,
                CompSaveFails, AckFails, Drained, vars, store
  <2> QED
    BY <2>1, <2>2, <2>3
<1>2. DriveInv /\ GrowInv /\ [Next]_vars =>
        [\A n \in Nodes : journal.st[n] \in TerminalStatus =>
            \/ journal'.st[n] = journal.st[n]
            \/ /\ journal.st[n] = "completed" /\ journal.rolling # "no"
               /\ journal'.st[n] \in {"compensated", "compensation_failed"}]_vars
  BY <1>1
<1> QED
  BY <1>2, GrowAlways, PTL DEF Spec, JournalOnlyGrows
=============================================================================

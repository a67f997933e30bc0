----------------------------- MODULE WorkQueue -----------------------------
(***************************************************************************)
(* The durable work queue and the competing consumers that drain it:        *)
(* the `work_queue` and `leases` tables, the worker's runNext (claim ->     *)
(* cancel re-read -> build -> seed -> Execute -> disposition -> completion  *)
(* signal), the concurrency caps, cancellation, bounded retry, parking and  *)
(* reclaim-after-death.                                                     *)
(*                                                                          *)
(* One action is one store transaction of one worker; between two of them   *)
(* any other worker, an operator or the clock may act, and the worker may   *)
(* crash.  The run itself is abstracted to its journal: a run of Levels     *)
(* levels, each ended by a fenced checkpoint (the level executor has a      *)
(* module of its own).                                                      *)
(***************************************************************************)
EXTENDS Lease, FiniteSets

CONSTANTS Workflows,    \* workflow ids that may be enqueued
          NoItem,       \* the item of an idle worker
          Types,        \* dispatch types
          TypeOf,       \* the type a workflow is enqueued with
          Hosts,        \* host bindings; NoHost is owner_host IS NULL
          NoHost,
          HostOf,       \* the owner_host a workflow is enqueued with
          HostScope,    \* the host a worker claims for
          Registered,   \* the types in a worker's Registry
          ProcOf,       \* the OS process a worker runs in
          Children,     \* workflows enqueued by EnqueueSubWorkflow
          TypeCap,      \* Caps.PerType; 0 is "uncapped"
          GlobalCap,    \* Caps.Global; 0 is "uncapped"
          MaxAttempts,  \* the retry budget
          Levels,       \* levels of a run
          MaxFaults     \* bound: adverse events in a behaviour

ASSUME ItemAssumption    == NoItem \notin Workflows
ASSUME TypeAssumption    == TypeOf \in [Workflows -> Types] /\ TypeCap \in [Types -> Nat]
ASSUME HostAssumption    == /\ NoHost \in Hosts
                            /\ HostOf \in [Workflows -> Hosts]
                            /\ HostScope \in [Workers -> Hosts]
ASSUME RegistryAssumption == Registered \in [Workers -> SUBSET Types]
ASSUME ChildrenAssumption == Children \subseteq Workflows
ASSUME FiniteAssumption  == IsFiniteSet(Workflows)
ASSUME BoundsAssumption  == /\ GlobalCap \in Nat
                            /\ MaxAttempts \in Nat \ {0}
                            /\ Levels \in Nat \ {0}
                            /\ MaxFaults \in Nat

VARIABLES
    row,       \* work_queue: workflow -> row
    lease,     \* leases: workflow -> lease row (NoLease = no row)
    journal,   \* the persisted run state: workflow -> journal
    signals,   \* children whose completion signal is in the parent's mailbox
    held,      \* tokenState of each worker's store
    pc,        \* where each worker is in runNext
    item,      \* the claimed WorkItem
    mem,       \* the WorkflowData the worker drives in memory
    err,       \* the error class Execute returned
    faults,    \* adverse events so far (bounded by MaxFaults)
    requeued   \* history: workflows MarkForRetry has put back

db      == <<row, lease, journal, signals>>
worker  == <<held, pc, item, mem, err>>
history == <<faults, requeued>>
vars    == <<db, worker, history>>

---------------------------------------------------------------------------
(* Types *)

Terminal  == {"done", "failed", "cancelled"}
RowStates == {"absent", "pending", "claimed"} \cup Terminal

Rows == [state : RowStates, at : Nat, attempts : 0..MaxAttempts,
         parked : BOOLEAN, cancel : BOOLEAN]

NoRow == [state |-> "absent", at |-> 0, attempts |-> 0,
          parked |-> FALSE, cancel |-> FALSE]

(* lvl: levels whose completion is recorded (-1: Load returns ErrNotFound).  *)
(* failed # "no": a node is recorded Failed, a terminal status no resume     *)
(* re-runs.  The journal does not say why it failed; the model remembers     *)
(* whether the node itself failed or its context was cancelled under it.     *)
Journals  == [lvl : -1..Levels, failed : {"no", "node", "ctx"}]
NoJournal == [lvl |-> -1, failed |-> "no"]
Seeded    == [lvl |-> 0, failed |-> "no"]

PCs == {"idle", "reread", "build", "seed", "exec", "run", "save", "dispose",
        "parking", "done", "failed", "cancelled", "retry", "release", "deliver"}

Errors == {"none", "fenced", "ctx", "infra", "node"}

TypeOK ==
    /\ row      \in [Workflows -> Rows]
    /\ lease    \in [Workflows -> Leases]
    /\ journal  \in [Workflows -> Journals]
    /\ signals  \in SUBSET Children
    /\ held     \in [Workers -> [Workflows -> Nat]]
    /\ pc       \in [Workers -> PCs]
    /\ item     \in [Workers -> Workflows \cup {NoItem}]
    /\ mem      \in [Workers -> Journals]
    /\ err      \in [Workers -> Errors]
    /\ faults   \in 0..MaxFaults
    /\ requeued \in SUBSET Workflows

---------------------------------------------------------------------------
Init ==
    /\ row      = [wf \in Workflows |-> NoRow]
    /\ lease    = [wf \in Workflows |-> NoLease]
    /\ journal  = [wf \in Workflows |-> NoJournal]
    /\ signals  = {}
    /\ held     = [w \in Workers |-> [wf \in Workflows |-> 0]]
    /\ pc       = [w \in Workers |-> "idle"]
    /\ item     = [w \in Workers |-> NoItem]
    /\ mem      = [w \in Workers |-> NoJournal]
    /\ err      = [w \in Workers |-> "none"]
    /\ faults   = 0
    /\ requeued = {}

---------------------------------------------------------------------------
(* Submitting and cancelling.  Each is one auto-commit statement; a call     *)
(* that matches no row changes nothing.                                      *)

Queued == {wf \in Workflows : row[wf].state # "absent"}

(* Enqueue, EnqueueSubWorkflow, EnqueueForHost: INSERT ... ON CONFLICT DO    *)
(* NOTHING.  enqueued_at is the order of submission.                         *)
Enqueue(wf) ==
    /\ row[wf].state = "absent"
    /\ row' = [row EXCEPT ![wf] = [NoRow EXCEPT !.state = "pending",
                                                !.at = Cardinality(Queued) + 1]]
    /\ UNCHANGED <<lease, journal, signals, worker, history>>

CancelPending(wf) ==
    /\ row[wf].state = "pending"
    /\ row' = [row EXCEPT ![wf].state = "cancelled"]
    /\ UNCHANGED <<lease, journal, signals, worker, history>>

CancelRunning(wf) ==
    /\ row[wf].state \in {"pending", "claimed"}
    /\ ~row[wf].cancel
    /\ row' = [row EXCEPT ![wf].cancel = TRUE]
    /\ UNCHANGED <<lease, journal, signals, worker, history>>

---------------------------------------------------------------------------
(* claimNext: one IMMEDIATE transaction that scans oldest first.             *)

(* The host, requested-run and registered-type predicates of the scan.       *)
Eligible(w, scope) ==
    {wf \in scope : HostOf[wf] = HostScope[w] /\ TypeOf[wf] \in Registered[w]}

(* Mutant of Scan: no reclaim of a lapsed claim.                             *)
ScanPendingOnly(w, scope) == {wf \in Eligible(w, scope) : row[wf].state = "pending"}

(* The rows the scan offers: pending, or claimed with a lapsed lease.        *)
Scan(w, scope) ==
    {wf \in Eligible(w, scope) :
        \/ row[wf].state = "pending"
        \/ /\ row[wf].state = "claimed"
           /\ Exists(lease[wf])
           /\ lease[wf].left < 0}

(* Offered rows that are terminalized here instead of being handed out.      *)
CancelSet(S) == {wf \in S : row[wf].state = "claimed" /\ row[wf].cancel}

(* ... the ones the scan meets before it meets x.                            *)
CleanedBefore(S, x) == {wf \in CancelSet(S) : row[wf].at < row[x].at}

(* Mutant of Running: a settled row still holds its slot.                    *)
RunningOnceClaimed ==
    {wf \in Workflows : row[wf].state \notin {"absent", "pending"} /\ ~row[wf].parked}

(* A running slot: state='claimed' AND parked IS NULL.                       *)
Running == {wf \in Workflows : row[wf].state = "claimed" /\ ~row[wf].parked}

(* Mutant of OccupiesNewSlot: a parked row resumes past the caps.            *)
OccupiesSlotIfPending(x) == row[x].state = "pending" /\ ~row[x].cancel

OccupiesNewSlot(x) ==
    /\ row[x].state = "pending" \/ (row[x].state = "claimed" /\ row[x].parked)
    /\ ~row[x].cancel

SameType(x) == {wf \in Workflows : TypeOf[wf] = TypeOf[x]}

(* claimWouldExceedCap, over the rows as the transaction has left them.      *)
ClaimWouldExceedCap(S, x) ==
    LET others == (Running \ CleanedBefore(S, x)) \ {x} IN
    \/ /\ TypeCap[TypeOf[x]] # 0
       /\ Cardinality(others \cap SameType(x)) >= TypeCap[TypeOf[x]]
    \/ /\ GlobalCap # 0
       /\ Cardinality(others) >= GlobalCap

Takeable(w, S) ==
    {x \in S \ CancelSet(S) :
        /\ OccupiesNewSlot(x) => ~ClaimWouldExceedCap(S, x)
        /\ Granted(lease[x], w)}

Oldest(S) == {x \in S : \A y \in S : row[x].at <= row[y].at}

(* The row a claim leaves: a pending row becomes claimed, a reclaimed one    *)
(* stays claimed; either way attempts+1 and parked=NULL.  Only               *)
(* attempts < maxAttempts is ever asked, so the count saturates there.       *)
ClaimedRow(r) == [r EXCEPT !.state = "claimed", !.parked = FALSE,
                           !.attempts = IF @ < MaxAttempts THEN @ + 1 ELSE @]

(* The effect of the transaction on the tables: `cleaned` are terminalized   *)
(* under the reclaimer's fresh token and their parents woken, `taken` (at    *)
(* most one) is handed out.                                                  *)
ClaimTx(w, cleaned, taken) ==
    /\ row' = [wf \in Workflows |->
                  IF wf \in cleaned THEN [row[wf] EXCEPT !.state = "cancelled"]
                  ELSE IF wf \in taken THEN ClaimedRow(row[wf]) ELSE row[wf]]
    /\ lease' = [wf \in Workflows |->
                    IF wf \in cleaned \cup taken THEN Grant(lease[wf], w) ELSE lease[wf]]
    /\ signals' = signals \cup (cleaned \cap Children)

(* A claim that hands out x: tokenState is set after the commit.             *)
ClaimNext(w, scope) ==
    /\ pc[w] = "idle"
    /\ LET S == Scan(w, scope) IN
       \E x \in Oldest(Takeable(w, S)) :
          /\ ClaimTx(w, CleanedBefore(S, x), {x})
          /\ held' = [held EXCEPT ![w][x] = Grant(lease[x], w).token]
          /\ item' = [item EXCEPT ![w] = x]
    /\ pc' = [pc EXCEPT ![w] = "reread"]
    /\ UNCHANGED <<journal, mem, err, history>>

(* A claim that ends in ErrNoWork still commits the cancelled rows.          *)
ClaimNoWork(w, scope) ==
    /\ pc[w] = "idle"
    /\ LET S == Scan(w, scope) IN
       /\ Takeable(w, S) = {}
       /\ CancelSet(S) # {}
       /\ ClaimTx(w, CancelSet(S), {})
    /\ UNCHANGED <<journal, worker, history>>

---------------------------------------------------------------------------
(* Worker steps.  Goto moves the worker on inside runNext, Finish returns    *)
(* from it; the store handle (held) outlives the call.                       *)

At(w, p) == pc[w] = p

Goto(w, p) == pc' = [pc EXCEPT ![w] = p]

Finish(w) == /\ pc'   = [pc EXCEPT ![w] = "idle"]
             /\ item' = [item EXCEPT ![w] = NoItem]
             /\ mem'  = [mem EXCEPT ![w] = NoJournal]
             /\ err'  = [err EXCEPT ![w] = "none"]

Token(w) == held[w][item[w]]

Fenced(w) == FencedOut(lease[item[w]], Token(w))

(* A Save or a checkpoint that passes the fencing CAS: the journal row and   *)
(* the lease renewal commit together.                                        *)
Write(w, j) ==
    /\ journal' = [journal EXCEPT ![item[w]] = j]
    /\ lease'   = [lease EXCEPT ![item[w]] = Renewed(@, Token(w))]

(* The re-read of cancel_requested after the claim.                          *)
Reread(w) ==
    /\ At(w, "reread")
    /\ Goto(w, IF row[item[w]].cancel THEN "cancelled" ELSE "build")
    /\ UNCHANGED <<db, held, item, mem, err, history>>

(* The Registry lookup or the factory fails: failClaimedItem.                *)
BuildFails(w) ==
    /\ At(w, "build")
    /\ Goto(w, "failed")
    /\ UNCHANGED <<db, held, item, mem, err, history>>

(* The freshness check: Load, and seed only on ErrNotFound.                  *)
Build(w) ==
    /\ At(w, "build")
    /\ Goto(w, IF journal[item[w]] = NoJournal THEN "seed" ELSE "exec")
    /\ UNCHANGED <<db, held, item, mem, err, history>>

(* The input seed: a Save that overwrites whatever the journal holds.        *)
Seed(w) ==
    /\ At(w, "seed")
    /\ IF Fenced(w)
       THEN Goto(w, "failed") /\ UNCHANGED <<journal, lease>>
       ELSE Goto(w, "exec") /\ Write(w, Seeded)
    /\ UNCHANGED <<row, signals, held, item, mem, err, history>>

(* Workflow.Execute: the in-process Locker admits one drive of a workflow    *)
(* per OS process, then the run loads its journal.                           *)
StartExecute(w) ==
    /\ At(w, "exec")
    /\ \A v \in Workers \ {w} :
          ProcOf[v] = ProcOf[w] /\ item[v] = item[w] => pc[v] \notin {"run", "save"}
    /\ mem' = [mem EXCEPT ![w] = journal[item[w]]]
    /\ Goto(w, "run")
    /\ UNCHANGED <<db, held, item, err, history>>

(* Mutant of Unfinished: one level too many.                                 *)
UnfinishedOffByOne(w) == mem[w].lvl <= Levels /\ mem[w].failed = "no"

(* Nodes are left to run: a Failed node ends the run on a resume.            *)
Unfinished(w) == mem[w].lvl < Levels /\ mem[w].failed = "no"

Advanced(j) == [j EXCEPT !.lvl = @ + 1]
WithFailure(j, why) == [j EXCEPT !.failed = why]

(* A level runs and the barrier checkpoints it.                              *)
CheckpointLevel(w) ==
    /\ At(w, "run")
    /\ Unfinished(w)
    /\ mem' = [mem EXCEPT ![w] = Advanced(@)]
    /\ IF Fenced(w)
       THEN /\ Goto(w, "save")
            /\ err' = [err EXCEPT ![w] = "fenced"]
            /\ UNCHANGED <<journal, lease>>
       ELSE /\ Write(w, Advanced(mem[w]))
            /\ UNCHANGED <<pc, err>>
    /\ UNCHANGED <<row, signals, held, item, history>>

(* A node fails: DAG.Execute returns an *ExecutionError.                     *)
FailNode(w) ==
    /\ At(w, "run")
    /\ Unfinished(w)
    /\ mem' = [mem EXCEPT ![w] = WithFailure(@, "node")]
    /\ err' = [err EXCEPT ![w] = "node"]
    /\ Goto(w, "save")
    /\ UNCHANGED <<db, held, item, history>>

(* No work is left: the final Save.                                          *)
FinishRun(w) ==
    /\ At(w, "run")
    /\ ~Unfinished(w)
    /\ IF Fenced(w)
       THEN /\ Goto(w, "dispose")
            /\ err' = [err EXCEPT ![w] = "fenced"]
            /\ UNCHANGED <<journal, lease>>
       ELSE Goto(w, "done") /\ Write(w, mem[w]) /\ UNCHANGED err
    /\ UNCHANGED <<row, signals, held, item, mem, history>>

(* The drive context is cancelled, by the watcher that saw cancel_requested  *)
(* or by the pool's drain.  A node of the level may have finished, may have  *)
(* failed on the cancelled context, or may not have been reached; a drive    *)
(* still waiting for the in-process lock returns without a Save.             *)
ContextCancelled(w) ==
    /\ err' = [err EXCEPT ![w] = "ctx"]
    /\ \/ /\ At(w, "exec")
          /\ Goto(w, "dispose")
          /\ UNCHANGED mem
       \/ /\ At(w, "run")
          /\ Goto(w, "save")
          /\ \E j \in {mem[w]} \cup (IF Unfinished(w)
                                    THEN {Advanced(mem[w]), WithFailure(mem[w], "ctx")} ELSE {}) :
                mem' = [mem EXCEPT ![w] = j]
    /\ UNCHANGED <<db, held, item>>

(* executeLocked saves the failed state before it returns the error.         *)
SaveFailedState(w) ==
    /\ At(w, "save")
    /\ Goto(w, "dispose")
    /\ IF Fenced(w)
       THEN /\ err' = [err EXCEPT ![w] = "fenced"]
            /\ UNCHANGED <<journal, lease>>
       ELSE Write(w, mem[w]) /\ UNCHANGED err
    /\ UNCHANGED <<row, signals, held, item, mem, history>>

(* disposeExecErr.  A superseded drive touches no queue state; a context     *)
(* error is told apart by the durable cancel flag.                           *)
Dispose(w) ==
    /\ At(w, "dispose")
    /\ Goto(w, CASE err[w] = "ctx"   -> IF row[item[w]].cancel THEN "cancelled" ELSE "deliver"
                 [] err[w] = "infra" -> "retry"
                 [] err[w] = "node"  -> "failed"
                 [] OTHER            -> "deliver")
    /\ UNCHANGED <<db, held, item, mem, err, history>>

(* Mutant of MarkParked: parking gives the lease up.                         *)
MarkParkedReleases(w) ==
    /\ At(w, "parking")
    /\ row' = [row EXCEPT ![item[w]] = [@ EXCEPT !.attempts = 0, !.parked = TRUE]]
    /\ lease' = [lease EXCEPT ![item[w]] = Released(@, Token(w))]
    /\ Finish(w)
    /\ UNCHANGED <<journal, signals, held, history>>

(* markWorkQueueParked, after ErrSuspended: the row stays claimed and the    *)
(* lease is left to lapse.                                                   *)
MarkParked(w) ==
    /\ At(w, "parking")
    /\ LET wf == item[w] IN
       row' = IF /\ row[wf].state = "claimed"
                 /\ Token(w) = 0 \/ TokenGuard(lease[wf], Token(w))
              THEN [row EXCEPT ![wf] = [@ EXCEPT !.attempts = 0, !.parked = TRUE]]
              ELSE row
    /\ Finish(w)
    /\ UNCHANGED <<lease, journal, signals, held, history>>

(* Mutant of FlipTerminal: UPDATE ... WHERE workflow_id = ?, with no guard.  *)
FlipUnguarded(w) ==
    /\ pc[w] \in Terminal
    /\ row' = [row EXCEPT ![item[w]].state = pc[w]]
    /\ Goto(w, IF pc[w] # "cancelled" THEN "release" ELSE "deliver")
    /\ UNCHANGED <<lease, journal, signals, held, item, mem, err, history>>

(* flipTerminalFenced: claimed -> to, under the token guard.  MarkDone and   *)
(* MarkFailed release the lease after a flip; a cancelled row keeps it.      *)
FlipTerminal(w) ==
    /\ pc[w] \in Terminal
    /\ LET wf == item[w]
           flips == /\ row[wf].state = "claimed"
                    /\ Token(w) = 0 \/ TokenGuard(lease[wf], Token(w))
       IN /\ row' = IF flips THEN [row EXCEPT ![wf].state = pc[w]] ELSE row
          /\ Goto(w, IF flips /\ pc[w] # "cancelled" THEN "release" ELSE "deliver")
    /\ UNCHANGED <<lease, journal, signals, held, item, mem, err, history>>

(* MarkForRetry: claimed -> pending while attempts < maxAttempts; otherwise  *)
(* the caller dead-letters.                                                  *)
MarkForRetry(w) ==
    /\ At(w, "retry")
    /\ LET wf == item[w] IN
       IF /\ row[wf].state = "claimed"
          /\ row[wf].attempts < MaxAttempts
          /\ TokenGuard(lease[wf], Token(w))
       THEN /\ row' = [row EXCEPT ![wf].state = "pending"]
            /\ requeued' = requeued \cup {wf}
            /\ Goto(w, "release")
       ELSE Goto(w, "failed") /\ UNCHANGED <<row, requeued>>
    /\ UNCHANGED <<lease, journal, signals, held, item, mem, err, faults>>

(* Release under the held token; tokenState is cleared whether or not a row  *)
(* was deleted.                                                              *)
ReleaseLease(w) ==
    /\ At(w, "release")
    /\ lease' = [lease EXCEPT ![item[w]] = Released(@, Token(w))]
    /\ held'  = [held EXCEPT ![w][item[w]] = 0]
    /\ Goto(w, "deliver")
    /\ UNCHANGED <<row, journal, signals, item, mem, err, history>>

(* Mutant of Deliver: the parent is woken whatever became of the child.      *)
DeliverAnyway(w) ==
    /\ At(w, "deliver")
    /\ signals' = IF item[w] \in Children THEN signals \cup {item[w]} ELSE signals
    /\ Finish(w)
    /\ UNCHANGED <<row, lease, journal, held, history>>

(* deliverSubWorkflowCompletion: a signal for a child found terminal.        *)
Deliver(w) ==
    /\ At(w, "deliver")
    /\ signals' = IF item[w] \in Children /\ row[item[w]].state \in Terminal
                  THEN signals \cup {item[w]} ELSE signals
    /\ Finish(w)
    /\ UNCHANGED <<row, lease, journal, held, history>>

---------------------------------------------------------------------------
(* Adverse events.  Each costs one of MaxFaults.                             *)

Fault == faults < MaxFaults /\ faults' = faults + 1

(* The process dies: its tokenState and the run in memory are gone.          *)
Crash(w) ==
    /\ pc[w] # "idle"
    /\ Fault
    /\ held' = [held EXCEPT ![w] = [wf \in Workflows |-> 0]]
    /\ Finish(w)
    /\ UNCHANGED <<db, requeued>>

(* A suspension node parks the run: the barrier checkpoint, then ErrSuspended.*)
Park(w) ==
    /\ At(w, "run")
    /\ Unfinished(w)
    /\ Fault
    /\ IF Fenced(w)
       THEN /\ Goto(w, "save")
            /\ err' = [err EXCEPT ![w] = "fenced"]
            /\ UNCHANGED <<journal, lease>>
       ELSE Goto(w, "parking") /\ Write(w, mem[w]) /\ UNCHANGED err
    /\ UNCHANGED <<row, signals, held, item, mem, requeued>>

(* The pool drains: the drive context is cancelled with no cancel request.   *)
Drain(w) == Fault /\ ContextCancelled(w) /\ UNCHANGED requeued

(* A store call of a run in Execute returns ErrBusy or ErrIO: the Load, the  *)
(* barrier checkpoint (its level has run, or has parked) or the final Save.  *)
InfraFault(w) ==
    /\ Fault
    /\ err' = [err EXCEPT ![w] = "infra"]
    /\ \/ /\ At(w, "exec") \/ (At(w, "run") /\ ~Unfinished(w))
          /\ Goto(w, "dispose")
          /\ UNCHANGED mem
       \/ /\ At(w, "run")
          /\ Unfinished(w)
          /\ Goto(w, "save")
          /\ \E j \in {mem[w], Advanced(mem[w])} : mem' = [mem EXCEPT ![w] = j]
    /\ UNCHANGED <<db, held, item, requeued>>

(* Where runNext goes when the store call of the current step faults.  The   *)
(* dispositions are best-effort: their errors are dropped, except that a     *)
(* faulted requeue and a faulted load or seed are dead-lettered.             *)
AfterFault ==
    [p \in {"reread", "build", "seed", "save", "retry", "release"} \cup Terminal |->
        CASE p = "reread" -> "build"
          [] p = "save"   -> "dispose"
          [] p \in {"build", "seed", "retry"} -> "failed"
          [] OTHER -> "deliver"]

StoreFault(w) ==
    /\ Fault
    /\ pc[w] \in DOMAIN AfterFault
    /\ Goto(w, AfterFault[pc[w]])
    /\ UNCHANGED <<db, held, item, mem, err, requeued>>

(* The park marker or the completion signal is lost.                         *)
BestEffortLost(w) ==
    /\ Fault
    /\ pc[w] \in {"parking", "deliver"}
    /\ Finish(w)
    /\ UNCHANGED <<db, held, requeued>>

(* Some worker is driving wf under the current token.                        *)
Attended(wf) == \E w \in Workers : item[w] = wf /\ held[w][wf] = lease[wf].token

(* The clock.  No two leases are ever compared, so each ages on its own; an  *)
(* attended live lease that ages is a stalled owner and costs a fault.       *)
Tick(wf) ==
    /\ Exists(lease[wf])
    /\ lease[wf].left > -1
    /\ lease' = [lease EXCEPT ![wf] = Aged(@)]
    /\ IF Attended(wf) /\ lease[wf].left > 0 THEN Fault ELSE UNCHANGED faults
    /\ UNCHANGED <<row, journal, signals, worker, requeued>>

---------------------------------------------------------------------------
(* The watcher polls cancel_requested and cancels the drive context.         *)
CancelWatcher(w) ==
    /\ pc[w] \in {"exec", "run"}
    /\ row[item[w]].cancel
    /\ ContextCancelled(w)
    /\ UNCHANGED history

(* The runs a claim may name: any row, or (for a designated host) one row.   *)
Scopes(w) == {Workflows} \cup
             (IF HostScope[w] = NoHost THEN {} ELSE {{wf} : wf \in Workflows})

Claim(w) == \E scope \in Scopes(w) : ClaimNext(w, scope) \/ ClaimNoWork(w, scope)

RunNext(w) ==
    \/ Reread(w) \/ BuildFails(w) \/ Build(w) \/ Seed(w) \/ StartExecute(w)
    \/ CheckpointLevel(w) \/ FailNode(w) \/ FinishRun(w) \/ CancelWatcher(w)
    \/ SaveFailedState(w) \/ Dispose(w) \/ MarkParked(w) \/ FlipTerminal(w)
    \/ MarkForRetry(w) \/ ReleaseLease(w) \/ Deliver(w)

Environment ==
    \/ \E wf \in Workflows : Enqueue(wf) \/ CancelPending(wf) \/ CancelRunning(wf)
    \/ \E w \in Workers : \/ Crash(w) \/ Park(w) \/ Drain(w) \/ InfraFault(w)
                          \/ StoreFault(w) \/ BestEffortLost(w)

Next ==
    \/ Environment
    \/ \E wf \in Workflows : Tick(wf)
    \/ \E w \in Workers : Claim(w) \/ RunNext(w)

Spec == Init /\ [][Next]_vars

(* Fairness: a live worker keeps taking its next step and keeps polling, and *)
(* the clock keeps going.  Nothing is assumed of operators, of node          *)
(* outcomes, or of when adverse events happen.                               *)
Fairness == /\ \A w \in Workers : WF_vars(RunNext(w)) /\ WF_vars(Claim(w))
            /\ \A wf \in Workflows : WF_vars(Tick(wf))

FairSpec == Spec /\ Fairness

---------------------------------------------------------------------------
(* Properties *)

(* Whoever passes the fencing CAS on a workflow, in a checkpoint, a Save or  *)
(* a guarded queue update, is the worker that claimed it last: no superseded *)
(* worker gets past checkFencingLocked or the fencing_token <= held guard,   *)
(* as long as the workflow has not been through MarkForRetry.                *)
OnlyOwnerPasses ==
    \A wf \in Workflows \ requeued, w \in Workers :
        TokenGuard(lease[wf], held[w][wf]) => lease[wf].owner = w

(* A claimed row that was never requeued has a lease row, so the reclaim     *)
(* scan (which needs one) can find it again: no failure, crash, fault or     *)
(* drain between two steps of runNext strands it.                            *)
ClaimedIsReclaimable ==
    \A wf \in Workflows \ requeued :
        row[wf].state = "claimed" => Exists(lease[wf])

(* A parent is signalled only about a child whose row is terminal: the       *)
(* completion trigger is delivered after the disposition is durable.         *)
SignalAfterTerminal == \A wf \in signals : row[wf].state \in Terminal

(* A set of rows respects the global and the per-type caps (0: uncapped).    *)
WithinCap(S) ==
    /\ GlobalCap # 0 => Cardinality(S) <= GlobalCap
    /\ \A t \in Types :
          TypeCap[t] # 0 => Cardinality({wf \in S : TypeOf[wf] = t}) <= TypeCap[t]

(* The caps bound the rows that hold a running slot and are not being        *)
(* cancelled, per type and globally, whatever is claimed, parked, reclaimed, *)
(* retried or terminalized in whichever order.                               *)
RunningWithinCap == WithinCap({wf \in Running : ~row[wf].cancel})

(* A terminal row is final: no worker, reclaimer, retry or operator takes a  *)
(* workflow out of done, failed or cancelled.                                *)
TerminalIsFinal ==
    [][\A wf \in Workflows :
          row[wf].state \in Terminal => row'[wf].state = row[wf].state]_vars

(* With no retry budget left to hand out (MaxAttempts = 1), the competing    *)
(* workers implement one durable job per workflow: the fenced journal grows  *)
(* one level at a time as if by a single writer, a row is `done` only when   *)
(* the end of the run is recorded, and a settled job is never written again. *)
Job == INSTANCE DurableJob
       WITH Jobs   <- Workflows,
            phase  <- [wf \in Workflows |-> IF row[wf].state = "claimed"
                                           THEN "running" ELSE row[wf].state],
            record <- journal

ImplementsDurableJob == Job!Spec

(* The row is claimed without a lease, so no scan offers it again.  Only a   *)
(* requeued row can get there: MarkForRetry's Release makes the tokens start *)
(* again at 1, and a superseded worker that holds the same token deletes the *)
(* lease of the next claim by its own late Release.                          *)
Stranded(wf) ==
    wf \in requeued /\ row[wf].state = "claimed" /\ ~Exists(lease[wf])

(* Every submitted workflow settles, whatever finite number of crashes,      *)
(* stalls, drains, parks and store faults it meets: reclaim-after-death, the *)
(* retry budget and the caps leave a row behind in one way only, when a row  *)
(* is stranded for good (which keeps its running slot, so that others may    *)
(* wait behind a cap).                                                       *)
QueueDrains ==
    \/ \A wf \in Workflows : row[wf].state = "pending" ~> row[wf].state \in Terminal
    \/ <>[](\E wf \in Workflows : Stranded(wf))

---------------------------------------------------------------------------
(* What the documentation says, and the code does not keep.                  *)

(* Worker w's step changes the journal of its item.                          *)
WritesJournal(w) ==
    /\ item[w] # NoItem
    /\ journal'[item[w]] # journal[item[w]]
    /\ <<pc[w], mem[w]>>' # <<pc[w], mem[w]>>

(* "A superseded (zombie) write ... never lands, no matter how long the      *)
(* zombie slept past its lease": a journal write comes from the last         *)
(* claimant.                                                                 *)
ZombieNeverLands ==
    [][\A w \in Workers : WritesJournal(w) => lease[item[w]].owner = w]_vars

(* "Graceful shutdown never loses in-flight work": a row is not reported     *)
(* done over a node that failed only because the drain cancelled it.         *)
DrainLosesNothing ==
    \A wf \in Workflows : row[wf].state = "done" => journal[wf].failed # "ctx"

=============================================================================

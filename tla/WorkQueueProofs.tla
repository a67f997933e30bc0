-------------------------- MODULE WorkQueueProofs --------------------------
(***************************************************************************)
(* Proofs about WorkQueue, for any number of workers and workflows, any     *)
(* caps, retry budget, number of levels and number of adverse events.       *)
(***************************************************************************)
EXTENDS WorkQueue, FiniteSetTheorems, TLAPS

(* A worker that is inside runNext has an item. *)
HasItem == \A w \in Workers : pc[w] # "idle" => item[w] \in Workflows

TypeInv == TypeOK /\ HasItem

---------------------------------------------------------------------------
(* The lease operators return lease rows. *)

LEMMA NoLeaseType == NoLease \in Leases
  BY TTLAssumption DEF NoLease, Leases

LEMMA GrantType ==
  ASSUME NEW l \in Leases, NEW w \in Workers
  PROVE  Grant(l, w) \in Leases
  BY TTLAssumption DEF Grant, Leases, Exists

LEMMA RenewedType ==
  ASSUME NEW l \in Leases, NEW t \in Nat
  PROVE  Renewed(l, t) \in Leases
  BY TTLAssumption DEF Renewed, Leases

LEMMA ReleasedType ==
  ASSUME NEW l \in Leases, NEW t \in Nat
  PROVE  Released(l, t) \in Leases
  BY NoLeaseType DEF Released

LEMMA AgedType ==
  ASSUME NEW l \in Leases
  PROVE  Aged(l) \in Leases
  BY TTLAssumption DEF Aged, Leases

(* Moving on inside runNext, and returning from it, keep the worker typed. *)
LEMMA FinishType ==
  ASSUME NEW w \in Workers, TypeInv, Finish(w)
  PROVE  /\ pc' \in [Workers -> PCs]
         /\ item' \in [Workers -> Workflows \cup {NoItem}]
         /\ mem' \in [Workers -> Journals]
         /\ err' \in [Workers -> Errors]
         /\ HasItem'
  BY BoundsAssumption DEF TypeInv, TypeOK, HasItem, Finish, PCs, Journals, NoJournal, Errors

LEMMA GotoType ==
  ASSUME NEW w \in Workers, NEW p \in PCs, TypeInv, pc[w] # "idle", Goto(w, p),
         UNCHANGED item
  PROVE  /\ pc' \in [Workers -> PCs]
         /\ item' \in [Workers -> Workflows \cup {NoItem}]
         /\ HasItem'
  BY DEF TypeInv, TypeOK, HasItem, Goto

LEMMA WriteType ==
  ASSUME NEW w \in Workers, NEW j \in Journals, TypeInv, pc[w] # "idle", Write(w, j)
  PROVE  /\ journal' \in [Workflows -> Journals]
         /\ lease' \in [Workflows -> Leases]
<1> item[w] \in Workflows /\ Token(w) \in Nat
  BY DEF TypeInv, TypeOK, HasItem, Token
<1> lease[item[w]] \in Leases
  BY DEF TypeInv, TypeOK
<1> Renewed(lease[item[w]], Token(w)) \in Leases
  BY RenewedType
<1> QED
  BY DEF TypeInv, TypeOK, Write


LEMMA JournalType ==
  /\ NoJournal \in Journals
  /\ Seeded \in Journals
  /\ \A j \in Journals : j.lvl < Levels => Advanced(j) \in Journals
  /\ \A j \in Journals : \A why \in {"node", "ctx"} : WithFailure(j, why) \in Journals
<1>1. NoJournal \in Journals /\ Seeded \in Journals
  BY BoundsAssumption DEF NoJournal, Seeded, Journals
<1>2. ASSUME NEW j \in Journals, j.lvl < Levels PROVE Advanced(j) \in Journals
  BY <1>2, BoundsAssumption DEF Journals, Advanced
<1>3. ASSUME NEW j \in Journals, NEW why \in {"node", "ctx"}
      PROVE  WithFailure(j, why) \in Journals
  BY <1>3, BoundsAssumption DEF Journals, WithFailure
<1> QED
  BY <1>1, <1>2, <1>3

LEMMA RowType ==
  /\ NoRow \in Rows
  /\ \A r \in Rows : ClaimedRow(r) \in Rows
  /\ \A r \in Rows, s \in RowStates : [r EXCEPT !.state = s] \in Rows
<1>1. NoRow \in Rows
  BY BoundsAssumption DEF NoRow, Rows, RowStates
<1>2. ASSUME NEW r \in Rows PROVE ClaimedRow(r) \in Rows
  <2>1. /\ "claimed" \in RowStates
        /\ (IF r.attempts < MaxAttempts THEN r.attempts + 1 ELSE r.attempts) \in 0..MaxAttempts
    BY BoundsAssumption DEF Rows, RowStates
  <2> QED
    BY <2>1 DEF Rows, ClaimedRow
<1>3. ASSUME NEW r \in Rows, NEW s \in RowStates PROVE [r EXCEPT !.state = s] \in Rows
  BY DEF Rows
<1> QED
  BY <1>1, <1>2, <1>3

(* The scan offers workflows, and the claim transaction keeps its tables typed. *)
LEMMA ScanType ==
  ASSUME NEW w \in Workers, NEW scope \in Scopes(w)
  PROVE  Scan(w, scope) \subseteq Workflows
  BY DEF Scan, Eligible, Scopes

LEMMA ClaimTxType ==
  ASSUME NEW w \in Workers, NEW cleaned, NEW taken, TypeInv, ClaimTx(w, cleaned, taken)
  PROVE  /\ row' \in [Workflows -> Rows]
         /\ lease' \in [Workflows -> Leases]
         /\ signals' \in SUBSET Children
<1>1. ASSUME NEW wf \in Workflows
      PROVE  /\ [row[wf] EXCEPT !.state = "cancelled"] \in Rows
             /\ ClaimedRow(row[wf]) \in Rows
             /\ Grant(lease[wf], w) \in Leases
  <2>1. "cancelled" \in RowStates
    BY DEF RowStates, Terminal
  <2> QED
    BY <2>1, RowType, GrantType DEF TypeInv, TypeOK
<1> QED
  BY <1>1 DEF ClaimTx, TypeInv, TypeOK

---------------------------------------------------------------------------
(* Every step keeps the types. *)

LEMMA TypeInit == Init => TypeInv
  BY JournalType, NoLeaseType, RowType, BoundsAssumption
     DEF Init, TypeInv, TypeOK, HasItem, PCs, Errors

LEMMA TypeNext == TypeInv /\ [Next]_vars => TypeInv'
<1> SUFFICES ASSUME TypeInv, [Next]_vars PROVE TypeInv'
  OBVIOUS
<1> USE DEF TypeInv, TypeOK
<1>1. ASSUME NEW wf \in Workflows, Enqueue(wf) PROVE TypeInv'
  <2>1. Cardinality(Queued) + 1 \in Nat
    <3>1. IsFiniteSet(Queued)
      BY FiniteAssumption, FS_Subset DEF Queued
    <3> QED
      BY <3>1, FS_CardinalityType
  <2>2. [NoRow EXCEPT !.state = "pending", !.at = Cardinality(Queued) + 1] \in Rows
    <3>1. "pending" \in RowStates
      BY DEF RowStates
    <3> QED
      BY <2>1, <3>1, RowType DEF Rows
  <2> QED
    BY <1>1, <2>2 DEF Enqueue, worker, history, HasItem
<1>2. ASSUME NEW wf \in Workflows, CancelPending(wf) PROVE TypeInv'
  BY <1>2 DEF CancelPending, worker, history, HasItem, Rows, RowStates, Terminal
<1>3. ASSUME NEW wf \in Workflows, CancelRunning(wf) PROVE TypeInv'
  BY <1>3 DEF CancelRunning, worker, history, HasItem, Rows
<1>4. ASSUME NEW w \in Workers, NEW scope \in Scopes(w), ClaimNext(w, scope) PROVE TypeInv'
  <2> DEFINE S == Scan(w, scope)
  <2>1. PICK x \in Oldest(Takeable(w, S)) :
           /\ ClaimTx(w, CleanedBefore(S, x), {x})
           /\ held' = [held EXCEPT ![w][x] = Grant(lease[x], w).token]
           /\ item' = [item EXCEPT ![w] = x]
    BY <1>4 DEF ClaimNext
  <2>2. x \in Workflows
    BY ScanType DEF Oldest, Takeable
  <2>3. Grant(lease[x], w).token \in Nat
    BY <2>2, GrantType DEF Leases
  <2>4. row' \in [Workflows -> Rows] /\ lease' \in [Workflows -> Leases]
        /\ signals' \in SUBSET Children
    BY <2>1, ClaimTxType
  <2>5. HasItem'
    BY <1>4, <2>1, <2>2 DEF ClaimNext, HasItem
  <2> QED
    BY <1>4, <2>1, <2>2, <2>3, <2>4, <2>5 DEF ClaimNext, history, PCs
<1>5. ASSUME NEW w \in Workers, NEW scope \in Scopes(w), ClaimNoWork(w, scope) PROVE TypeInv'
  <2>1. row' \in [Workflows -> Rows] /\ lease' \in [Workflows -> Leases]
        /\ signals' \in SUBSET Children
    BY <1>5, ClaimTxType DEF ClaimNoWork
  <2> QED
    BY <1>5, <2>1 DEF ClaimNoWork, worker, history, HasItem
<1>6. ASSUME NEW w \in Workers, Reread(w) \/ BuildFails(w) \/ Build(w) PROVE TypeInv'
  <2>1. PICK p \in PCs : Goto(w, p)
    BY <1>6 DEF Reread, BuildFails, Build, PCs
  <2> QED
    BY <1>6, <2>1, GotoType DEF Reread, BuildFails, Build, At, db, history
<1>7. ASSUME NEW w \in Workers, Seed(w) PROVE TypeInv'
  <2>1. PICK p \in PCs : Goto(w, p)
    BY <1>7 DEF Seed, PCs
  <2>2. journal' \in [Workflows -> Journals] /\ lease' \in [Workflows -> Leases]
    BY <1>7, WriteType, JournalType DEF Seed, At
  <2> QED
    BY <1>7, <2>1, <2>2, GotoType DEF Seed, At, history
<1>8. ASSUME NEW w \in Workers, StartExecute(w) PROVE TypeInv'
  <2>1. Goto(w, "run") /\ "run" \in PCs /\ pc[w] # "idle" /\ UNCHANGED item
    BY <1>8 DEF StartExecute, At, PCs
  <2>2. item[w] \in Workflows
    BY <2>1 DEF HasItem
  <2> QED
    BY <1>8, <2>1, <2>2, GotoType DEF StartExecute, db, history
<1>9. ASSUME NEW w \in Workers, CheckpointLevel(w) PROVE TypeInv'
  <2>1. Advanced(mem[w]) \in Journals
    BY <1>9, JournalType DEF CheckpointLevel, Unfinished
  <2>2. journal' \in [Workflows -> Journals] /\ lease' \in [Workflows -> Leases]
    BY <1>9, <2>1, WriteType DEF CheckpointLevel, At
  <2>3. mem' \in [Workers -> Journals] /\ err' \in [Workers -> Errors]
    BY <1>9, <2>1 DEF CheckpointLevel, Errors
  <2>4. pc' \in [Workers -> PCs] /\ HasItem'
    <3>1. CASE Goto(w, "save")
      <4>1. "save" \in PCs
        BY DEF PCs
      <4> QED
        BY <1>9, <3>1, <4>1, GotoType DEF CheckpointLevel, At
    <3>2. CASE UNCHANGED pc
      BY <1>9, <3>2 DEF CheckpointLevel, HasItem
    <3> QED
      BY <1>9, <3>1, <3>2 DEF CheckpointLevel
  <2> QED
    BY <1>9, <2>2, <2>3, <2>4 DEF CheckpointLevel, history
<1>10. ASSUME NEW w \in Workers, FailNode(w) PROVE TypeInv'
  <2>1. WithFailure(mem[w], "node") \in Journals
    BY JournalType
  <2>2. Goto(w, "save") /\ "save" \in PCs /\ pc[w] # "idle" /\ UNCHANGED item
    BY <1>10 DEF FailNode, At, PCs
  <2> QED
    BY <1>10, <2>1, <2>2, GotoType DEF FailNode, db, history, Errors
<1>11. ASSUME NEW w \in Workers, FinishRun(w) \/ SaveFailedState(w) PROVE TypeInv'
  <2>1. PICK p \in PCs : Goto(w, p)
    BY <1>11 DEF FinishRun, SaveFailedState, PCs, Terminal
  <2>2. journal' \in [Workflows -> Journals] /\ lease' \in [Workflows -> Leases]
    BY <1>11, WriteType DEF FinishRun, SaveFailedState, At
  <2>3. err' \in [Workers -> Errors]
    BY <1>11 DEF FinishRun, SaveFailedState, Errors
  <2> QED
    BY <1>11, <2>1, <2>2, <2>3, GotoType DEF FinishRun, SaveFailedState, At, history
<1>12. ASSUME NEW w \in Workers, CancelWatcher(w) \/ Drain(w) PROVE TypeInv'
  <2>0. ContextCancelled(w) /\ faults' \in 0..MaxFaults /\ UNCHANGED requeued
    BY <1>12, BoundsAssumption DEF CancelWatcher, Drain, Fault, history
  <2>1. PICK p \in PCs : Goto(w, p) /\ pc[w] # "idle" /\ UNCHANGED item
    BY <2>0 DEF ContextCancelled, At, PCs
  <2>2. mem' \in [Workers -> Journals]
    <3>1. Unfinished(w) => Advanced(mem[w]) \in Journals
      BY JournalType DEF Unfinished
    <3>2. WithFailure(mem[w], "ctx") \in Journals
      BY JournalType
    <3> QED
      BY <2>0, <3>1, <3>2 DEF ContextCancelled
  <2> QED
    BY <2>0, <2>1, <2>2, GotoType DEF ContextCancelled, db, Errors
<1>13. ASSUME NEW w \in Workers, Dispose(w) PROVE TypeInv'
  <2>1. PICK p \in PCs : Goto(w, p)
    BY <1>13 DEF Dispose, PCs
  <2> QED
    BY <1>13, <2>1, GotoType DEF Dispose, At, db, history
<1>14. ASSUME NEW w \in Workers, MarkParked(w) PROVE TypeInv'
  <2>1. row' \in [Workflows -> Rows]
    <3>1. ASSUME NEW r \in Rows PROVE [r EXCEPT !.attempts = 0, !.parked = TRUE] \in Rows
      <4>1. 0 \in 0..MaxAttempts
        BY BoundsAssumption
      <4> QED
        BY <4>1, Zenon DEF Rows
    <3> QED
      BY <1>14, <3>1 DEF MarkParked
  <2> QED
    BY <1>14, <2>1, FinishType DEF MarkParked, history
<1>15. ASSUME NEW w \in Workers, FlipTerminal(w) PROVE TypeInv'
  <2>1. PICK p \in PCs : Goto(w, p)
    BY <1>15 DEF FlipTerminal, PCs
  <2>2. pc[w] # "idle" /\ pc[w] \in RowStates
    BY <1>15 DEF FlipTerminal, Terminal, RowStates
  <2>3. row' \in [Workflows -> Rows]
    BY <1>15, <2>2 DEF FlipTerminal, Rows
  <2> QED
    BY <1>15, <2>1, <2>2, <2>3, GotoType DEF FlipTerminal, history
<1>16. ASSUME NEW w \in Workers, MarkForRetry(w) PROVE TypeInv'
  <2>1. PICK p \in PCs : Goto(w, p)
    BY <1>16 DEF MarkForRetry, PCs
  <2>2. pc[w] # "idle" /\ item[w] \in Workflows /\ "pending" \in RowStates
    BY <1>16 DEF MarkForRetry, At, RowStates, HasItem
  <2>3. row' \in [Workflows -> Rows]
    <3>1. \/ row' = [row EXCEPT ![item[w]].state = "pending"]
          \/ row' = row
      BY <1>16 DEF MarkForRetry
    <3> QED
      BY <2>2, <3>1, RowType
  <2>4. requeued' \in SUBSET Workflows
    BY <1>16, <2>2 DEF MarkForRetry
  <2> QED
    BY <1>16, <2>1, <2>2, <2>3, <2>4, GotoType DEF MarkForRetry
<1>17. ASSUME NEW w \in Workers, ReleaseLease(w) PROVE TypeInv'
  <2>1. Goto(w, "deliver") /\ "deliver" \in PCs /\ pc[w] # "idle"
    BY <1>17 DEF ReleaseLease, At, PCs
  <2>2. item[w] \in Workflows /\ Token(w) \in Nat
    BY <2>1 DEF HasItem, Token
  <2>3. lease' \in [Workflows -> Leases]
    BY <1>17, <2>2, ReleasedType DEF ReleaseLease
  <2> QED
    BY <1>17, <2>1, <2>2, <2>3, GotoType DEF ReleaseLease, history
<1>18. ASSUME NEW w \in Workers, Deliver(w) PROVE TypeInv'
  BY <1>18, FinishType DEF Deliver, history
<1>19. ASSUME NEW w \in Workers, Crash(w) \/ BestEffortLost(w) PROVE TypeInv'
  <2>1. faults' \in 0..MaxFaults
    BY <1>19, BoundsAssumption DEF Crash, BestEffortLost, Fault
  <2>2. held' \in [Workers -> [Workflows -> Nat]]
    BY <1>19 DEF Crash, BestEffortLost
  <2> QED
    BY <1>19, <2>1, <2>2, FinishType DEF Crash, BestEffortLost, db
<1>20. ASSUME NEW w \in Workers, Park(w) PROVE TypeInv'
  <2>1. PICK p \in PCs : Goto(w, p)
    BY <1>20 DEF Park, PCs
  <2>2. journal' \in [Workflows -> Journals] /\ lease' \in [Workflows -> Leases]
    BY <1>20, WriteType DEF Park, At
  <2>3. err' \in [Workers -> Errors] /\ faults' \in 0..MaxFaults
    BY <1>20, BoundsAssumption DEF Park, Errors, Fault
  <2> QED
    BY <1>20, <2>1, <2>2, <2>3, GotoType DEF Park, At
<1>21. ASSUME NEW w \in Workers, InfraFault(w) PROVE TypeInv'
  <2>1. PICK p \in PCs : Goto(w, p) /\ pc[w] # "idle" /\ UNCHANGED item
    BY <1>21 DEF InfraFault, At, PCs
  <2>2. mem' \in [Workers -> Journals]
    <3>1. Unfinished(w) => Advanced(mem[w]) \in Journals
      BY JournalType DEF Unfinished
    <3> QED
      BY <1>21, <3>1 DEF InfraFault
  <2>3. err' \in [Workers -> Errors] /\ faults' \in 0..MaxFaults
    BY <1>21, BoundsAssumption DEF InfraFault, Errors, Fault
  <2> QED
    BY <1>21, <2>1, <2>2, <2>3, GotoType DEF InfraFault, db
<1>22. ASSUME NEW w \in Workers, StoreFault(w) PROVE TypeInv'
  <2>1. pc[w] # "idle" /\ AfterFault[pc[w]] \in PCs
    BY <1>22 DEF StoreFault, AfterFault, PCs, Terminal
  <2>2. faults' \in 0..MaxFaults
    BY <1>22, BoundsAssumption DEF StoreFault, Fault
  <2> QED
    BY <1>22, <2>1, <2>2, GotoType DEF StoreFault, db
<1>23. ASSUME NEW wf \in Workflows, Tick(wf) PROVE TypeInv'
  <2>1. faults' \in 0..MaxFaults
    BY <1>23, BoundsAssumption DEF Tick, Fault
  <2>2. lease' \in [Workflows -> Leases]
    BY <1>23, AgedType DEF Tick
  <2> QED
    BY <1>23, <2>1, <2>2 DEF Tick, worker, HasItem
<1>24. ASSUME UNCHANGED vars PROVE TypeInv'
  BY <1>24 DEF vars, db, worker, history, HasItem
<1> QED
  BY <1>1, <1>2, <1>3, <1>4, <1>5, <1>6, <1>7, <1>8, <1>9, <1>10, <1>11, <1>12, <1>13,
     <1>14, <1>15, <1>16, <1>17, <1>18, <1>19, <1>20, <1>21, <1>22, <1>23, <1>24
     DEF Next, Environment, Claim, RunNext

(* Every reachable state of the queue, its leases and its workers is typed;  *)
(* in particular attempts never exceeds the retry budget and a worker inside *)
(* runNext always holds an item.                                             *)
THEOREM TypeCorrect == Spec => []TypeOK
<1>1. TypeInv => TypeOK
  BY DEF TypeInv
<1> QED
  BY <1>1, TypeInit, TypeNext, PTL DEF Spec

---------------------------------------------------------------------------
(* Fencing.  The tokens of a workflow that was never requeued only grow      *)
(* while its row is claimed: before its first claim there is no lease and no *)
(* held token, a released lease belongs to a terminal row (which is never    *)
(* claimed again), and between the two every held token is at most the       *)
(* current one, and equal to it only for the current owner.                  *)

Unclaimed(wf) == row[wf].state \in {"absent", "pending"} =>
                    /\ ~Exists(lease[wf])
                    /\ \A w \in Workers : held[w][wf] = 0

TokensOrdered(wf) ==
    Exists(lease[wf]) => \A w \in Workers :
        /\ held[w][wf] <= lease[wf].token
        /\ held[w][wf] = lease[wf].token => lease[wf].owner = w

ClaimedHasLease(wf) == row[wf].state = "claimed" => Exists(lease[wf])

ReleaseIsLast(wf) == \A w \in Workers :
    pc[w] = "release" /\ item[w] = wf => row[wf].state \in Terminal

Fence(wf) == /\ Unclaimed(wf)
             /\ TokensOrdered(wf)
             /\ ClaimedHasLease(wf)
             /\ ReleaseIsLast(wf)

FenceInv == \A wf \in Workflows \ requeued : Fence(wf)

(* Where the row, owner and token of a step's lease stay, tokens are at most *)
(* dropped and no worker is sent to release a live row, fencing is kept.     *)
LEMMA FenceFrame ==
  ASSUME NEW wf \in Workflows, TypeInv, TypeInv', Fence(wf),
         \/ row'[wf].state = row[wf].state
         \/ row[wf].state = "absent" /\ row'[wf].state = "pending"
         \/ row'[wf].state \in Terminal,
         lease'[wf].token = lease[wf].token,
         lease'[wf].owner = lease[wf].owner,
         \A w \in Workers : held'[w][wf] \in {held[w][wf], 0},
         \A w \in Workers : pc'[w] = "release" /\ item'[w] = wf =>
            \/ pc[w] = "release" /\ item[w] = wf
            \/ row'[wf].state \in Terminal
  PROVE  Fence(wf)'
<1>1. /\ lease[wf].token \in Nat /\ lease'[wf].token \in Nat
      /\ \A w \in Workers : held[w][wf] \in Nat /\ held'[w][wf] \in Nat
  BY DEF TypeInv, TypeOK, Leases
<1>2. Unclaimed(wf)'
  BY DEF Fence, Unclaimed, Exists, Terminal
<1>3. TokensOrdered(wf)'
  BY <1>1 DEF Fence, TokensOrdered, Exists
<1>4. ClaimedHasLease(wf)'
  BY DEF Fence, ClaimedHasLease, Exists, Terminal
<1>5. ReleaseIsLast(wf)'
  BY DEF Fence, ReleaseIsLast, Terminal
<1> QED
  BY <1>2, <1>3, <1>4, <1>5 DEF Fence

(* Renewing and ageing touch neither the owner nor the token. *)
LEMMA LeaseKept ==
  ASSUME NEW l \in Leases, NEW t \in Nat
  PROVE  /\ Renewed(l, t).owner = l.owner /\ Renewed(l, t).token = l.token
         /\ Aged(l).owner = l.owner /\ Aged(l).token = l.token
  BY DEF Leases, Renewed, Aged

LEMMA WriteKept ==
  ASSUME NEW w \in Workers, NEW j, NEW wf \in Workflows, TypeInv, pc[w] # "idle", Write(w, j)
  PROVE  lease'[wf].token = lease[wf].token /\ lease'[wf].owner = lease[wf].owner
<1>1. lease[item[w]] \in Leases /\ Token(w) \in Nat /\ item[w] \in Workflows
  BY DEF TypeInv, TypeOK, HasItem, Token
<1> QED
  BY <1>1, LeaseKept DEF Write, TypeInv, TypeOK

(* A claim of an unclaimed row starts at token 1 with no token held; a       *)
(* reclaim, and the terminalization of a cancelled row, raise the token      *)
(* above every held one.                                                     *)
LEMMA FenceClaim ==
  ASSUME NEW w \in Workers, NEW scope \in Scopes(w), NEW wf \in Workflows,
         NEW cleaned, NEW taken,
         TypeInv, TypeInv', Fence(wf),
         cleaned \subseteq CancelSet(Scan(w, scope)),
         taken \subseteq Scan(w, scope) \ CancelSet(Scan(w, scope)),
         ClaimTx(w, cleaned, taken),
         \A v \in Workers : held'[v][wf] = IF wf \in taken /\ v = w
                                           THEN Grant(lease[wf], w).token ELSE held[v][wf],
         \A v \in Workers : pc'[v] = "release" => pc[v] = "release" /\ item'[v] = item[v]
  PROVE  Fence(wf)'
<1>1. /\ lease[wf] \in Leases /\ lease'[wf] \in Leases /\ row[wf] \in Rows /\ row'[wf] \in Rows
      /\ \A v \in Workers : held[v][wf] \in Nat /\ held'[v][wf] \in Nat
  BY DEF TypeInv, TypeOK
<1>2. CASE wf \in cleaned
  <2>1. Exists(lease[wf]) /\ lease[wf].left < 0 /\ row[wf].state = "claimed"
    BY <1>2 DEF CancelSet, Scan
  <2>2. wf \notin taken
    BY <1>2
  <2>3. /\ row'[wf].state = "cancelled"
        /\ lease'[wf] = Grant(lease[wf], w)
    BY <1>1, <1>2 DEF ClaimTx, Rows
  <2>4. lease'[wf].token = lease[wf].token + 1
    BY <1>1, <2>1, <2>3 DEF Grant, Leases
  <2>5. TokensOrdered(wf)'
    BY <1>1, <2>1, <2>2, <2>4 DEF Fence, TokensOrdered, Leases
  <2> QED
    BY <2>3, <2>5 DEF Fence, Unclaimed, ClaimedHasLease, ReleaseIsLast, Terminal
<1>3. CASE wf \in taken
  <2>1. wf \notin cleaned
    BY <1>3
  <2>2. /\ row'[wf].state = "claimed"
        /\ lease'[wf] = Grant(lease[wf], w)
    BY <1>1, <1>3, <2>1 DEF ClaimTx, ClaimedRow, Rows
  <2>3. /\ lease'[wf].owner = w
        /\ \A v \in Workers \ {w} : held'[v][wf] < lease'[wf].token
        /\ held'[w][wf] = lease'[wf].token
        /\ lease'[wf].token # 0
    <3>1. CASE row[wf].state = "pending"
      BY <1>1, <1>3, <2>2, <3>1 DEF Fence, Unclaimed, Grant, Leases
    <3>2. CASE row[wf].state = "claimed" /\ Exists(lease[wf]) /\ lease[wf].left < 0
      <4>1. lease'[wf].token = lease[wf].token + 1 /\ lease'[wf].owner = w
        BY <1>1, <2>2, <3>2 DEF Grant, Leases
      <4>2. \A v \in Workers \ {w} : held'[v][wf] <= lease[wf].token
        BY <1>3, <3>2 DEF Fence, TokensOrdered
      <4>3. lease[wf].token \in Nat
        BY <1>1 DEF Leases
      <4> QED
        BY <1>1, <1>3, <2>2, <4>1, <4>2, <4>3
    <3> QED
      BY <1>3, <3>1, <3>2 DEF Scan
  <2>4. lease'[wf].token \in Nat
    BY <1>1 DEF Leases
  <2>5. TokensOrdered(wf)'
    BY <1>1, <2>3, <2>4 DEF TokensOrdered
  <2>6. ReleaseIsLast(wf)'
    <3>1. row[wf].state \notin Terminal
      BY <1>3 DEF Scan, Terminal
    <3> QED
      BY <3>1 DEF Fence, ReleaseIsLast
  <2> QED
    BY <2>2, <2>3, <2>5, <2>6 DEF Fence, Unclaimed, ClaimedHasLease, Exists
<1>4. CASE wf \notin cleaned \cup taken
  BY <1>1, <1>4, FenceFrame DEF ClaimTx
<1> QED
  BY <1>2, <1>3, <1>4

LEMMA FenceInit == Init => FenceInv
  BY DEF Init, FenceInv, Fence, Unclaimed, TokensOrdered, ClaimedHasLease, ReleaseIsLast,
         NoRow, NoLease, Exists

LEMMA FenceNext == TypeInv /\ TypeInv' /\ FenceInv /\ [Next]_vars => FenceInv'
<1> SUFFICES ASSUME TypeInv, TypeInv', FenceInv, [Next]_vars,
                    NEW wf \in Workflows \ requeued'
             PROVE  Fence(wf)'
  BY DEF FenceInv
<1>0. wf \notin requeued
  BY DEF Next, Environment, Claim, RunNext, vars, Enqueue, CancelPending, CancelRunning, Crash,
         Park, Drain, InfraFault, StoreFault, BestEffortLost, Tick, ClaimNext, ClaimNoWork,
         Reread, BuildFails, Build, Seed, StartExecute, CheckpointLevel, FailNode, FinishRun,
         CancelWatcher, SaveFailedState, Dispose, MarkParked, FlipTerminal, MarkForRetry,
         ReleaseLease, Deliver, history
<1>00. Fence(wf)
  BY <1>0 DEF FenceInv
<1> USE <1>00
<1>1. ASSUME NEW x \in Workflows, Enqueue(x) \/ CancelPending(x) \/ CancelRunning(x)
      PROVE  Fence(wf)'
  <2>1. \/ row'[wf].state = row[wf].state
        \/ row[wf].state = "absent" /\ row'[wf].state = "pending"
        \/ row'[wf].state \in Terminal
    <3> row[wf] \in Rows /\ row[x] \in Rows /\ row \in [Workflows -> Rows]
      BY DEF TypeInv, TypeOK
    <3>1. CASE Enqueue(x)
      BY <3>1 DEF Enqueue, NoRow
    <3>2. CASE CancelPending(x)
      BY <3>2 DEF CancelPending, Rows, Terminal
    <3>3. CASE CancelRunning(x)
      BY <3>3 DEF CancelRunning, Rows
    <3> QED
      BY <1>1, <3>1, <3>2, <3>3
  <2> QED
    BY <1>1, <2>1, FenceFrame DEF Enqueue, CancelPending, CancelRunning, worker
<1>2. ASSUME NEW w \in Workers, NEW scope \in Scopes(w), ClaimNext(w, scope)
      PROVE  Fence(wf)'
  <2> DEFINE S == Scan(w, scope)
  <2>1. PICK x \in Oldest(Takeable(w, S)) :
           /\ ClaimTx(w, CleanedBefore(S, x), {x})
           /\ held' = [held EXCEPT ![w][x] = Grant(lease[x], w).token]
           /\ item' = [item EXCEPT ![w] = x]
    BY <1>2 DEF ClaimNext
  <2>2. x \in S \ CancelSet(S) /\ CleanedBefore(S, x) \subseteq CancelSet(S)
    BY DEF Oldest, Takeable, CleanedBefore
  <2>3. \A v \in Workers : held'[v][wf] = IF wf \in {x} /\ v = w
                                          THEN Grant(lease[wf], w).token ELSE held[v][wf]
    BY <2>1 DEF TypeInv, TypeOK
  <2>4. \A v \in Workers : pc'[v] = "release" => pc[v] = "release" /\ item'[v] = item[v]
    BY <1>2, <2>1 DEF ClaimNext, TypeInv, TypeOK
  <2> QED
    BY <2>1, <2>2, <2>3, <2>4, FenceClaim
<1>3. ASSUME NEW w \in Workers, NEW scope \in Scopes(w), ClaimNoWork(w, scope)
      PROVE  Fence(wf)'
  BY <1>3, FenceClaim DEF ClaimNoWork, worker
<1>4. ASSUME NEW w \in Workers,
             \/ Reread(w) \/ BuildFails(w) \/ Build(w) \/ StartExecute(w) \/ FailNode(w)
             \/ CancelWatcher(w) \/ Drain(w) \/ Dispose(w) \/ InfraFault(w) \/ StoreFault(w)
      PROVE  Fence(wf)'
  <2>1. UNCHANGED <<row, lease, held, item>>
    BY <1>4 DEF Reread, BuildFails, Build, StartExecute, FailNode, CancelWatcher, Drain,
                ContextCancelled, Dispose, InfraFault, StoreFault, db
  <2>2. PICK p \in PCs \ {"release"} : Goto(w, p)
    BY <1>4 DEF Reread, BuildFails, Build, StartExecute, FailNode, CancelWatcher, Drain,
                ContextCancelled, Dispose, InfraFault, StoreFault, AfterFault, Terminal, PCs
  <2>3. \A v \in Workers : pc'[v] = "release" => pc[v] = "release"
    BY <2>2 DEF Goto, TypeInv, TypeOK
  <2> QED
    BY <2>1, <2>3, FenceFrame
<1>5. ASSUME NEW w \in Workers,
             Seed(w) \/ CheckpointLevel(w) \/ FinishRun(w) \/ SaveFailedState(w) \/ Park(w)
      PROVE  Fence(wf)'
  <2>1. UNCHANGED <<row, held, item>> /\ pc[w] # "idle"
    BY <1>5 DEF Seed, CheckpointLevel, FinishRun, SaveFailedState, Park, At
  <2>2. UNCHANGED lease \/ \E j : Write(w, j)
    BY <1>5 DEF Seed, CheckpointLevel, FinishRun, SaveFailedState, Park
  <2>3. lease'[wf].token = lease[wf].token /\ lease'[wf].owner = lease[wf].owner
    BY <2>1, <2>2, WriteKept
  <2>4. UNCHANGED pc \/ \E p \in PCs \ {"release"} : Goto(w, p)
    BY <1>5 DEF Seed, CheckpointLevel, FinishRun, SaveFailedState, Park, PCs
  <2>5. \A v \in Workers : pc'[v] = "release" => pc[v] = "release"
    BY <2>4 DEF Goto, TypeInv, TypeOK
  <2> QED
    BY <2>1, <2>3, <2>5, FenceFrame
<1>6. ASSUME NEW w \in Workers, MarkParked(w) \/ Deliver(w) \/ Crash(w) \/ BestEffortLost(w)
      PROVE  Fence(wf)'
  <2>1. UNCHANGED lease /\ Finish(w)
    BY <1>6 DEF MarkParked, Deliver, Crash, BestEffortLost, db
  <2>2. row'[wf].state = row[wf].state
    <3> row \in [Workflows -> Rows] /\ row[wf] \in Rows
      BY DEF TypeInv, TypeOK
    <3>1. CASE MarkParked(w)
      BY <3>1 DEF MarkParked, Rows
    <3> QED
      BY <1>6, <3>1 DEF Deliver, Crash, BestEffortLost, db
  <2>3. \A v \in Workers : held'[v][wf] \in {held[v][wf], 0}
    BY <1>6 DEF MarkParked, Deliver, Crash, BestEffortLost, TypeInv, TypeOK
  <2>4. \A v \in Workers : pc'[v] = "release" => pc[v] = "release" /\ item'[v] = item[v]
    BY <2>1 DEF Finish, TypeInv, TypeOK
  <2> QED
    BY <2>1, <2>2, <2>3, <2>4, FenceFrame
<1>7. ASSUME NEW w \in Workers, FlipTerminal(w) PROVE Fence(wf)'
  <2>1. row \in [Workflows -> Rows] /\ row[wf] \in Rows /\ item[w] \in Workflows
    BY <1>7 DEF FlipTerminal, TypeInv, TypeOK, HasItem, Terminal
  <2>2. row'[wf].state = row[wf].state \/ row'[wf].state \in Terminal
    BY <1>7, <2>1 DEF FlipTerminal, Rows
  <2>3. \A v \in Workers : pc'[v] = "release" /\ item'[v] = wf =>
            \/ pc[v] = "release" /\ item[v] = wf
            \/ row'[wf].state \in Terminal
    BY <1>7, <2>1 DEF FlipTerminal, Goto, TypeInv, TypeOK, Rows
  <2> QED
    BY <1>7, <2>2, <2>3, FenceFrame DEF FlipTerminal
<1>8. ASSUME NEW w \in Workers, MarkForRetry(w) PROVE Fence(wf)'
  <2>1. row \in [Workflows -> Rows] /\ row[wf] \in Rows /\ item[w] \in Workflows
    BY <1>8 DEF MarkForRetry, At, TypeInv, TypeOK, HasItem
  <2>2. row'[wf].state = row[wf].state
    BY <1>8, <2>1 DEF MarkForRetry, Rows
  <2>3. \A v \in Workers : pc'[v] = "release" /\ item'[v] = wf =>
            pc[v] = "release" /\ item[v] = wf
    BY <1>8, <2>1 DEF MarkForRetry, Goto, TypeInv, TypeOK
  <2> QED
    BY <1>8, <2>2, <2>3, FenceFrame DEF MarkForRetry
<1>9. ASSUME NEW w \in Workers, ReleaseLease(w) PROVE Fence(wf)'
  <2>1. \A v \in Workers : pc'[v] = "release" => pc[v] = "release"
    BY <1>9 DEF ReleaseLease, Goto, TypeInv, TypeOK
  <2>2. CASE item[w] # wf
    <3>1. lease'[wf] = lease[wf] /\ \A v \in Workers : held'[v][wf] = held[v][wf]
      BY <1>9, <2>2 DEF ReleaseLease, TypeInv, TypeOK
    <3> QED
      BY <1>9, <2>1, <3>1, FenceFrame DEF ReleaseLease
  <2>3. CASE item[w] = wf
    <3>1. row'[wf].state \in Terminal
      BY <1>9, <2>3 DEF ReleaseLease, At, Fence, ReleaseIsLast
    <3>2. lease'[wf] = NoLease \/ lease'[wf] = lease[wf]
      BY <1>9, <2>3 DEF ReleaseLease, Released, TypeInv, TypeOK
    <3>3. \A v \in Workers : held'[v][wf] \in {held[v][wf], 0}
      BY <1>9, <2>3 DEF ReleaseLease, TypeInv, TypeOK
    <3>4. CASE lease'[wf] = lease[wf]
      BY <1>9, <2>1, <3>1, <3>3, <3>4, FenceFrame DEF ReleaseLease
    <3>5. CASE lease'[wf] = NoLease
      BY <3>1, <3>5 DEF Fence, Unclaimed, TokensOrdered, ClaimedHasLease, ReleaseIsLast,
                        NoLease, Exists, Terminal
    <3> QED
      BY <3>2, <3>4, <3>5
  <2> QED
    BY <2>2, <2>3
<1>10. ASSUME NEW x \in Workflows, Tick(x) PROVE Fence(wf)'
  <2>1. lease'[wf].token = lease[wf].token /\ lease'[wf].owner = lease[wf].owner
    BY <1>10, LeaseKept DEF Tick, TypeInv, TypeOK
  <2> QED
    BY <1>10, <2>1, FenceFrame DEF Tick, worker
<1>11. ASSUME UNCHANGED vars PROVE Fence(wf)'
  BY <1>11, FenceFrame DEF vars, db, worker
<1> QED
  BY <1>1, <1>2, <1>3, <1>4, <1>5, <1>6, <1>7, <1>8, <1>9, <1>10, <1>11
     DEF Next, Environment, Claim, RunNext

(* No superseded worker passes checkFencingLocked or the token guard of a    *)
(* queue update on a workflow that MarkForRetry has never put back, however  *)
(* many workers, reclaims, crashes and stalls there are.                     *)
THEOREM FencingHolds == Spec => []OnlyOwnerPasses
<1>1. TypeInv /\ FenceInv => OnlyOwnerPasses
  <2> SUFFICES ASSUME TypeInv, FenceInv, NEW wf \in Workflows \ requeued, NEW w \in Workers,
                      TokenGuard(lease[wf], held[w][wf])
               PROVE  lease[wf].owner = w
    BY DEF OnlyOwnerPasses
  <2>1. lease[wf].token \in Nat /\ held[w][wf] \in Nat
    BY DEF TypeInv, TypeOK, Leases
  <2> QED
    BY <2>1 DEF FenceInv, Fence, TokensOrdered, TokenGuard
<1> QED
  BY <1>1, TypeInit, TypeNext, FenceInit, FenceNext, PTL DEF Spec

(* The reclaim scan can always find a claimed row that was never requeued:   *)
(* its lease row exists.                                                     *)
THEOREM ReclaimHolds == Spec => []ClaimedIsReclaimable
<1>1. FenceInv => ClaimedIsReclaimable
  BY DEF FenceInv, Fence, ClaimedHasLease, ClaimedIsReclaimable
<1> QED
  BY <1>1, TypeInit, TypeNext, FenceInit, FenceNext, PTL DEF Spec

---------------------------------------------------------------------------
(* Settled rows. *)

(* The rows a claim transaction changes were pending or claimed. *)
LEMMA ClaimSparesTerminal ==
  ASSUME NEW w \in Workers, NEW scope \in Scopes(w), NEW wf \in Workflows,
         NEW cleaned \in SUBSET Scan(w, scope), NEW taken \in SUBSET Scan(w, scope),
         ClaimTx(w, cleaned, taken), row[wf].state \in Terminal
  PROVE  row'[wf] = row[wf]
<1>1. wf \notin Scan(w, scope)
  BY DEF Scan, Terminal
<1> QED
  BY <1>1 DEF ClaimTx

LEMMA TerminalStep ==
  ASSUME TypeInv, [Next]_vars, NEW wf \in Workflows, row[wf].state \in Terminal
  PROVE  row'[wf].state = row[wf].state
<1> row \in [Workflows -> Rows] /\ row[wf] \in Rows
  BY DEF TypeInv, TypeOK
<1>1. ASSUME NEW x \in Workflows, Enqueue(x) \/ CancelPending(x) \/ CancelRunning(x) \/ Tick(x)
      PROVE  row'[wf] = row[wf]
  BY <1>1 DEF Enqueue, CancelPending, CancelRunning, Tick, Terminal
<1>2. ASSUME NEW w \in Workers, NEW scope \in Scopes(w),
             ClaimNext(w, scope) \/ ClaimNoWork(w, scope)
      PROVE  row'[wf] = row[wf]
  <2>1. PICK cleaned \in SUBSET Scan(w, scope), taken \in SUBSET Scan(w, scope) :
           ClaimTx(w, cleaned, taken)
    BY <1>2 DEF ClaimNext, ClaimNoWork, Oldest, Takeable, CleanedBefore, CancelSet
  <2> QED
    BY <2>1, ClaimSparesTerminal
<1>3. ASSUME NEW w \in Workers, MarkParked(w) \/ FlipTerminal(w) \/ MarkForRetry(w)
      PROVE  row'[wf] = row[wf]
  BY <1>3 DEF MarkParked, FlipTerminal, MarkForRetry, Terminal
<1>4. ASSUME NEW w \in Workers,
             RunNext(w) /\ ~(MarkParked(w) \/ FlipTerminal(w) \/ MarkForRetry(w))
      PROVE  row' = row
  BY <1>4 DEF RunNext, Reread, BuildFails, Build, Seed, StartExecute, CheckpointLevel, FailNode,
              FinishRun, CancelWatcher, ContextCancelled, SaveFailedState, Dispose,
              ReleaseLease, Deliver, db
<1>5. ASSUME NEW w \in Workers, \/ Crash(w) \/ Park(w) \/ Drain(w) \/ InfraFault(w)
                                \/ StoreFault(w) \/ BestEffortLost(w)
      PROVE  row' = row
  BY <1>5 DEF Crash, Park, Drain, ContextCancelled, InfraFault, StoreFault, BestEffortLost, db
<1>6. CASE UNCHANGED vars
  BY <1>6 DEF vars, db
<1> QED
  BY <1>1, <1>2, <1>3, <1>4, <1>5, <1>6 DEF Next, Environment, Claim

(* No worker, reclaimer, retry or operator takes a workflow out of done,     *)
(* failed or cancelled.                                                      *)
THEOREM TerminalHolds == Spec => TerminalIsFinal
<1>1. TypeInv /\ [Next]_vars =>
        [\A wf \in Workflows : row[wf].state \in Terminal => row'[wf].state = row[wf].state]_vars
  BY TerminalStep
<1> QED
  BY <1>1, TypeInit, TypeNext, PTL DEF Spec, TerminalIsFinal

(* A step adds only terminal children to the mailbox. *)
LEMMA SignalStep ==
  ASSUME TypeInv, [Next]_vars, NEW wf \in signals' \ signals
  PROVE  row'[wf].state \in Terminal
<1>1. ASSUME NEW w \in Workers, NEW scope \in Scopes(w), NEW S, NEW taken, NEW cleaned,
             S = Scan(w, scope), cleaned \subseteq CancelSet(S), ClaimTx(w, cleaned, taken)
      PROVE  row'[wf].state \in Terminal
  <2>1. wf \in cleaned /\ wf \in Workflows
    BY <1>1, ChildrenAssumption DEF ClaimTx
  <2> QED
    BY <1>1, <2>1 DEF ClaimTx, TypeInv, TypeOK, Rows, Terminal
<1>2. ASSUME NEW w \in Workers, NEW scope \in Scopes(w),
             ClaimNext(w, scope) \/ ClaimNoWork(w, scope)
      PROVE  row'[wf].state \in Terminal
  <2>1. PICK cleaned \in SUBSET CancelSet(Scan(w, scope)), taken \in SUBSET Workflows :
           ClaimTx(w, cleaned, taken)
    BY <1>2, ScanType DEF ClaimNext, ClaimNoWork, CleanedBefore, Oldest, Takeable
  <2> QED
    BY <1>1, <2>1
<1>3. ASSUME NEW w \in Workers, Deliver(w) PROVE row'[wf].state \in Terminal
  BY <1>3 DEF Deliver
<1>4. ASSUME NEW w \in Workers, RunNext(w), ~Deliver(w) PROVE signals' = signals
  BY <1>4 DEF RunNext, Reread, BuildFails, Build, Seed, StartExecute, CheckpointLevel, FailNode,
              FinishRun, CancelWatcher, ContextCancelled, SaveFailedState, Dispose,
              ReleaseLease, MarkParked, FlipTerminal, MarkForRetry, db
<1>5. ASSUME NEW w \in Workers, \/ Crash(w) \/ Park(w) \/ Drain(w) \/ InfraFault(w)
                                \/ StoreFault(w) \/ BestEffortLost(w)
      PROVE  signals' = signals
  BY <1>5 DEF Crash, Park, Drain, ContextCancelled, InfraFault, StoreFault, BestEffortLost, db
<1>6. ASSUME NEW x \in Workflows, Enqueue(x) \/ CancelPending(x) \/ CancelRunning(x) \/ Tick(x)
      PROVE  signals' = signals
  BY <1>6 DEF Enqueue, CancelPending, CancelRunning, Tick
<1>7. CASE UNCHANGED vars
  BY <1>7 DEF vars, db
<1> QED
  BY <1>2, <1>3, <1>4, <1>5, <1>6, <1>7 DEF Next, Environment, Claim

(* A parent is never woken about a child whose row is not yet terminal, on   *)
(* the dispatch path or on the reclaimer's.                                  *)
THEOREM SignalHolds == Spec => []SignalAfterTerminal
<1>1. Init => SignalAfterTerminal
  BY DEF Init, SignalAfterTerminal
<1>2. TypeInv /\ TypeInv' /\ SignalAfterTerminal /\ [Next]_vars => SignalAfterTerminal'
  <2> SUFFICES ASSUME TypeInv, TypeInv', SignalAfterTerminal, [Next]_vars, NEW wf \in signals'
               PROVE  row'[wf].state \in Terminal
    BY DEF SignalAfterTerminal
  <2>1. wf \in Workflows
    BY ChildrenAssumption DEF TypeInv, TypeOK
  <2>2. CASE wf \in signals
    BY <2>1, <2>2, TerminalStep DEF SignalAfterTerminal
  <2>3. CASE wf \notin signals
    BY <2>3, SignalStep
  <2> QED
    BY <2>2, <2>3
<1> QED
  BY <1>1, <1>2, TypeInit, TypeNext, PTL DEF Spec

---------------------------------------------------------------------------
(* The caps. *)

Slots == {wf \in Running : ~row[wf].cancel}

(* Caps are kept by a smaller set of rows, and by one more row where         *)
(* claimWouldExceedCap found room for it.                                    *)
LEMMA FewerWithinCap ==
  ASSUME NEW S \in SUBSET Workflows, NEW T \in SUBSET S, WithinCap(S)
  PROVE  WithinCap(T)
<1>1. IsFiniteSet(S)
  BY FiniteAssumption, FS_Subset
<1>2. Cardinality(T) <= Cardinality(S) /\ Cardinality(T) \in Nat /\ Cardinality(S) \in Nat
  BY <1>1, FS_Subset, FS_CardinalityType
<1>3. ASSUME NEW t \in Types, TypeCap[t] # 0
      PROVE  Cardinality({wf \in T : TypeOf[wf] = t}) <= TypeCap[t]
  <2> DEFINE St == {wf \in S : TypeOf[wf] = t}
             Tt == {wf \in T : TypeOf[wf] = t}
  <2>1. IsFiniteSet(St) /\ Tt \in SUBSET St
    BY <1>1, FS_Subset
  <2> HIDE DEF St, Tt
  <2>2. Cardinality(Tt) <= Cardinality(St) /\ Cardinality(Tt) \in Nat /\ Cardinality(St) \in Nat
    BY <2>1, FS_Subset, FS_CardinalityType
  <2>3. Cardinality(St) <= TypeCap[t]
    BY <1>3 DEF WithinCap, St
  <2>4. TypeCap[t] \in Nat
    BY TypeAssumption
  <2>5. Cardinality(Tt) <= TypeCap[t]
    BY <2>2, <2>3, <2>4
  <2> QED
    BY <2>5 DEF Tt
<1> QED
  BY <1>2, <1>3, BoundsAssumption DEF WithinCap

LEMMA OneMoreWithinCap ==
  ASSUME NEW S, NEW x \in Workflows, TypeInv, ~ClaimWouldExceedCap(S, x),
         NEW T \in SUBSET Workflows,
         T \subseteq ((Running \ CleanedBefore(S, x)) \ {x}) \cup {x},
         WithinCap(T \ {x})
  PROVE  WithinCap(T)
<1> DEFINE others == (Running \ CleanedBefore(S, x)) \ {x}
<1>1. IsFiniteSet(T) /\ others \subseteq Workflows /\ IsFiniteSet(others)
  BY FiniteAssumption, FS_Subset DEF Running
<1>2. ASSUME NEW U \in SUBSET T, NEW O \in SUBSET others, NEW n \in Nat,
             U \subseteq O \cup {x}, ~(Cardinality(O) >= n)
      PROVE  Cardinality(U) <= n
  <2>1. IsFiniteSet(O) /\ x \notin O
    BY <1>1, FS_Subset
  <2>2. IsFiniteSet(O \cup {x}) /\ Cardinality(O \cup {x}) = Cardinality(O) + 1
    BY <2>1, FS_AddElement
  <2>3. Cardinality(U) <= Cardinality(O \cup {x})
    BY <1>2, <2>2, FS_Subset
  <2>4. Cardinality(O) \in Nat /\ Cardinality(U) \in Nat
    BY <1>1, <2>1, FS_Subset, FS_CardinalityType
  <2> QED
    BY <1>2, <2>2, <2>3, <2>4
<1>3. GlobalCap # 0 => Cardinality(T) <= GlobalCap
  <2> SUFFICES ASSUME GlobalCap # 0 PROVE Cardinality(T) <= GlobalCap
    OBVIOUS
  <2>1. ~(Cardinality(others) >= GlobalCap)
    BY DEF ClaimWouldExceedCap
  <2> QED
    BY <1>2, <2>1, BoundsAssumption
<1>4. ASSUME NEW t \in Types, TypeCap[t] # 0
      PROVE  Cardinality({wf \in T : TypeOf[wf] = t}) <= TypeCap[t]
  <2>1. TypeCap[t] \in Nat
    BY TypeAssumption
  <2>2. CASE t = TypeOf[x]
    <3>1. ~(Cardinality(others \cap SameType(x)) >= TypeCap[t])
      BY <1>4, <2>2 DEF ClaimWouldExceedCap
    <3>2. {wf \in T : TypeOf[wf] = t} \subseteq (others \cap SameType(x)) \cup {x}
      BY <2>2 DEF SameType
    <3> QED
      BY <1>2, <2>1, <3>1, <3>2
  <2>3. CASE t # TypeOf[x]
    <3>1. {wf \in T : TypeOf[wf] = t} = {wf \in T \ {x} : TypeOf[wf] = t}
      BY <2>3
    <3> QED
      BY <1>4, <3>1 DEF WithinCap
  <2> QED
    BY <2>2, <2>3
<1> QED
  BY <1>3, <1>4 DEF WithinCap

(* Outside a claim no row gains a slot. *)
LEMMA SlotsShrink ==
  ASSUME TypeInv, [Next]_vars,
         ~\E w \in Workers : \E scope \in Scopes(w) : ClaimNext(w, scope)
  PROVE  Slots' \subseteq Slots
<1> row \in [Workflows -> Rows] /\ \A wf \in Workflows : row[wf] \in Rows
  BY DEF TypeInv, TypeOK
<1> SUFFICES ASSUME NEW wf \in Workflows, wf \in Slots' PROVE wf \in Slots
  BY DEF Slots, Running
<1>0. row'[wf].state = "claimed" /\ ~row'[wf].parked /\ ~row'[wf].cancel
  BY DEF Slots, Running
<1>1. ASSUME NEW x \in Workflows, Enqueue(x) \/ CancelPending(x) \/ CancelRunning(x)
      PROVE  row'[wf] = row[wf]
  <2>1. CASE Enqueue(x)
    BY <1>0, <2>1 DEF Enqueue, NoRow
  <2>2. CASE CancelPending(x)
    BY <1>0, <2>2 DEF CancelPending, Rows
  <2>3. CASE CancelRunning(x)
    BY <1>0, <2>3 DEF CancelRunning, Rows
  <2> QED
    BY <1>1, <2>1, <2>2, <2>3
<1>2. ASSUME NEW w \in Workers, NEW scope \in Scopes(w), ClaimNoWork(w, scope)
      PROVE  row'[wf] = row[wf]
  BY <1>0, <1>2 DEF ClaimNoWork, ClaimTx, Rows
<1>3. ASSUME NEW w \in Workers, MarkParked(w) PROVE row'[wf] = row[wf]
  BY <1>0, <1>3 DEF MarkParked, Rows
<1>4. ASSUME NEW w \in Workers, FlipTerminal(w) PROVE row'[wf] = row[wf]
  BY <1>0, <1>4 DEF FlipTerminal, Terminal, Rows
<1>5. ASSUME NEW w \in Workers, MarkForRetry(w) PROVE row'[wf] = row[wf]
  BY <1>0, <1>5 DEF MarkForRetry, Rows
<1>6. ASSUME NEW w \in Workers,
             RunNext(w) /\ ~(MarkParked(w) \/ FlipTerminal(w) \/ MarkForRetry(w))
      PROVE  row' = row
  BY <1>6 DEF RunNext, Reread, BuildFails, Build, Seed, StartExecute, CheckpointLevel, FailNode,
              FinishRun, CancelWatcher, ContextCancelled, SaveFailedState, Dispose,
              ReleaseLease, Deliver, db
<1>7. ASSUME NEW w \in Workers, \/ Crash(w) \/ Park(w) \/ Drain(w) \/ InfraFault(w)
                                \/ StoreFault(w) \/ BestEffortLost(w)
      PROVE  row' = row
  BY <1>7 DEF Crash, Park, Drain, ContextCancelled, InfraFault, StoreFault, BestEffortLost, db
<1>8. ASSUME NEW x \in Workflows, Tick(x) PROVE row' = row
  BY <1>8 DEF Tick
<1>9. row'[wf] = row[wf]
  BY <1>1, <1>2, <1>3, <1>4, <1>5, <1>6, <1>7, <1>8
     DEF Next, Environment, Claim, vars, db
<1> QED
  BY <1>0, <1>9 DEF Slots, Running

(* A claim adds at most the row it hands out, and that one only if it held   *)
(* a slot already or claimWouldExceedCap found room for it.                  *)
LEMMA ClaimWithinCap ==
  ASSUME NEW w \in Workers, NEW scope \in Scopes(w), TypeInv, TypeInv', WithinCap(Slots),
         ClaimNext(w, scope)
  PROVE  WithinCap(Slots')
<1> DEFINE S == Scan(w, scope)
<1>1. PICK x \in Oldest(Takeable(w, S)) : ClaimTx(w, CleanedBefore(S, x), {x})
  BY DEF ClaimNext
<1>2. x \in S /\ x \notin CancelSet(S) /\ x \in Workflows
      /\ (OccupiesNewSlot(x) => ~ClaimWouldExceedCap(S, x))
  BY ScanType DEF Oldest, Takeable
<1>3. Slots \in SUBSET Workflows /\ Slots' \in SUBSET Workflows
  BY DEF Slots, Running
<1>4. ASSUME NEW wf \in Workflows \ {x}, wf \in Slots'
      PROVE  wf \in Slots /\ wf \notin CleanedBefore(S, x)
  <2>1. row'[wf].state = "claimed" /\ ~row'[wf].parked /\ ~row'[wf].cancel
    BY <1>4 DEF Slots, Running
  <2>2. row[wf] \in Rows
    BY DEF TypeInv, TypeOK
  <2>3. wf \notin CleanedBefore(S, x)
    <3>1. ASSUME wf \in CleanedBefore(S, x) PROVE row'[wf].state = "cancelled"
      BY <1>1, <2>2, <3>1 DEF ClaimTx, Rows
    <3> QED
      BY <2>1, <3>1
  <2>4. row'[wf] = row[wf]
    BY <1>1, <2>3 DEF ClaimTx
  <2> QED
    BY <2>1, <2>3, <2>4 DEF Slots, Running
<1>5. WithinCap(Slots' \ {x})
  BY <1>3, <1>4, FewerWithinCap
<1>6. CASE OccupiesNewSlot(x)
  <2>1. Slots' \subseteq ((Running \ CleanedBefore(S, x)) \ {x}) \cup {x}
    BY <1>3, <1>4 DEF Slots
  <2> QED
    BY <1>2, <1>3, <1>5, <1>6, <2>1, OneMoreWithinCap
<1>7. CASE ~OccupiesNewSlot(x)
  <2>1. x \in Slots' => x \in Slots
    <3>1. row'[x].cancel = row[x].cancel
      BY <1>1, <1>2 DEF ClaimTx, ClaimedRow, CleanedBefore, TypeInv, TypeOK, Rows
    <3>2. row[x].state \in {"pending", "claimed"}
      BY <1>2 DEF Scan
    <3> QED
      BY <1>2, <1>7, <3>1, <3>2 DEF OccupiesNewSlot, Slots, Running
  <2>2. Slots' \subseteq Slots
    BY <1>3, <1>4, <2>1
  <2> QED
    BY <1>3, <2>2, FewerWithinCap
<1> QED
  BY <1>6, <1>7

(* The caps hold for any number of workers claiming, parking, reclaiming,    *)
(* retrying and terminalizing rows in any order: the count and the claim are *)
(* one transaction, so no two claims pass on the same free slot.             *)
THEOREM CapsHold == Spec => []RunningWithinCap
<1>1. Init => WithinCap(Slots)
  <2> SUFFICES ASSUME Init PROVE WithinCap(Slots)
    OBVIOUS
  <2>1. Slots = {} /\ \A t \in Types : {wf \in Slots : TypeOf[wf] = t} = {}
    BY DEF Init, Slots, Running, NoRow
  <2> QED
    BY <2>1, FS_EmptySet, BoundsAssumption, TypeAssumption DEF WithinCap
<1>2. TypeInv /\ TypeInv' /\ WithinCap(Slots) /\ [Next]_vars => WithinCap(Slots)'
  <2> SUFFICES ASSUME TypeInv, TypeInv', WithinCap(Slots), [Next]_vars PROVE WithinCap(Slots')
    BY DEF WithinCap
  <2>1. Slots \in SUBSET Workflows
    BY DEF Slots, Running
  <2> QED
    BY <2>1, SlotsShrink, ClaimWithinCap, FewerWithinCap
<1>3. WithinCap(Slots) => RunningWithinCap
  BY DEF Slots, RunningWithinCap
<1> QED
  BY <1>1, <1>2, <1>3, TypeInit, TypeNext, PTL DEF Spec

---------------------------------------------------------------------------
(* The queue implements one durable job per workflow that MarkForRetry never *)
(* put back: whoever passes the fencing test on it is the last claimant, and *)
(* what that worker has in memory is what the journal says.                  *)

Owns(w) == TokenGuard(lease[item[w]], Token(w))

(* What a failed run may save over the journal j. *)
Follows(j, m) ==
    \/ m = j
    \/ j.failed = "no" /\ j.lvl < Levels /\ m = Advanced(j)
    \/ j.failed = "no" /\ m \in {WithFailure(j, "node"), WithFailure(j, "ctx")}

OwnerInv(w) ==
    Owns(w) /\ item[w] \notin requeued =>
       /\ pc[w] \notin {"idle", "release", "deliver"} =>
             row[item[w]].state = "claimed" /\ row[item[w]].attempts # 0
       /\ pc[w] = "seed" => journal[item[w]] = NoJournal
       /\ pc[w] = "run"  => mem[w] = journal[item[w]]
       /\ pc[w] = "save" => Follows(journal[item[w]], mem[w])
       /\ pc[w] = "done" => journal[item[w]].lvl = Levels \/ journal[item[w]].failed # "no"

HoldsToken(w) == pc[w] \notin {"idle", "deliver"} => Token(w) # 0

JobInv == \A w \in Workers : HoldsToken(w) /\ OwnerInv(w)

(* The steps of a job. *)
LEMMA JobRests ==
  ASSUME NEW wf \in Workflows, row'[wf].state = row[wf].state, journal'[wf] = journal[wf]
  PROVE  Job!Rests(wf)
  BY DEF Job!Rests

LEMMA JobMoves ==
  ASSUME NEW wf \in Workflows, journal'[wf] = journal[wf],
         \/ row[wf].state = "absent" /\ row'[wf].state = "pending"
         \/ row[wf].state = "pending" /\ row'[wf].state \in {"claimed", "cancelled"}
         \/ row[wf].state = "claimed" /\ row'[wf].state \in {"failed", "cancelled"}
         \/ /\ row[wf].state = "claimed" /\ row'[wf].state = "done"
            /\ journal[wf].lvl = Levels \/ journal[wf].failed # "no"
  PROVE  Job!Step(wf)
  BY DEF Job!Step, Job!Moves, Job!Completes

LEMMA JobRecords ==
  ASSUME NEW wf \in Workflows, row[wf].state = "claimed", row'[wf].state = "claimed",
         Follows(journal[wf], journal'[wf])
  PROVE  Job!Step(wf) \/ Job!Rests(wf)
  BY DEF Follows, Advanced, WithFailure, Job!Step, Job!Records, Job!Rests

LEMMA SeedFollows == Follows(NoJournal, Seeded)
  BY BoundsAssumption DEF Follows, NoJournal, Seeded, Advanced
(* Whoever passes the fencing test is the last claimant. *)
LEMMA OwnsIsOwner ==
  ASSUME TypeInv, FenceInv, NEW w \in Workers, item[w] \in Workflows \ requeued, Owns(w)
  PROVE  lease[item[w]].owner = w
<1>1. lease[item[w]].token \in Nat /\ held[w][item[w]] \in Nat
  BY DEF TypeInv, TypeOK, Leases
<1> QED
  BY <1>1 DEF FenceInv, Fence, TokensOrdered, Owns, Token, TokenGuard

LEMMA FencedOwns ==
  ASSUME TypeInv, NEW w \in Workers, item[w] \in Workflows, Token(w) # 0
  PROVE  Fenced(w) <=> ~Owns(w)
<1>1. lease[item[w]].token \in Nat /\ Token(w) \in Nat
  BY DEF TypeInv, TypeOK, Leases, Token
<1> QED
  BY <1>1 DEF Fenced, FencedOut, Owns, TokenGuard, Exists

(* Only MarkForRetry puts a workflow back, and none is ever taken out again. *)
LEMMA RequeuedBy ==
  ASSUME [Next]_vars
  PROVE  UNCHANGED requeued \/ \E w \in Workers : MarkForRetry(w)
  BY DEF Next, Environment, Claim, RunNext, vars, Enqueue, CancelPending, CancelRunning, Crash,
         Park, Drain, InfraFault, StoreFault, BestEffortLost, Tick, ClaimNext, ClaimNoWork,
         Reread, BuildFails, Build, Seed, StartExecute, CheckpointLevel, FailNode, FinishRun,
         CancelWatcher, SaveFailedState, Dispose, MarkParked, FlipTerminal,
         ReleaseLease, Deliver, history

LEMMA RequeuedGrows == ASSUME [Next]_vars PROVE requeued \subseteq requeued'
  BY RequeuedBy DEF MarkForRetry

(* A write of the journal: refused, or the owner's and a step of the job. *)
Writes(w) == Seed(w) \/ CheckpointLevel(w) \/ FinishRun(w) \/ SaveFailedState(w) \/ Park(w)

LEMMA WriteFollows ==
  ASSUME TypeInv, FenceInv, JobInv, NEW w \in Workers, Writes(w)
  PROVE  /\ UNCHANGED <<row, held, item, requeued>> /\ item[w] \in Workflows
         /\ pc[w] \in {"seed", "run", "save"} /\ Token(w) # 0
         /\ \/ UNCHANGED <<journal, lease>> /\ ~Owns(w)
            \/ \E j : /\ Write(w, j)
                      /\ item[w] \notin requeued =>
                            /\ lease[item[w]].owner = w /\ row[item[w]].state = "claimed"
                            /\ Follows(journal[item[w]], j)
<1>1. /\ UNCHANGED <<row, held, item, requeued>> /\ pc[w] \in {"seed", "run", "save"}
  BY DEF history, Writes, Seed, CheckpointLevel, FinishRun, SaveFailedState, Park, At
<1>2. item[w] \in Workflows /\ Token(w) # 0 /\ OwnerInv(w)
  BY <1>1 DEF JobInv, HoldsToken, TypeInv, HasItem
<1>3. Fenced(w) <=> ~Owns(w)
  BY <1>2, FencedOwns
<1>4. CASE Fenced(w)
  BY <1>1, <1>2, <1>3, <1>4 DEF Writes, Seed, CheckpointLevel, FinishRun, SaveFailedState, Park
<1>5. CASE ~Fenced(w) /\ item[w] \in requeued
  <2>1. \E j : Write(w, j)
    BY <1>5 DEF Writes, Seed, CheckpointLevel, FinishRun, SaveFailedState, Park
  <2> QED
    BY <1>1, <1>2, <1>5, <2>1
<1>6. CASE ~Fenced(w) /\ item[w] \notin requeued
  <2>1. Owns(w) /\ lease[item[w]].owner = w /\ row[item[w]].state = "claimed"
    BY <1>1, <1>2, <1>3, <1>6, OwnsIsOwner DEF OwnerInv, JobInv
  <2>2. \E j : Write(w, j) /\ Follows(journal[item[w]], j)
    <3>1. CASE Seed(w)
      BY <1>2, <1>6, <2>1, <3>1, SeedFollows DEF Seed, At, OwnerInv
    <3>2. CASE CheckpointLevel(w)
      <4>1. Write(w, Advanced(mem[w])) /\ Unfinished(w) /\ mem[w] = journal[item[w]]
        BY <1>2, <1>6, <2>1, <3>2 DEF CheckpointLevel, At, OwnerInv
      <4> QED
        BY <4>1 DEF Unfinished, Follows
    <3>3. CASE FinishRun(w) \/ Park(w)
      <4>1. Write(w, mem[w]) /\ mem[w] = journal[item[w]]
        BY <1>2, <1>6, <2>1, <3>3 DEF FinishRun, Park, At, OwnerInv
      <4> QED
        BY <4>1 DEF Follows
    <3>4. CASE SaveFailedState(w)
      BY <1>2, <1>6, <2>1, <3>4 DEF SaveFailedState, At, OwnerInv
    <3> QED
      BY <3>1, <3>2, <3>3, <3>4 DEF Writes
  <2> QED
    BY <1>1, <1>2, <2>1, <2>2
<1> QED
  BY <1>4, <1>5, <1>6

(* The workers a step does not move keep what they know of their item:       *)
(* either nothing of it changed, or it is somebody else's now.               *)
LEMMA OthersKeep ==
  ASSUME NEW v \in Workers, TypeInv', FenceInv', requeued \subseteq requeued', HoldsToken(v), OwnerInv(v),
         pc'[v] = pc[v], item'[v] = item[v], mem'[v] = mem[v], held'[v] = held[v],
         pc[v] # "idle" /\ item[v] \notin requeued' =>
            \/ lease'[item[v]].owner # v
            \/ ~Exists(lease'[item[v]])
            \/ /\ lease'[item[v]].token = lease[item[v]].token
               /\ row'[item[v]].state = row[item[v]].state
               /\ row'[item[v]].attempts = row[item[v]].attempts
               /\ journal'[item[v]] = journal[item[v]]
  PROVE  HoldsToken(v)' /\ OwnerInv(v)'
<1>1. HoldsToken(v)'
  BY DEF HoldsToken, Token
<1>2. CASE pc[v] = "idle" \/ item[v] \in requeued'
  BY <1>1, <1>2 DEF OwnerInv
<1>3. ASSUME pc[v] # "idle" PROVE item[v] \in Workflows
  BY <1>3 DEF TypeInv, HasItem
<1>4. CASE /\ pc[v] # "idle" /\ item[v] \notin requeued'
           /\ (lease'[item[v]].owner # v \/ ~Exists(lease'[item[v]]))
  <2>1. /\ lease'[item[v]].token \in Nat /\ held'[v][item[v]] \in Nat
    BY <1>3, <1>4 DEF TypeInv, TypeOK, Leases
  <2>2. ~TokenGuard(lease'[item[v]], held'[v][item[v]])
    BY <1>3, <1>4, <2>1 DEF FenceInv, Fence, TokensOrdered, TokenGuard, Exists
  <2>3. ~Owns(v)'
    BY <2>2 DEF Owns, Token
  <2> QED
    BY <1>1, <2>3 DEF OwnerInv
<1>5. CASE /\ lease'[item[v]].token = lease[item[v]].token
           /\ row'[item[v]].state = row[item[v]].state
           /\ row'[item[v]].attempts = row[item[v]].attempts
           /\ journal'[item[v]] = journal[item[v]]
  <2>1. Owns(v)' <=> Owns(v)
    BY <1>5 DEF Owns, Token, TokenGuard, Exists
  <2> QED
    BY <1>1, <1>5, <2>1 DEF OwnerInv
<1> QED
  BY <1>2, <1>4, <1>5
(* A worker moves on without touching the tables. *)
Moves(w) ==
    \/ Reread(w) \/ BuildFails(w) \/ Build(w) \/ StartExecute(w) \/ FailNode(w) \/ CancelWatcher(w)
    \/ Drain(w) \/ Dispose(w) \/ InfraFault(w) \/ StoreFault(w)

LEMMA MoveKeeps ==
  ASSUME TypeInv, TypeInv', JobInv, NEW w \in Workers, Moves(w)
  PROVE  HoldsToken(w)' /\ OwnerInv(w)'
<1>1. /\ UNCHANGED <<row, lease, journal, held, item, requeued>> /\ item[w] \in Workflows
      /\ pc[w] \notin {"idle", "deliver"}
  BY DEF Moves, history, Reread, BuildFails, Build, StartExecute, FailNode, CancelWatcher, Drain,
         ContextCancelled, Dispose, InfraFault, StoreFault, AfterFault, Terminal, db, At, TypeInv,
         HasItem
<1>2. HoldsToken(w) /\ OwnerInv(w) /\ (Owns(w)' <=> Owns(w)) /\ (Token(w)' = Token(w))
  BY <1>1 DEF JobInv, Owns, Token
<1>3. HoldsToken(w)'
  BY <1>1, <1>2 DEF HoldsToken
<1>4. CASE pc'[w] \in PCs \ {"seed", "run", "save", "done", "release"}
  <2>1. pc[w] # "release" \/ pc'[w] = "deliver"
    BY <1>4 DEF Moves, Reread, BuildFails, Build, StartExecute, FailNode, CancelWatcher, Drain,
                ContextCancelled, Dispose, InfraFault, StoreFault, AfterFault, Terminal, At, Goto,
                TypeInv, TypeOK
  <2> QED
    BY <1>1, <1>2, <1>3, <1>4, <2>1 DEF OwnerInv
<1>5. CASE Build(w) /\ pc'[w] = "seed"
  <2>1. journal[item[w]] = NoJournal /\ pc[w] = "build"
    BY <1>5 DEF Build, At, Goto, TypeInv, TypeOK
  <2> QED
    BY <1>1, <1>2, <1>3, <1>5, <2>1 DEF OwnerInv
<1>6. CASE StartExecute(w)
  <2>1. pc[w] = "exec" /\ pc'[w] = "run" /\ mem'[w] = journal[item[w]]
    BY <1>6 DEF StartExecute, At, Goto, TypeInv, TypeOK
  <2> QED
    BY <1>1, <1>2, <1>3, <2>1 DEF OwnerInv
<1>7. CASE (FailNode(w) \/ CancelWatcher(w) \/ Drain(w) \/ InfraFault(w)) /\ pc'[w] = "save"
  <2>1. pc[w] = "run"
    BY <1>7 DEF FailNode, CancelWatcher, Drain, ContextCancelled, InfraFault, At, Goto, TypeInv,
                TypeOK
  <2>2. \/ mem'[w] = mem[w]
        \/ Unfinished(w) /\ mem'[w] \in {Advanced(mem[w]), WithFailure(mem[w], "node"),
                                         WithFailure(mem[w], "ctx")}
    BY <1>7, <2>1 DEF FailNode, CancelWatcher, Drain, ContextCancelled, InfraFault, At, TypeInv,
                      TypeOK
  <2>3. Follows(mem[w], mem'[w])
    BY <2>2 DEF Follows, Unfinished
  <2> QED
    BY <1>1, <1>2, <1>3, <1>7, <2>1, <2>3 DEF OwnerInv
<1>8. \/ pc'[w] \in PCs \ {"seed", "run", "save", "done", "release"}
      \/ Build(w) /\ pc'[w] = "seed"
      \/ StartExecute(w)
      \/ (FailNode(w) \/ CancelWatcher(w) \/ Drain(w) \/ InfraFault(w)) /\ pc'[w] = "save"
  <2>1. pc \in [Workers -> PCs] /\ pc'[w] \in PCs
    BY DEF TypeInv, TypeOK
  <2>2. CASE FailNode(w) \/ CancelWatcher(w) \/ Drain(w) \/ InfraFault(w)
    BY <2>1, <2>2 DEF FailNode, CancelWatcher, Drain, ContextCancelled, InfraFault, Goto, PCs
  <2>3. CASE StoreFault(w)
    BY <2>1, <2>3 DEF StoreFault, AfterFault, Goto, PCs, Terminal
  <2>4. CASE Reread(w) \/ BuildFails(w) \/ Build(w) \/ Dispose(w)
    BY <2>1, <2>4 DEF Reread, BuildFails, Build, Dispose, Goto, PCs
  <2> QED
    BY <2>2, <2>3, <2>4 DEF Moves
<1> QED
  BY <1>4, <1>5, <1>6, <1>7, <1>8

LEMMA WriterKeeps ==
  ASSUME TypeInv, TypeInv', FenceInv, JobInv, NEW w \in Workers, Writes(w)
  PROVE  HoldsToken(w)' /\ OwnerInv(w)'
<1>1. /\ UNCHANGED <<row, held, item, requeued>> /\ item[w] \in Workflows
      /\ pc[w] \in {"seed", "run", "save"} /\ Token(w) # 0
  BY WriteFollows
<1>2. HoldsToken(w)'
  BY <1>1 DEF HoldsToken, Token
<1>3. Fenced(w) <=> ~Owns(w)
  BY <1>1, FencedOwns
<1>4. CASE Fenced(w)
  <2>1. UNCHANGED lease
    BY <1>4 DEF Writes, Seed, CheckpointLevel, FinishRun, SaveFailedState, Park
  <2>2. ~Owns(w)'
    BY <1>1, <1>3, <1>4, <2>1 DEF Owns, Token
  <2> QED
    BY <1>2, <2>2 DEF OwnerInv
<1>5. CASE item[w] \in requeued
  BY <1>1, <1>2, <1>5 DEF OwnerInv
<1>6. CASE ~Fenced(w) /\ item[w] \notin requeued
  <2>1. Owns(w) /\ row[item[w]].state = "claimed" /\ row[item[w]].attempts # 0
    BY <1>1, <1>3, <1>6 DEF JobInv, OwnerInv
  <2>2. CASE Seed(w)
    BY <1>1, <1>2, <1>6, <2>1, <2>2 DEF Seed, Goto, TypeInv, TypeOK, OwnerInv
  <2>3. CASE CheckpointLevel(w)
    <3>1. /\ pc'[w] = "run" /\ mem'[w] = Advanced(mem[w])
          /\ journal' = [journal EXCEPT ![item[w]] = Advanced(mem[w])]
      BY <1>6, <2>3 DEF CheckpointLevel, At, Write, TypeInv, TypeOK
    <3>2. journal'[item[w]] = Advanced(mem[w])
      BY <1>1, <3>1 DEF TypeInv, TypeOK
    <3> QED
      BY <1>1, <1>2, <2>1, <3>1, <3>2 DEF OwnerInv
  <2>4. CASE FinishRun(w)
    <3>1. /\ pc'[w] = "done" /\ ~Unfinished(w) /\ journal' = [journal EXCEPT ![item[w]] = mem[w]]
      BY <1>6, <2>4 DEF FinishRun, Goto, Write, TypeInv, TypeOK
    <3>2. journal'[item[w]] = mem[w]
      BY <1>1, <3>1 DEF TypeInv, TypeOK
    <3>3. mem[w].lvl = Levels \/ mem[w].failed # "no"
      <4>1. mem[w] \in Journals
        BY DEF TypeInv, TypeOK
      <4>2. mem[w].lvl \in -1..Levels
        BY <4>1 DEF Journals
      <4> QED
        BY <3>1, <4>2, BoundsAssumption DEF Unfinished
    <3> QED
      BY <1>1, <1>2, <2>1, <3>1, <3>2, <3>3 DEF OwnerInv
  <2>5. CASE SaveFailedState(w) \/ Park(w)
    <3>1. pc'[w] \in {"dispose", "parking"}
      BY <1>6, <2>5 DEF SaveFailedState, Park, Goto, TypeInv, TypeOK
    <3> QED
      BY <1>1, <1>2, <2>1, <3>1 DEF OwnerInv
  <2> QED
    BY <2>2, <2>3, <2>4, <2>5 DEF Writes
<1> QED
  BY <1>4, <1>5, <1>6
(* A claim: the claimant starts on a row of its own; whoever else had a row  *)
(* the transaction took or terminalized has lost it.                         *)
LEMMA ClaimKeeps ==
  ASSUME TypeInv, TypeInv', FenceInv, FenceInv', JobInv,
         NEW w \in Workers, NEW scope \in Scopes(w),
         ClaimNext(w, scope) \/ ClaimNoWork(w, scope), NEW v \in Workers
  PROVE  HoldsToken(v)' /\ OwnerInv(v)'
<1>0. pc[w] = "idle" /\ UNCHANGED <<journal, mem, requeued>>
  BY DEF ClaimNext, ClaimNoWork, worker, history
<1>1. ASSUME NEW cleaned, NEW taken, ClaimTx(w, cleaned, taken), NEW wf \in Workflows
      PROVE  \/ lease'[wf].owner = w
             \/ lease'[wf] = lease[wf] /\ row'[wf] = row[wf]
  BY <1>1 DEF ClaimTx, Grant
<1>2. PICK cleaned, taken : ClaimTx(w, cleaned, taken)
  BY DEF ClaimNext, ClaimNoWork
<1>3. CASE v # w
  <2>1. pc'[v] = pc[v] /\ item'[v] = item[v] /\ mem'[v] = mem[v] /\ held'[v] = held[v]
    BY <1>3 DEF ClaimNext, ClaimNoWork, worker, TypeInv, TypeOK
  <2>2. pc[v] # "idle" => item[v] \in Workflows
    BY DEF TypeInv, HasItem
  <2>3. HoldsToken(v) /\ OwnerInv(v)
    BY DEF JobInv
  <2>4. pc[v] # "idle" =>
            \/ lease'[item[v]].owner # v
            \/ lease'[item[v]] = lease[item[v]] /\ row'[item[v]] = row[item[v]]
    BY <1>1, <1>2, <1>3, <2>2
  <2> QED
    BY <1>0, <2>1, <2>3, <2>4, OthersKeep
<1>4. CASE v = w /\ ClaimNoWork(w, scope)
  <2>1. pc'[v] = "idle"
    BY <1>0, <1>4 DEF ClaimNoWork, worker
  <2> QED
    BY <2>1 DEF HoldsToken, OwnerInv
<1>5. CASE v = w /\ ClaimNext(w, scope)
  <2> DEFINE S == Scan(w, scope)
  <2>1. PICK x \in Oldest(Takeable(w, S)) :
           /\ ClaimTx(w, CleanedBefore(S, x), {x})
           /\ held' = [held EXCEPT ![w][x] = Grant(lease[x], w).token]
           /\ item' = [item EXCEPT ![w] = x]
    BY <1>5 DEF ClaimNext
  <2>2. x \in Workflows /\ x \notin CleanedBefore(S, x)
    BY ScanType DEF Oldest, Takeable, CleanedBefore
  <2>3. pc'[w] = "reread" /\ item'[w] = x /\ held'[w][x] = Grant(lease[x], w).token
    BY <1>5, <2>1, <2>2 DEF ClaimNext, TypeInv, TypeOK
  <2>4. lease[x] \in Leases /\ row[x] \in Rows
    BY <2>2 DEF TypeInv, TypeOK
  <2>5. Grant(lease[x], w).token # 0
    BY <2>4 DEF Grant, Leases, Exists
  <2>6. row'[x] = ClaimedRow(row[x])
    BY <2>1, <2>2 DEF ClaimTx
  <2>7. row'[x].state = "claimed" /\ row'[x].attempts # 0
    <3>1. row[x].attempts \in Nat /\ MaxAttempts # 0
      BY <2>4, BoundsAssumption DEF Rows
    <3> QED
      BY <2>4, <2>6, <3>1, BoundsAssumption DEF ClaimedRow, Rows
  <2> QED
    BY <1>5, <2>3, <2>5, <2>7 DEF HoldsToken, OwnerInv, Token
<1> QED
  BY <1>3, <1>4, <1>5

(* A worker's guarded queue update, its release, and its return. *)
Settles(w) ==
    \/ MarkParked(w) \/ FlipTerminal(w) \/ MarkForRetry(w) \/ ReleaseLease(w) \/ Deliver(w)
    \/ Crash(w) \/ BestEffortLost(w)

LEMMA SettleRow ==
  ASSUME TypeInv, FenceInv, JobInv, NEW w \in Workers, Settles(w), NEW wf \in Workflows \ requeued'
  PROVE  /\ UNCHANGED journal
         /\ \/ row'[wf] = row[wf]
            \/ /\ wf = item[w] /\ lease[wf].owner = w /\ UNCHANGED lease
               /\ row[wf].state = "claimed"
               /\ \/ row'[wf].state = "claimed"
                  \/ pc[w] \in Terminal /\ row'[wf].state = pc[w] /\ Owns(w)
<1>0. UNCHANGED journal /\ row \in [Workflows -> Rows] /\ row[wf] \in Rows /\ wf \notin requeued
  BY DEF Settles, MarkParked, FlipTerminal, MarkForRetry, ReleaseLease, Deliver, Crash,
         BestEffortLost, db, history, TypeInv, TypeOK
<1>1. CASE row'[wf] = row[wf]
  BY <1>0, <1>1
<1>2. CASE row'[wf] # row[wf]
  <2>1. MarkParked(w) \/ FlipTerminal(w)
    <3>1. ~MarkForRetry(w)
      <4>1. ASSUME MarkForRetry(w) PROVE row'[wf] = row[wf]
        BY <1>0, <4>1 DEF MarkForRetry
      <4> QED
        BY <1>2, <4>1
    <3> QED
      BY <1>2, <3>1 DEF Settles, ReleaseLease, Deliver, Crash, BestEffortLost, db
  <2>2. /\ pc[w] \notin {"idle", "deliver"} /\ item[w] \in Workflows /\ Token(w) # 0 /\ UNCHANGED lease
    BY <2>1 DEF MarkParked, FlipTerminal, At, Terminal, TypeInv, HasItem, JobInv, HoldsToken
  <2>3. wf = item[w] /\ Owns(w) /\ row[wf].state = "claimed"
    BY <1>0, <1>2, <2>1, <2>2 DEF MarkParked, FlipTerminal, Owns
  <2>4. lease[wf].owner = w
    BY <1>0, <2>2, <2>3, OwnsIsOwner
  <2>5. CASE MarkParked(w)
    BY <1>0, <2>2, <2>3, <2>4, <2>5 DEF MarkParked, Rows
  <2>6. CASE FlipTerminal(w)
    <3>1. row' = [row EXCEPT ![wf].state = pc[w]] /\ pc[w] \in Terminal
      BY <1>2, <2>3, <2>6 DEF FlipTerminal
    <3> QED
      BY <1>0, <2>2, <2>3, <2>4, <3>1 DEF Rows
  <2> QED
    BY <2>1, <2>5, <2>6
<1> QED
  BY <1>1, <1>2

LEMMA SettleKeeps ==
  ASSUME TypeInv, TypeInv', FenceInv, FenceInv', JobInv,
         NEW w \in Workers, Settles(w), NEW v \in Workers
  PROVE  HoldsToken(v)' /\ OwnerInv(v)'
<1>0. /\ HoldsToken(v) /\ OwnerInv(v) /\ UNCHANGED journal /\ requeued \subseteq requeued'
      /\ pc[v] # "idle" => item[v] \in Workflows
  BY DEF history, JobInv, TypeInv, HasItem, Settles, MarkParked, FlipTerminal, MarkForRetry, ReleaseLease,
         Deliver, Crash, BestEffortLost, db
<1>1. CASE v # w
  <2>1. pc'[v] = pc[v] /\ item'[v] = item[v] /\ mem'[v] = mem[v] /\ held'[v] = held[v]
    BY <1>1 DEF Settles, MarkParked, FlipTerminal, MarkForRetry, ReleaseLease, Deliver, Crash,
                BestEffortLost, Finish, Goto, TypeInv, TypeOK
  <2>2. ASSUME NEW wf \in Workflows \ requeued'
        PROVE  \/ lease'[wf].owner = w \/ ~Exists(lease'[wf])
               \/ lease'[wf] = lease[wf] /\ row'[wf] = row[wf]
    <3>1. lease'[wf] = lease[wf] \/ lease'[wf] = NoLease
      BY DEF Settles, MarkParked, FlipTerminal, MarkForRetry, ReleaseLease, Released, Deliver,
             Crash, BestEffortLost, db, TypeInv, TypeOK
    <3>2. ~Exists(NoLease)
      BY DEF Exists, NoLease
    <3> QED
      BY <3>1, <3>2, SettleRow
  <2> QED
    BY <1>0, <1>1, <2>1, <2>2, OthersKeep
<1>2. CASE v = w
  <2>1. CASE pc'[w] \in {"idle", "deliver"}
    BY <1>2, <2>1 DEF HoldsToken, OwnerInv
  <2>2. CASE FlipTerminal(w) /\ pc'[w] = "release"
    <3>1. Token(w)' = Token(w) /\ Token(w) # 0
      BY <1>0, <1>2, <2>2 DEF FlipTerminal, Token, HoldsToken, Terminal
    <3> QED
      BY <1>2, <2>2, <3>1 DEF HoldsToken, OwnerInv
  <2>3. CASE MarkForRetry(w)
    <3>1. /\ pc'[w] \in {"failed", "release"} /\ pc[w] = "retry" /\ UNCHANGED <<lease, held, item>>
          /\ UNCHANGED row \/ item[w] \in requeued'
      BY <2>3 DEF MarkForRetry, Goto, At, TypeInv, TypeOK
    <3>2. Token(w)' = Token(w) /\ (Owns(w)' <=> Owns(w))
      BY <3>1 DEF Token, Owns
    <3>3. HoldsToken(w)'
      BY <1>0, <1>2, <3>1, <3>2 DEF HoldsToken
    <3>4. CASE item[w] \in requeued'
      BY <1>2, <3>1, <3>3, <3>4 DEF OwnerInv
    <3>5. CASE UNCHANGED row /\ item[w] \notin requeued'
      BY <1>0, <1>2, <3>1, <3>2, <3>3, <3>5 DEF OwnerInv
    <3> QED
      BY <3>1, <3>4, <3>5
  <2> QED
    BY <2>1, <2>2, <2>3
       DEF Settles, MarkParked, FlipTerminal, ReleaseLease, Deliver, Crash, BestEffortLost, Finish,
           Goto, TypeInv, TypeOK
<1> QED
  BY <1>1, <1>2
(* Operators and the clock. *)
Outside ==
    \/ \E x \in Workflows : Enqueue(x) \/ CancelPending(x) \/ CancelRunning(x) \/ Tick(x)
    \/ UNCHANGED vars

LEMMA OutsideRow ==
  ASSUME TypeInv, FenceInv, Outside, NEW wf \in Workflows \ requeued
  PROVE  /\ UNCHANGED <<journal, worker>> /\ lease'[wf].token = lease[wf].token
         /\ \/ row'[wf].state = row[wf].state /\ row'[wf].attempts = row[wf].attempts
            \/ /\ ~Exists(lease'[wf])
               /\ \/ row[wf].state = "absent" /\ row'[wf].state = "pending"
                  \/ row[wf].state = "pending" /\ row'[wf].state = "cancelled"
<1>0. row \in [Workflows -> Rows] /\ row[wf] \in Rows /\ lease \in [Workflows -> Leases]
  BY DEF TypeInv, TypeOK
<1>1. ASSUME NEW x \in Workflows, Enqueue(x) \/ CancelPending(x)
      PROVE  /\ UNCHANGED <<journal, worker, lease>>
             /\ \/ row'[wf] = row[wf]
                \/ row[wf].state = "absent" /\ row'[wf].state = "pending"
                \/ row[wf].state = "pending" /\ row'[wf].state = "cancelled"
  <2>1. CASE Enqueue(x)
    BY <1>0, <2>1 DEF Enqueue, NoRow
  <2>2. CASE CancelPending(x)
    BY <1>0, <2>2 DEF CancelPending, Rows
  <2> QED
    BY <1>1, <2>1, <2>2
<1>2. row[wf].state \in {"absent", "pending"} => ~Exists(lease[wf])
  BY DEF FenceInv, Fence, Unclaimed
<1>3. ASSUME NEW x \in Workflows, CancelRunning(x)
      PROVE  /\ UNCHANGED <<journal, worker, lease>>
             /\ row'[wf].state = row[wf].state /\ row'[wf].attempts = row[wf].attempts
  BY <1>0, <1>3 DEF CancelRunning, Rows
<1>4. ASSUME NEW x \in Workflows, Tick(x)
      PROVE  /\ UNCHANGED <<journal, worker, row>> /\ lease'[wf].token = lease[wf].token
  BY <1>0, <1>4, LeaseKept DEF Tick
<1>5. CASE UNCHANGED vars
  BY <1>5 DEF vars, db
<1> QED
  BY <1>1, <1>2, <1>3, <1>4, <1>5 DEF Outside

LEMMA JobNext == TypeInv /\ TypeInv' /\ FenceInv /\ FenceInv' /\ JobInv /\ [Next]_vars => JobInv'
<1> SUFFICES ASSUME TypeInv, TypeInv', FenceInv, FenceInv', JobInv, [Next]_vars PROVE JobInv'
  OBVIOUS
<1>0. requeued \subseteq requeued'
  BY RequeuedGrows
<1> SUFFICES ASSUME NEW v \in Workers PROVE HoldsToken(v)' /\ OwnerInv(v)'
  BY DEF JobInv
<1>v. HoldsToken(v) /\ OwnerInv(v) /\ (pc[v] # "idle" => item[v] \in Workflows)
  BY DEF JobInv, TypeInv, HasItem
<1>1. CASE Outside
  <2>1. ASSUME pc[v] # "idle", item[v] \notin requeued'
        PROVE  \/ ~Exists(lease'[item[v]])
               \/ /\ lease'[item[v]].token = lease[item[v]].token
                  /\ row'[item[v]].state = row[item[v]].state
                  /\ row'[item[v]].attempts = row[item[v]].attempts
                  /\ journal'[item[v]] = journal[item[v]]
    BY <1>0, <1>1, <1>v, <2>1, OutsideRow
  <2>2. UNCHANGED worker
    BY <1>1 DEF Outside, Enqueue, CancelPending, CancelRunning, Tick, vars
  <2> QED
    BY <1>0, <1>v, <2>1, <2>2, OthersKeep DEF worker
<1>2. ASSUME NEW w \in Workers, NEW scope \in Scopes(w), ClaimNext(w, scope) \/ ClaimNoWork(w, scope)
      PROVE  HoldsToken(v)' /\ OwnerInv(v)'
  BY <1>0, <1>2, ClaimKeeps
<1>3. ASSUME NEW w \in Workers, Moves(w) PROVE HoldsToken(v)' /\ OwnerInv(v)'
  <2>1. CASE v = w
    BY <1>3, <2>1, MoveKeeps
  <2>2. CASE v # w
    <3>1. UNCHANGED <<row, lease, journal, held, item>>
      BY <1>3 DEF Moves, Reread, BuildFails, Build, StartExecute, FailNode, CancelWatcher, Drain,
                  ContextCancelled, Dispose, InfraFault, StoreFault, db
    <3>2. pc'[v] = pc[v] /\ mem'[v] = mem[v]
      BY <1>3, <2>2 DEF Moves, Reread, BuildFails, Build, StartExecute, FailNode, CancelWatcher,
                  Drain, ContextCancelled, Dispose, InfraFault, StoreFault, Goto, TypeInv, TypeOK
    <3> QED
      BY <1>0, <1>v, <3>1, <3>2, OthersKeep
  <2> QED
    BY <2>1, <2>2
<1>4. ASSUME NEW w \in Workers, Writes(w) PROVE HoldsToken(v)' /\ OwnerInv(v)'
  <2>1. CASE v = w
    BY <1>4, <2>1, WriterKeeps
  <2>2. CASE v # w
    <3>1. pc'[v] = pc[v] /\ mem'[v] = mem[v]
      BY <1>4, <2>2 DEF Writes, Seed, CheckpointLevel, FinishRun, SaveFailedState, Park, Goto,
                        TypeInv, TypeOK
    <3>2. UNCHANGED <<row, held, item>> /\ pc[w] # "idle"
      BY <1>4, WriteFollows
    <3>3. ASSUME pc[v] # "idle", item[v] \notin requeued'
          PROVE  \/ lease'[item[v]].owner # v
                 \/ /\ lease'[item[v]].token = lease[item[v]].token
                    /\ journal'[item[v]] = journal[item[v]]
      <4>1. CASE UNCHANGED <<journal, lease>>
        BY <4>1
      <4>2. ASSUME NEW j, Write(w, j), item[w] \notin requeued => lease[item[w]].owner = w
            PROVE  \/ lease'[item[v]].owner # v
                   \/ /\ lease'[item[v]].token = lease[item[v]].token
                      /\ journal'[item[v]] = journal[item[v]]
        <5>1. /\ lease'[item[v]].token = lease[item[v]].token
              /\ lease'[item[v]].owner = lease[item[v]].owner
          BY <1>v, <3>2, <3>3, <4>2, WriteKept
        <5>2. item[v] # item[w] => journal'[item[v]] = journal[item[v]]
          BY <1>v, <3>3, <4>2 DEF Write, TypeInv, TypeOK
        <5> QED
          BY <1>0, <2>2, <3>3, <4>2, <5>1, <5>2
      <4> QED
        BY <1>4, <4>1, <4>2, WriteFollows
    <3> QED
      BY <1>0, <1>v, <3>1, <3>2, <3>3, OthersKeep
  <2> QED
    BY <2>1, <2>2
<1>5. ASSUME NEW w \in Workers, Settles(w) PROVE HoldsToken(v)' /\ OwnerInv(v)'
  BY <1>0, <1>5, SettleKeeps
<1> QED
  BY <1>1, <1>2, <1>3, <1>4, <1>5
     DEF Next, Environment, Claim, RunNext, Outside, Moves, Writes, Settles

LEMMA JobInit == Init => JobInv
  BY DEF Init, JobInv, HoldsToken, OwnerInv

(* Every step of the queue is, for each workflow that no retry has put back, *)
(* a step of its job or none.                                                *)
LEMMA JobSimulates ==
  ASSUME TypeInv, FenceInv, JobInv, [Next]_vars, NEW wf \in Workflows \ requeued'
  PROVE  Job!Step(wf) \/ Job!Rests(wf)
<1>0. row \in [Workflows -> Rows] /\ row[wf] \in Rows /\ wf \notin requeued
  BY RequeuedGrows DEF TypeInv, TypeOK
<1>1. CASE Outside
  <2>1. journal'[wf] = journal[wf]
    BY <1>0, <1>1, OutsideRow
  <2>2. \/ row'[wf].state = row[wf].state
        \/ row[wf].state = "absent" /\ row'[wf].state = "pending"
        \/ row[wf].state = "pending" /\ row'[wf].state = "cancelled"
    BY <1>0, <1>1, OutsideRow
  <2> QED
    BY <2>1, <2>2, JobRests, JobMoves
<1>2. ASSUME NEW w \in Workers, NEW scope \in Scopes(w), ClaimNext(w, scope) \/ ClaimNoWork(w, scope)
      PROVE  Job!Step(wf) \/ Job!Rests(wf)
  <2>1. UNCHANGED journal
    BY <1>2 DEF ClaimNext, ClaimNoWork
  <2>2. PICK cleaned \in SUBSET CancelSet(Scan(w, scope)), taken \in SUBSET Scan(w, scope) :
           ClaimTx(w, cleaned, taken)
    BY <1>2 DEF ClaimNext, ClaimNoWork, Oldest, Takeable, CleanedBefore
  <2>3. CASE wf \in cleaned
    <3>1. row[wf].state = "claimed" /\ row'[wf].state = "cancelled"
      BY <1>0, <2>2, <2>3 DEF CancelSet, ClaimTx, Rows
    <3> QED
      BY <2>1, <3>1, JobMoves
  <2>4. CASE wf \in taken \ cleaned
    <3>1. row[wf].state \in {"pending", "claimed"} /\ row'[wf].state = "claimed"
      BY <1>0, <2>2, <2>4 DEF Scan, ClaimTx, ClaimedRow, Rows
    <3> QED
      BY <2>1, <3>1, JobMoves, JobRests
  <2>5. CASE wf \notin cleaned \cup taken
    <3>1. row'[wf] = row[wf]
      BY <2>2, <2>5 DEF ClaimTx
    <3> QED
      BY <2>1, <3>1, JobRests
  <2> QED
    BY <2>3, <2>4, <2>5
<1>3. ASSUME NEW w \in Workers, Moves(w) PROVE Job!Step(wf) \/ Job!Rests(wf)
  <2>1. UNCHANGED <<row, journal>>
    BY <1>3 DEF Moves, Reread, BuildFails, Build, StartExecute, FailNode, CancelWatcher, Drain,
                ContextCancelled, Dispose, InfraFault, StoreFault, db
  <2> QED
    BY <2>1, JobRests
<1>4. ASSUME NEW w \in Workers, Writes(w) PROVE Job!Step(wf) \/ Job!Rests(wf)
  <2>1. UNCHANGED row
    BY <1>4, WriteFollows
  <2>2. CASE UNCHANGED journal
    BY <2>1, <2>2, JobRests
  <2>3. ASSUME NEW j, Write(w, j),
               item[w] \notin requeued =>
                  row[item[w]].state = "claimed" /\ Follows(journal[item[w]], j)
        PROVE  Job!Step(wf) \/ Job!Rests(wf)
    <3>1. journal'[wf] = IF wf = item[w] THEN j ELSE journal[wf]
      BY <2>3 DEF Write, TypeInv, TypeOK
    <3>2. CASE wf = item[w]
      BY <1>0, <2>1, <2>3, <3>1, <3>2, JobRecords
    <3>3. CASE wf # item[w]
      BY <2>1, <3>1, <3>3, JobRests
    <3> QED
      BY <3>2, <3>3
  <2> QED
    BY <1>4, <2>2, <2>3, WriteFollows
<1>5. ASSUME NEW w \in Workers, Settles(w) PROVE Job!Step(wf) \/ Job!Rests(wf)
  <2>1. UNCHANGED journal
    BY <1>5, SettleRow
  <2>2. CASE row'[wf].state = row[wf].state
    BY <2>1, <2>2, JobRests
  <2>3. CASE /\ wf = item[w] /\ row[wf].state = "claimed" /\ Owns(w)
             /\ pc[w] \in Terminal /\ row'[wf].state = pc[w]
    <3>1. pc[w] = "done" => journal[wf].lvl = Levels \/ journal[wf].failed # "no"
      BY <1>0, <2>3 DEF JobInv, OwnerInv
    <3> QED
      BY <2>1, <2>3, <3>1, JobMoves DEF Terminal
  <2> QED
    BY <1>5, <2>2, <2>3, SettleRow
<1> QED
  BY <1>1, <1>2, <1>3, <1>4, <1>5
     DEF Next, Environment, Claim, RunNext, Outside, Moves, Writes, Settles

(* For every retry budget, the competing workers, their leases, reclaims,    *)
(* crashes and faults treat each workflow that MarkForRetry has not put back *)
(* as one durable job: its journal grows as if by a single writer, it is     *)
(* done only when the end of the run is recorded (FinishRun before           *)
(* MarkDone), and once settled it is never written again.  Only the retry    *)
(* ends that, and QueueZombieNeverLands shows how: the lease it releases     *)
(* takes the token sequence back to 1, where an older holder passes.         *)
THEOREM JobSteps == Spec => [][\A wf \in Workflows \ requeued' : Job!Step(wf) \/ Job!Rests(wf)]_vars
<1> DEFINE Steps == \A wf \in Workflows \ requeued' : Job!Step(wf) \/ Job!Rests(wf)
<1>1. TypeInv /\ FenceInv /\ JobInv /\ [Next]_vars => Steps
  BY JobSimulates
<1>2. Spec => [][Steps]_vars
  <2> HIDE DEF Steps
  <2> QED
    BY <1>1, TypeInit, TypeNext, FenceInit, FenceNext, JobInit, JobNext, PTL DEF Spec
<1> QED
  BY <1>2

(* With a budget of one attempt MarkForRetry never puts a workflow back: the *)
(* claim that gave the worker its row has used the attempt.                  *)
LEMMA NeverRequeued ==
  ASSUME MaxAttempts = 1, TypeInv, JobInv, requeued = {}, [Next]_vars
  PROVE  requeued' = {}
<1>1. ASSUME NEW w \in Workers, MarkForRetry(w) PROVE requeued' = requeued
  <2>1. item[w] \in Workflows /\ pc[w] = "retry" /\ row[item[w]].attempts \in 0..MaxAttempts
    BY <1>1 DEF MarkForRetry, At, TypeInv, TypeOK, HasItem, Rows
  <2>2. Owns(w) => row[item[w]].attempts # 0
    BY <2>1 DEF JobInv, OwnerInv
  <2>3. ~(/\ row[item[w]].state = "claimed" /\ row[item[w]].attempts < MaxAttempts
          /\ TokenGuard(lease[item[w]], Token(w)))
    BY <2>1, <2>2 DEF Owns
  <2> QED
    BY <1>1, <2>3 DEF MarkForRetry
<1> QED
  BY <1>1, RequeuedBy

(* So with a retry budget of one attempt the queue as a whole implements one *)
(* durable job per workflow.                                                 *)
THEOREM JobRefined == MaxAttempts = 1 /\ Spec => ImplementsDurableJob
<1> SUFFICES ASSUME MaxAttempts = 1 PROVE Spec => ImplementsDurableJob
  OBVIOUS
<1>1. Init => Job!Init /\ requeued = {}
  BY DEF Init, Job!Init, NoRow, NoJournal
<1>2. TypeInv /\ JobInv /\ requeued = {} /\ [Next]_vars => (requeued = {})'
  BY NeverRequeued
<1>3. TypeInv /\ FenceInv /\ JobInv /\ requeued = {} /\ [Next]_vars => [Job!Next]_(Job!vars)
  <2> SUFFICES ASSUME TypeInv, FenceInv, JobInv, requeued = {}, [Next]_vars PROVE Job!Next
    OBVIOUS
  <2>1. requeued' = {}
    BY NeverRequeued
  <2> QED
    BY <2>1, JobSimulates DEF Job!Next
<1> QED
  BY <1>1, <1>2, <1>3, TypeInit, TypeNext, FenceInit, FenceNext, JobInit, JobNext, PTL
     DEF Spec, ImplementsDurableJob, Job!Spec
=============================================================================

---------------------------- MODULE SqliteStore ----------------------------
(***************************************************************************)
(* How the SQLite store writes one run: the full Save, the delta checkpoint *)
(* that writes the captured keys only, the SaveCheckpoint that diffs the    *)
(* data against an in-memory shadow of the committed rows, and the two      *)
(* durability modes.                                                        *)
(*                                                                          *)
(* A drive of the engine on the store itself captures its deltas ("drive"), *)
(* and its rollback writes by full Saves ("undo").  A caller that knows the *)
(* store as a Checkpointer only, a host that wraps it or drives a DAG       *)
(* itself, writes by SaveCheckpoint ("plain").                              *)
(*                                                                          *)
(* The rows of a run (nodes, data_kv, waits) are one function from keys to  *)
(* values; Absent is "no such row".  A commit appends a version to the WAL; *)
(* `safe` is the version a power loss cannot take back.  Strict syncs every *)
(* commit, Batched(K) every Kth checkpoint and on Sync, unless the          *)
(* checkpoint of the WAL is blocked by another connection.                  *)
(***************************************************************************)
EXTENDS Integers, Sequences

CONSTANTS Keys,           \* row keys of the run
          Vals,           \* their encoded values
          Absent,         \* no row
          BatchK,         \* WithSQLiteBatched(K)
          AutoCheckpoint, \* versions in the WAL at which SQLite checkpoints by itself
          MaxWal,         \* bound: versions in the WAL
          NoRows,         \* no shadow, no data, no version
          MaxSlips        \* bound: failed transactions, crashes and takeovers

ASSUME SqliteAssumption == /\ Absent \notin Vals
                           /\ NoRows \notin [Keys -> Vals \cup {Absent}]
                           /\ BatchK \in Nat \ {0} /\ AutoCheckpoint \in Nat \ {0}
                           /\ MaxWal \in Nat /\ MaxSlips \in Nat

VARIABLES strict,    \* the durability mode
          safe, wal, \* the durable version and the ones after it
          shadow,    \* SQLiteStore.shadow
          ckpts,     \* SQLiteStore.ckptCount, modulo K
          data,      \* the WorkflowData of the drive
          touched,   \* keys set since they were last drained or written: the
                     \* delta capture of a forward drive
          view,      \* a consumer action's sealed view: none, on the capture
                     \* that is drained next, or on one that has been drained
          lost,      \* history: keys drained for a checkpoint that failed
          orphan,    \* history: keys recorded in a drained capture
          pulled,    \* history: the run was deleted under this drive, or under
                     \* the shadow it diffs against
          at,        \* where the drive is
          mine,      \* this process's fencing token is current
          outcome,   \* history: how the last drive returned, and its data
          slips

sqVars == <<strict, safe, wal, shadow, ckpts, data, touched, view, lost, orphan, pulled, at, mine, outcome, slips>>

RowSets == [Keys -> Vals \cup {Absent}]
Empty   == [k \in Keys |-> Absent]
Running == [how |-> "none", data |-> NoRows]

(* The committed rows; NoRows is a run without a workflows row. *)
Rows == IF wal = <<>> THEN safe ELSE wal[Len(wal)]
RowsOrEmpty == IF Rows = NoRows THEN Empty ELSE Rows

SqTypeOK ==
    /\ strict \in BOOLEAN /\ mine \in BOOLEAN
    /\ safe \in RowSets \cup {NoRows} /\ wal \in Seq(RowSets \cup {NoRows})
    /\ shadow \in RowSets \cup {NoRows} /\ data \in RowSets \cup {NoRows}
    /\ ckpts \in 0..BatchK - 1
    /\ touched \subseteq Keys /\ lost \subseteq Keys /\ orphan \subseteq Keys
    /\ view \in {"none", "fresh", "old"}
    /\ pulled \in BOOLEAN
    /\ at \in {"off", "drive", "plain", "undo", "sync"}
    /\ outcome.how \in {"none", "parked", "blocked", "done"}
    /\ slips \in 0..MaxSlips

SqInit ==
    /\ strict \in BOOLEAN
    /\ safe = NoRows /\ wal = <<>>
    /\ shadow = NoRows /\ ckpts = 0
    /\ data = NoRows /\ touched = {} /\ view = "none" /\ lost = {} /\ orphan = {}
    /\ pulled = FALSE /\ at = "off" /\ mine = TRUE
    /\ outcome = Running /\ slips = 0

Slip == slips < MaxSlips /\ slips' = slips + 1

---------------------------------------------------------------------------
(* The WAL is checkpointed into the database, or a commit is logged in it.   *)
Flush(version) == safe' = version /\ wal' = <<>>
Log(version)   == Len(wal) < MaxWal /\ wal' = Append(wal, version) /\ UNCHANGED safe

(* PRAGMA synchronous: a commit is synced (FULL), or appended to the WAL     *)
(* (NORMAL), which SQLite checkpoints by itself when it is long enough and   *)
(* no other connection is in the way.                                        *)
Commit(version) ==
    IF strict THEN Flush(version)
    ELSE Log(version) \/ (Len(wal) + 1 >= AutoCheckpoint /\ Flush(version))

(* A checkpoint's commit, with the every-Kth wal_checkpoint(TRUNCATE).  When *)
(* that fails the rows are committed all the same, the error is returned and *)
(* the frames stay in the WAL.  When it is blocked by another connection it  *)
(* says so in a result row that ExecContext drops: the caller gets nil, and  *)
(* the frames stay in the WAL as well.                                       *)
CommitCheckpoint(version, walOK) ==
    IF ~strict /\ ckpts + 1 = BatchK
    THEN /\ ckpts' = 0
         /\ IF walOK THEN (Flush(version) \/ Log(version)) /\ UNCHANGED slips
                     ELSE Log(version) /\ Slip
    ELSE /\ walOK /\ UNCHANGED slips
         /\ Commit(version)
         /\ ckpts' = IF strict THEN ckpts ELSE ckpts + 1

(* A full write, or a new drive: nothing is outstanding. *)
Forget == touched' = {} /\ lost' = {} /\ orphan' = {} /\ view' = "none"

(* Load: the shadow is rebuilt from the rows just read; a run that is not    *)
(* there starts from empty data and leaves the shadow alone, which then is   *)
(* of a run that another process has deleted.                                *)
Loaded(keep) == IF Rows = NoRows THEN keep ELSE Rows
LeftBehind(phase) == phase = "plain" /\ Rows = NoRows /\ shadow # NoRows

(* Mutant of LoadRun: the shadow of an earlier drive is kept.                *)
LoadRunKeepsShadow(phase) ==
    /\ at = "off" /\ mine
    /\ data' = RowsOrEmpty
    /\ shadow' = IF shadow = NoRows THEN Rows ELSE shadow
    /\ Forget /\ outcome' = Running
    /\ at' = phase /\ pulled' = LeftBehind(phase)
    /\ UNCHANGED <<strict, safe, wal, ckpts, mine, slips>>

(* A drive starts under the claim: forward with delta capture (armed after   *)
(* Load), forward through SaveCheckpoint, or into a rollback that a crash    *)
(* interrupted.                                                              *)
LoadRun(phase) ==
    /\ at = "off" /\ mine
    /\ data' = RowsOrEmpty
    /\ shadow' = Loaded(shadow)
    /\ Forget /\ outcome' = Running
    /\ at' = phase /\ pulled' = LeftBehind(phase)
    /\ UNCHANGED <<strict, safe, wal, ckpts, mine, slips>>

(* Save: every row of the run is deleted and written again, and the shadow   *)
(* is seeded from the data.                                                  *)
Save ==
    /\ mine /\ view = "none"
    /\ Commit(data)
    /\ shadow' = data /\ pulled' = FALSE
    /\ Forget

(* A failure of the forward drive: the rollback marker is saved, and the     *)
(* rollback goes on with the same data.  (When the Save fails, SaveFails.)   *)
TurnBack ==
    /\ at \in {"drive", "plain"}
    /\ Save
    /\ at' = "undo"
    /\ UNCHANGED <<strict, ckpts, data, mine, outcome, slips>>

(* driveRollback saves after every reverse level; an error is noted for the  *)
(* outcome and the next level goes on.                                       *)
UndoSaves ==
    /\ at = "undo"
    /\ Save
    /\ UNCHANGED <<strict, ckpts, data, at, mine, outcome, slips>>

UndoSaveFails ==
    /\ at = "undo"
    /\ Slip
    /\ UNCHANGED <<strict, safe, wal, shadow, ckpts, data, touched, view, lost, orphan, pulled, at, mine, outcome>>

(* acquireSealedView copies the WorkflowData, and with it the pointer to the *)
(* capture of the moment; releaseSealedView when the action returns.         *)
ViewAcquired ==
    /\ at = "drive" /\ view = "none"
    /\ view' = "fresh"
    /\ UNCHANGED <<strict, safe, wal, shadow, ckpts, data, touched, lost, orphan, pulled, at, mine, outcome, slips>>

ViewReleased ==
    /\ view # "none"
    /\ view' = "none"
    /\ UNCHANGED <<strict, safe, wal, shadow, ckpts, data, touched, lost, orphan, pulled, at, mine, outcome, slips>>

(* A setter of WorkflowData, and recordDelta under the same lock: the engine *)
(* records in the capture that is drained next, an action in its view's.     *)
SetKey(k, v, by) ==
    /\ at \in {"drive", "plain", "undo"} /\ by \in {"none", view}
    /\ data[k] # v
    /\ data' = [data EXCEPT ![k] = v]
    /\ IF by = "old" THEN orphan' = orphan \cup {k} /\ UNCHANGED touched
                     ELSE touched' = touched \cup {k} /\ orphan' = orphan \ {k}
    /\ UNCHANGED <<strict, safe, wal, shadow, ckpts, view, lost, pulled, at, mine, outcome, slips>>

(* drainDeltaCapture hands out the keys and starts a new capture, of which   *)
(* the views that are out know nothing.                                      *)
Drain == touched' = {} /\ view' = IF view = "none" THEN "none" ELSE "old"

(* SaveDeltaCheckpoint after the drain: the drained keys are read again from *)
(* the data; the staged edits reach the shadow after the commit.  At a       *)
(* barrier or a park no action runs; a fan-out flushes its expansion while   *)
(* its siblings do.                                                          *)
DeltaCheckpoint(then, walOK) ==
    /\ at = "drive" /\ mine
    /\ walOK \/ then = "drive"
    /\ view = "none" \/ then = "drive"
    /\ LET edit(base) == [k \in Keys |-> IF k \in touched THEN data[k] ELSE base[k]]
       IN  /\ CommitCheckpoint(edit(RowsOrEmpty), walOK)
           /\ shadow' = edit(IF shadow = NoRows THEN RowsOrEmpty ELSE shadow)
    /\ Drain
    /\ at' = then
    /\ UNCHANGED <<strict, data, lost, orphan, pulled, mine, outcome>>

(* The delta transaction rolls back.  The capture has been drained already,  *)
(* and nobody puts the keys back.                                            *)
DeltaFails ==
    /\ at = "drive" /\ mine
    /\ Slip
    /\ lost' = lost \cup touched
    /\ Drain
    /\ UNCHANGED <<strict, safe, wal, shadow, ckpts, data, orphan, pulled, at, mine, outcome>>

(* SaveCheckpoint (saveIncremental): what differs between the shadow, or the *)
(* hydrated rows, and the data is upserted or deleted; the shadow is advanced*)
(* after the commit.                                                         *)
DiffCheckpoint(walOK) ==
    /\ at = "plain" /\ mine
    /\ LET base == IF shadow = NoRows THEN RowsOrEmpty ELSE shadow
       IN  CommitCheckpoint([k \in Keys |-> IF base[k] # data[k] THEN data[k] ELSE RowsOrEmpty[k]],
                            walOK)
    /\ shadow' = data
    /\ Forget
    /\ UNCHANGED <<strict, data, pulled, at, mine, outcome>>

(* Its transaction rolls back, and its caller goes on. *)
DiffFails ==
    /\ at = "plain" /\ mine
    /\ Slip
    /\ UNCHANGED <<strict, safe, wal, shadow, ckpts, data, touched, view, lost, orphan, pulled, at, mine, outcome>>

(* The Save of a final, a failed or a rolled back state, and the drive is    *)
(* over.                                                                     *)
FinalSave ==
    /\ at \in {"drive", "plain", "undo"}
    /\ Save
    /\ outcome' = [how |-> "done", data |-> data]
    /\ at' = "off" /\ data' = NoRows
    /\ UNCHANGED <<strict, ckpts, mine, slips>>

SaveFails ==
    /\ at \in {"drive", "plain", "undo"} /\ mine /\ view = "none"
    /\ Slip
    /\ at' = "off" /\ Forget /\ data' = NoRows
    /\ UNCHANGED <<strict, safe, wal, shadow, ckpts, pulled, mine, outcome>>

(* Mutant of SyncFloor: the park returns on its checkpoint alone.            *)
SyncNothing ==
    /\ at = "sync"
    /\ outcome' = [how |-> "parked", data |-> data]
    /\ at' = "off" /\ data' = NoRows
    /\ UNCHANGED <<strict, safe, wal, shadow, ckpts, touched, view, lost, orphan, pulled, mine, slips>>

(* A park: Sync after the checkpoint, then ErrSuspended.  A WAL checkpoint   *)
(* that another connection blocks returns nil like one that has flushed, and *)
(* the drive cannot tell the two parks apart; the history does.              *)
SyncFloor ==
    /\ at = "sync"
    /\ \/ /\ Flush(Rows)
          /\ outcome' = [how |-> "parked", data |-> data]
       \/ /\ wal # <<>> /\ UNCHANGED <<safe, wal>>
          /\ outcome' = [how |-> "blocked", data |-> data]
    /\ at' = "off" /\ data' = NoRows
    /\ UNCHANGED <<strict, shadow, ckpts, touched, view, lost, orphan, pulled, mine, slips>>

(* Sync fails: the drive returns the error and saves its failed state. *)
SyncFails ==
    /\ at = "sync"
    /\ Slip
    /\ at' = "drive"
    /\ UNCHANGED <<strict, safe, wal, shadow, ckpts, data, touched, view, lost, orphan, pulled, mine, outcome>>

(* Delete, by this process (whose store drops its shadow and its cadence) or *)
(* by another one: it asks neither for the claim nor for the fencing token,  *)
(* so a drive may be under way.                                              *)
DeleteRun(here) ==
    /\ Rows # NoRows
    /\ Commit(NoRows)
    /\ shadow' = IF here THEN NoRows ELSE shadow
    /\ ckpts'  = IF here THEN 0 ELSE ckpts
    /\ pulled' = (pulled \/ at # "off") /\ outcome' = Running
    /\ UNCHANGED <<strict, data, touched, view, lost, orphan, at, mine, slips>>

---------------------------------------------------------------------------
(* Crashes, and the other process of a multi-process store *)

MemoryLost ==
    /\ shadow' = NoRows /\ ckpts' = 0 /\ data' = NoRows
    /\ touched' = {} /\ view' = "none" /\ at' = "off"
    /\ UNCHANGED <<lost, orphan, pulled>>

StoreCrash == Slip /\ at # "off" /\ MemoryLost /\ UNCHANGED <<strict, safe, wal, mine, outcome>>

(* Any prefix of the WAL may have reached the disk. *)
PowerLoss ==
    /\ Slip
    /\ wal # <<>>
    /\ \E n \in 0..Len(wal) : safe' = IF n = 0 THEN safe ELSE wal[n]
    /\ wal' = <<>>
    /\ MemoryLost
    /\ UNCHANGED <<strict, mine, outcome>>

TakenOver == Slip /\ mine /\ mine' = FALSE
             /\ UNCHANGED <<strict, safe, wal, shadow, ckpts, data, touched, view, lost, orphan, pulled, at, outcome>>

(* The new owner writes, or starts the run anew; this process's shadow knows *)
(* nothing of it.                                                            *)
ForeignCommit ==
    /\ ~mine
    /\ \E k \in Keys, v \in Vals : RowsOrEmpty[k] # v /\ Commit([RowsOrEmpty EXCEPT ![k] = v])
    /\ outcome' = Running
    /\ UNCHANGED <<strict, shadow, ckpts, data, touched, view, lost, orphan, pulled, at, mine, slips>>

(* checkFencingLocked refuses every write of the drive, its last Save too. *)
FencedWrite ==
    /\ at # "off" /\ ~mine /\ view = "none"
    /\ at' = "off" /\ data' = NoRows /\ Forget
    /\ UNCHANGED <<strict, safe, wal, shadow, ckpts, pulled, mine, outcome, slips>>

ClaimedBack ==
    /\ at = "off" /\ ~mine
    /\ mine' = TRUE /\ outcome' = Running
    /\ UNCHANGED <<strict, safe, wal, shadow, ckpts, data, touched, view, lost, orphan, pulled, at, slips>>

SqNext ==
    \/ \E phase \in {"drive", "plain", "undo"} : LoadRun(phase)
    \/ TurnBack \/ UndoSaves \/ UndoSaveFails \/ ViewAcquired \/ ViewReleased
    \/ \E k \in Keys, v \in Vals \cup {Absent}, by \in {"none", "fresh", "old"} : SetKey(k, v, by)
    \/ \E walOK \in BOOLEAN : \/ \E then \in {"drive", "sync"} : DeltaCheckpoint(then, walOK)
                             \/ DiffCheckpoint(walOK)
    \/ DeltaFails \/ DiffFails \/ FinalSave \/ SaveFails \/ SyncFloor \/ SyncFails
    \/ \E here \in BOOLEAN : DeleteRun(here)
    \/ StoreCrash \/ PowerLoss \/ TakenOver \/ ForeignCommit \/ FencedWrite \/ ClaimedBack

SqSpec == SqInit /\ [][SqNext]_sqVars

---------------------------------------------------------------------------
(* Properties *)

(* While this process owns the run, a row differs from the data only where a *)
(* later checkpoint still knows of it: its key was touched since.  So no     *)
(* shadow of an earlier drive, no write of another process in between and no *)
(* SaveCheckpoint that rolled back hides a change from the incremental       *)
(* writes (workflow_store_sqlite_incremental.go, AF1).  Three holes of the   *)
(* code are cut out, by name: keys drained for a delta checkpoint that       *)
(* failed, keys set through a view older than the last drain, and a run that *)
(* was deleted under the drive, or under the shadow that Load then left.     *)
NothingForgotten ==
    at \in {"drive", "plain", "undo"} /\ mine /\ ~pulled =>
        \A k \in Keys : RowsOrEmpty[k] # data[k] => k \in touched \cup lost \cup orphan

(* A run that returned ErrSuspended is safe against a power loss, whatever   *)
(* the durability mode and the cadence (workflow_store_groupcommit.go: "a    *)
(* park and run-completion MUST be fsync-durable regardless of mode"), but   *)
(* for the keys the capture had dropped, and unless the WAL checkpoint of    *)
(* its Sync was blocked, which the code takes for a flush; under Strict      *)
(* there is nothing a blocked checkpoint could leave behind.                 *)
ParkedIsDurable ==
    /\ strict => outcome.how # "blocked"
    /\ outcome.how = "parked" /\ mine /\ ~pulled =>
          \A k \in Keys : (IF safe = NoRows THEN Empty ELSE safe)[k] # outcome.data[k] => k \in lost \cup orphan

(* What IncrementalCheckpointer asks of its caller and its store: "The union *)
(* of a run's delta checkpoints must reconstruct byte-identically to a full  *)
(* SaveCheckpoint."  With nothing left to drain, no view out and no failed   *)
(* checkpoint, the rows are the data.                                        *)
DeltaUnionIsTheState ==
    at = "drive" /\ mine /\ ~pulled /\ view = "none" /\ touched = {} /\ lost = {} =>
        RowsOrEmpty = data
=============================================================================

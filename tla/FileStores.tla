----------------------------- MODULE FileStores -----------------------------
(***************************************************************************)
(* The file and in-memory snapshot stores (workflow_store.go) and the group *)
(* commit of the FlatBuffers store (workflow_store_groupcommit.go), for one *)
(* run.  A snapshot is told by its version: every state that is handed to   *)
(* the store gets the next one.  0 is "no file" or "nothing retained".      *)
(*                                                                          *)
(* Calls hold the store's mutex, so one call is under way at a time; a      *)
(* write has two steps, the temporary file and the rename, with a crash or  *)
(* a failure possible before each.                                          *)
(***************************************************************************)
EXTENDS Integers

CONSTANTS GroupK,      \* WithFlatBuffersBatched(K): the fsync cadence
          MaxVersion,  \* bound: states handed to the store
          MaxFaults    \* bound: failed calls and crashes

ASSUME FileStoresAssumption == /\ GroupK \in Nat \ {0}
                               /\ MaxVersion \in Nat /\ MaxFaults \in Nat

VARIABLES format,   \* "fb", "json" or "memory"
          file,     \* the version in <id>.fb, <id>.json or the map
          retained, \* FlatBuffersStore.pending
          cadence,  \* FlatBuffersStore.ckptCount, modulo K
          versions, \* states handed out so far
          driving,  \* the run's drive: "off", "on", or "failing" towards its Save
          call,     \* the write under way
          acked,    \* history: the last version a call accepted, and not deleted
          atRisk,   \* history: checkpoints of this drive that are in memory only
          missed,   \* history: boundary writes of this drive that have failed
                    \* since the last write
          synced,   \* history: the last call was a Sync that returned nil
          faults

fsVars == <<format, file, retained, cadence, versions, driving, call, acked, atRisk, missed, synced, faults>>

NoCall == [op |-> "none", v |-> 0, temp |-> FALSE]

FsTypeOK ==
    /\ format \in {"fb", "json", "memory"}
    /\ {file, retained, acked} \subseteq 0..versions /\ versions \in 0..MaxVersion
    /\ cadence \in 0..GroupK - 1
    /\ driving \in {"off", "on", "failing"}
    /\ call \in [op : {"none", "checkpoint", "save", "sync"}, v : 0..MaxVersion, temp : BOOLEAN]
    /\ atRisk \in Nat /\ missed \in 0..faults /\ synced \in BOOLEAN /\ faults \in 0..MaxFaults

FsInit ==
    /\ format \in {"fb", "json", "memory"}
    /\ file = 0 /\ retained = 0 /\ cadence = 0 /\ versions = 0
    /\ driving = "off" /\ call = NoCall
    /\ acked = 0 /\ atRisk = 0 /\ missed = 0 /\ synced = FALSE /\ faults = 0

Fault == faults < MaxFaults /\ faults' = faults + 1

Begin(op, v) == call' = [NoCall EXCEPT !.op = op, !.v = v]

---------------------------------------------------------------------------
(* Load: a drive goes on from the file, not from what is retained. *)
FsLoad ==
    /\ call = NoCall /\ driving = "off"
    /\ driving' = "on" /\ atRisk' = 0 /\ missed' = 0 /\ synced' = FALSE
    /\ UNCHANGED <<format, file, retained, cadence, versions, call, acked, faults>>

(* Mutant of Boundary: the checkpoint after the Kth is written.              *)
BoundaryLate == format # "fb" \/ (cadence = 0 /\ retained # 0)

(* The cadence of group commit: which checkpoint is written. *)
Boundary == format # "fb" \/ cadence + 1 = GroupK

(* SaveCheckpoint: the JSON and in-memory stores write; the FlatBuffers      *)
(* store counts, and writes at the boundary or retains a clone.              *)
FsCheckpoint ==
    /\ call = NoCall /\ driving = "on" /\ versions < MaxVersion
    /\ versions' = versions + 1
    /\ cadence' = IF format = "fb" THEN (cadence + 1) % GroupK ELSE cadence
    /\ synced' = FALSE
    /\ IF Boundary
       THEN Begin("checkpoint", versions') /\ UNCHANGED <<retained, acked, atRisk>>
       ELSE /\ retained' = versions' /\ acked' = versions'
            /\ atRisk' = atRisk + 1
            /\ UNCHANGED call
    /\ UNCHANGED <<format, file, driving, missed, faults>>

(* Save, at the end of a drive or on its failure. *)
FsSave ==
    /\ call = NoCall /\ driving # "off" /\ versions < MaxVersion
    /\ versions' = versions + 1 /\ synced' = FALSE
    /\ Begin("save", versions')
    /\ UNCHANGED <<format, file, retained, cadence, driving, acked, atRisk, missed, faults>>

(* Mutant of FsSync: the retained state is taken, not peeked at.             *)
FsSyncTakes ==
    /\ call = NoCall /\ format = "fb"
    /\ synced' = (retained = 0)
    /\ IF retained = 0 THEN UNCHANGED call ELSE Begin("sync", retained)
    /\ retained' = 0
    /\ UNCHANGED <<format, file, cadence, versions, driving, acked, atRisk, missed, faults>>

(* Sync, by the park or by the host: nothing retained is nil at once. *)
FsSync ==
    /\ call = NoCall /\ format = "fb"
    /\ synced' = (retained = 0)
    /\ IF retained = 0 THEN UNCHANGED call ELSE Begin("sync", retained)
    /\ UNCHANGED <<format, file, retained, cadence, versions, driving, acked, atRisk, missed, faults>>

(* A drive that has parked and synced returns ErrSuspended. *)
FsParked ==
    /\ call = NoCall /\ driving = "on"
    /\ format = "fb" => synced
    /\ driving' = "off"
    /\ UNCHANGED <<format, file, retained, cadence, versions, call, acked, atRisk, missed, synced, faults>>

(* writeFileAtomic, up to the rename: the old file is still the file. *)
FsTemp ==
    /\ call.op # "none" /\ ~call.temp
    /\ call' = [call EXCEPT !.temp = TRUE]
    /\ UNCHANGED <<format, file, retained, cadence, versions, driving, acked, atRisk, missed, synced, faults>>

(* The rename and what the caller does after it: every write supersedes what *)
(* was retained, a Save also ends the cadence.                               *)
FsRename ==
    /\ call.temp
    /\ file' = call.v /\ retained' = 0 /\ atRisk' = 0 /\ missed' = 0
    /\ cadence' = IF call.op = "save" THEN 0 ELSE cadence
    /\ driving' = IF call.op = "save" THEN "off" ELSE driving
    /\ acked'   = IF call.op = "sync" THEN acked ELSE call.v
    /\ synced'  = (call.op = "sync")
    /\ call' = NoCall
    /\ UNCHANGED <<format, versions, faults>>

(* The write is refused (a ceiling, a value too deep to encode) or fails:    *)
(* the temporary file is removed, nothing is cleared, and the cadence has    *)
(* passed its boundary.  A drive whose barrier checkpoint failed goes on to  *)
(* its Save; a fan-out's flush of its expansion fails the attempt of its     *)
(* node only, and with retries or WithContinueOnError the drive goes on.     *)
FsWriteFails ==
    /\ call.op # "none" /\ format # "memory"
    /\ Fault
    /\ call' = NoCall
    /\ driving' \in CASE call.op = "checkpoint" -> {"failing", "on"}
                      [] call.op = "save" -> {"off"}
                      [] OTHER -> {driving}
    /\ missed' = IF call.op = "checkpoint" THEN missed + 1 ELSE missed
    /\ UNCHANGED <<format, file, retained, cadence, versions, acked, atRisk, synced>>

(* Delete: the batch state goes first, then the file (or its removal fails).*)
(* The mailbox it reclaims is in module Mailbox.                             *)
FsDelete(removed) ==
    /\ call = NoCall /\ driving = "off"
    /\ retained' = 0 /\ cadence' = 0
    /\ \/ removed /\ file' = 0 /\ UNCHANGED faults
       \/ ~removed /\ format # "memory" /\ Fault /\ UNCHANGED file
    /\ acked' = file' /\ atRisk' = 0 /\ missed' = 0 /\ synced' = FALSE
    /\ UNCHANGED <<format, versions, driving, call>>

(* The process dies, or the power fails: what is retained is gone, and the   *)
(* file is the one before or after the rename.                               *)
FsCrash ==
    /\ Fault
    /\ file' = IF format = "memory" THEN 0 ELSE file
    /\ retained' = 0 /\ cadence' = 0 /\ driving' = "off" /\ call' = NoCall
    /\ acked' = file' /\ atRisk' = 0 /\ missed' = 0 /\ synced' = FALSE
    /\ UNCHANGED <<format, versions>>

FsNext == \/ FsLoad \/ FsCheckpoint \/ FsSave \/ FsSync \/ FsParked
          \/ FsTemp \/ FsRename \/ FsWriteFails \/ FsCrash
          \/ \E removed \in BOOLEAN : FsDelete(removed)

FsSpec == FsInit /\ [][FsNext]_fsVars

---------------------------------------------------------------------------
(* Properties *)

(* When Sync returns nil, the file holds the last state a call accepted, and *)
(* no file when the run was deleted: a flush that failed is retried, a       *)
(* superseded or deleted state is not brought back                           *)
(* (workflow_store_groupcommit.go: "nil implies fsync-durable"; the Delete   *)
(* that would "RESURRECT the deleted workflow").                             *)
SyncedIsCurrent == synced => file = acked

(* A crash takes back at most K-1 checkpoints of the drive it interrupts,    *)
(* whatever Syncs and restarts of the drive have done to the cadence         *)
(* (workflow_store_groupcommit.go: "A crash loses <= K un-checkpointed       *)
(* levels"), and another K-1 for every write at a boundary that has failed   *)
(* since the last one that did not: SaveCheckpoint counts the boundary       *)
(* before it writes, and the next write is K checkpoints away.               *)
LossBounded == atRisk <= (missed + 1) * (GroupK - 1)
=============================================================================

---------------------------- MODULE StoresProofs ----------------------------
(***************************************************************************)
(* Proofs about the stores of a run: the file stores and their group        *)
(* commit, for any cadence K, any number of states and faults; the file     *)
(* mailbox, for any number of deliverers and signals; the SQLite writes,    *)
(* for any rows, values, cadence and WAL limit.                             *)
(***************************************************************************)
EXTENDS FileStores, Mailbox, SqliteStore, FiniteSetTheorems, TLAPS

---------------------------------------------------------------------------
(* FileStores *)

(* The write under way carries a state that was handed out, a Sync the one   *)
(* that is retained.                                                         *)
FsCallOK ==
    /\ call.v <= versions
    /\ call.op = "checkpoint" => driving = "on"
    /\ call.op = "sync" => call.v = retained /\ retained # 0
    /\ call.temp => call.op # "none"

(* What the last accepted state is found in: the batch, or else the file. *)
FsAckedIsKept ==
    /\ retained = 0 => file = acked
    /\ retained # 0 => retained = acked

(* Between a Sync that returned nil and the next write nothing is retained. *)
FsSyncedKeepsNothing == synced \in BOOLEAN /\ (synced => retained = 0)

(* What n boundaries can leave in memory. *)
Allowed(n) == n * (GroupK - 1)

(* While a drive can still checkpoint, what it has at risk is what the       *)
(* boundaries it missed have left, and what the cadence counts; the          *)
(* boundary's own write resets the one before the other.                     *)
FsCadenceCounts ==
    /\ atRisk <= Allowed(missed + 1)
    /\ driving = "on" /\ call.op # "checkpoint" => atRisk <= Allowed(missed) + cadence

(* FsTypeOK but for synced. *)
FsTypes ==
    /\ format \in {"fb", "json", "memory"}
    /\ file \in 0..versions /\ retained \in 0..versions /\ acked \in 0..versions
    /\ versions \in 0..MaxVersion
    /\ cadence \in 0..GroupK - 1
    /\ driving \in {"off", "on", "failing"}
    /\ call \in [op : {"none", "checkpoint", "save", "sync"}, v : 0..MaxVersion, temp : BOOLEAN]
    /\ atRisk \in Nat /\ missed \in 0..faults /\ faults \in 0..MaxFaults

FsInv == FsTypes /\ FsCallOK /\ FsAckedIsKept /\ FsCadenceCounts

(* The cadence counts up to K-1 and then starts again. *)
LEMMA CadenceStep ==
  ASSUME NEW c \in 0..GroupK - 1
  PROVE  /\ (c + 1) % GroupK \in 0..GroupK - 1
         /\ c + 1 # GroupK => (c + 1) % GroupK = c + 1
  BY FileStoresAssumption

LEMMA AllowedStep ==
  ASSUME NEW n \in Nat
  PROVE  Allowed(n) \in Nat /\ Allowed(n + 1) = Allowed(n) + (GroupK - 1)
  BY FileStoresAssumption DEF Allowed

(* A call starts without its temporary file. *)
LEMMA BeginCall ==
  ASSUME NEW op, NEW v, Begin(op, v)
  PROVE  call' = [op |-> op, v |-> v, temp |-> FALSE]
  BY DEF Begin, NoCall

LEMMA FsInitInv == FsInit => FsInv /\ FsSyncedKeepsNothing
<1> SUFFICES ASSUME FsInit PROVE FsInv /\ FsSyncedKeepsNothing
  OBVIOUS
<1>1. FsInv
  BY FileStoresAssumption, AllowedStep
     DEF FsInit, FsInv, FsTypes, FsCallOK, FsAckedIsKept, FsCadenceCounts, NoCall
<1>2. FsSyncedKeepsNothing
  BY Zenon DEF FsInit, FsSyncedKeepsNothing
<1> QED
  BY <1>1, <1>2

LEMMA FsNextInv == FsInv /\ [FsNext]_fsVars => FsInv'
<1> SUFFICES ASSUME FsInv, [FsNext]_fsVars PROVE FsInv'
  OBVIOUS
<1> USE FileStoresAssumption DEF FsInv, FsTypes, FsCallOK, FsAckedIsKept, FsCadenceCounts
<1>0. /\ missed \in Nat /\ Allowed(missed) \in Nat
      /\ Allowed(missed + 1) = Allowed(missed) + (GroupK - 1)
      /\ Allowed(0) \in Nat /\ Allowed(0 + 1) \in Nat
  BY AllowedStep
<1>1. CASE FsLoad
  BY <1>0, <1>1 DEF FsLoad, NoCall
<1>2. CASE FsCheckpoint
  <2>1. versions + 1 \in 1..MaxVersion /\ cadence' \in 0..GroupK - 1
    BY <1>2, CadenceStep DEF FsCheckpoint
  <2>2. CASE Boundary
    <3>1. call' = [op |-> "checkpoint", v |-> versions', temp |-> FALSE]
      BY <1>2, <2>2, BeginCall DEF FsCheckpoint
    <3> QED
      BY <1>0, <1>2, <2>1, <2>2, <3>1 DEF FsCheckpoint, NoCall
  <2>3. CASE ~Boundary
    <3>1. cadence' = cadence + 1
      BY <1>2, <2>3, CadenceStep DEF FsCheckpoint, Boundary
    <3>2. /\ retained' = versions + 1 /\ acked' = versions + 1 /\ versions' = versions + 1
          /\ atRisk' = atRisk + 1 /\ call' = NoCall /\ call = NoCall
          /\ UNCHANGED <<format, file, driving, missed, faults>> /\ driving = "on"
      BY <1>2, <2>3 DEF FsCheckpoint
    <3>3. atRisk + 1 <= Allowed(missed) + cadence' /\ atRisk + 1 <= Allowed(missed + 1)
      BY <1>0, <2>1, <3>1, <3>2 DEF NoCall
    <3> QED
      BY <2>1, <3>1, <3>2, <3>3 DEF NoCall
  <2> QED
    BY <2>2, <2>3
<1>3. CASE FsSave
  <2>1. call' = [op |-> "save", v |-> versions', temp |-> FALSE]
    BY <1>3, BeginCall DEF FsSave
  <2> QED
    BY <1>0, <1>3, <2>1 DEF FsSave, NoCall
<1>4. CASE FsSync
  <2>1. CASE retained = 0
    BY <1>4, <2>1 DEF FsSync, NoCall
  <2>2. CASE retained # 0
    <3>1. call' = [op |-> "sync", v |-> retained, temp |-> FALSE]
      BY <1>4, <2>2, BeginCall DEF FsSync
    <3> QED
      BY <1>4, <2>2, <3>1 DEF FsSync, NoCall
  <2> QED
    BY <2>1, <2>2
<1>5. CASE FsParked
  BY <1>5 DEF FsParked, NoCall
<1>6. CASE FsTemp
  <2>1. call' = [op |-> call.op, v |-> call.v, temp |-> TRUE]
    BY <1>6 DEF FsTemp
  <2> QED
    BY <1>6, <2>1 DEF FsTemp
<1>7. CASE FsRename
  BY <1>0, <1>7 DEF FsRename, NoCall
<1>8. CASE FsWriteFails
  <2>1. CASE call.op = "checkpoint"
    <3>1. missed' = missed + 1 /\ atRisk' = atRisk /\ cadence' = cadence /\ atRisk <= Allowed(missed')
      BY <1>8, <2>1 DEF FsWriteFails
    <3>2. Allowed(missed') \in Nat /\ Allowed(missed' + 1) = Allowed(missed') + (GroupK - 1)
      BY <1>0, <3>1, AllowedStep
    <3> QED
      BY <1>8, <2>1, <3>1, <3>2 DEF FsWriteFails, Fault, NoCall
  <2>2. CASE call.op # "checkpoint"
    BY <1>0, <1>8, <2>2 DEF FsWriteFails, Fault, NoCall
  <2> QED
    BY <2>1, <2>2
<1>9. ASSUME NEW removed \in BOOLEAN, FsDelete(removed) PROVE FsInv'
  BY <1>0, <1>9 DEF FsDelete, Fault, NoCall
<1>10. CASE FsCrash
  BY <1>0, <1>10 DEF FsCrash, Fault, NoCall
<1>11. CASE UNCHANGED fsVars
  BY <1>11 DEF fsVars
<1> QED
  BY <1>1, <1>2, <1>3, <1>4, <1>5, <1>6, <1>7, <1>8, <1>9, <1>10, <1>11 DEF FsNext

LEMMA FsSyncedNext == FsSyncedKeepsNothing /\ [FsNext]_fsVars => FsSyncedKeepsNothing'
<1> SUFFICES ASSUME FsSyncedKeepsNothing, [FsNext]_fsVars PROVE FsSyncedKeepsNothing'
  OBVIOUS
<1> USE DEF FsSyncedKeepsNothing
<1>1. CASE FsLoad \/ FsCheckpoint \/ FsSave \/ FsCrash \/ \E removed \in BOOLEAN : FsDelete(removed)
  <2>1. synced' = FALSE
    BY <1>1, Zenon DEF FsLoad, FsCheckpoint, FsSave, FsCrash, FsDelete
  <2> QED
    BY <2>1, Zenon
<1>2. CASE FsParked \/ FsTemp \/ FsWriteFails \/ UNCHANGED fsVars
  <2>1. synced' = synced /\ retained' = retained
    BY <1>2, Zenon DEF FsParked, FsTemp, FsWriteFails, fsVars
  <2> QED
    BY <2>1, Zenon
<1>3. CASE FsSync
  <2>1. synced' = (retained = 0) /\ retained' = retained
    BY <1>3, Zenon DEF FsSync
  <2> QED
    BY <2>1, Zenon
<1>4. CASE FsRename
  <2>1. synced' = (call.op = "sync") /\ retained' = 0
    BY <1>4, Zenon DEF FsRename
  <2> QED
    BY <2>1, Zenon
<1> QED
  BY <1>1, <1>2, <1>3, <1>4 DEF FsNext

LEMMA FsInvariant == FsSpec => [](FsInv /\ FsSyncedKeepsNothing)
  BY FsInitInv, FsNextInv, FsSyncedNext, PTL DEF FsSpec

(* The store keeps to the domains of its state: no version is in the file,   *)
(* the batch or the history before it was handed out.                        *)
THEOREM FileTypeCorrect == FsSpec => []FsTypeOK
<1>1. FsInv /\ FsSyncedKeepsNothing => FsTypeOK
  BY DEF FsInv, FsTypes, FsSyncedKeepsNothing, FsTypeOK
<1> QED
  BY <1>1, FsInvariant, PTL

(* Whatever K, and whatever writes failed before it: a Sync that returned    *)
(* nil means that the file is the last accepted state (FlatBuffersStore.Sync).*)
THEOREM SyncHolds == FsSpec => []SyncedIsCurrent
<1>1. FsInv /\ FsSyncedKeepsNothing => SyncedIsCurrent
  BY DEF FsInv, FsAckedIsKept, FsSyncedKeepsNothing, SyncedIsCurrent
<1> QED
  BY <1>1, FsInvariant, PTL

(* Whatever K, and whatever Syncs and restarts did to the cadence: a drive   *)
(* has at most K-1 checkpoints in memory only, and K-1 more for every        *)
(* boundary whose write failed and after which it went on.                   *)
THEOREM LossHolds == FsSpec => []LossBounded
<1>1. FsInv => LossBounded
  BY DEF FsInv, FsCadenceCounts, LossBounded, Allowed
<1> QED
  BY <1>1, FsInvariant, PTL

---------------------------------------------------------------------------
(* Mailbox *)

(* MbTypeOK but for the two flags, and a delivery under way has its signal. *)
MbTypes ==
    /\ flock \in Deliverer \cup {Remover, Nobody}
    /\ entries \subseteq SignalId /\ stubs \in Nat
    /\ delivery \in [Deliverer -> [at : {"idle", "lock", "count", "mkdir", "temp", "rename", "unlock"},
                                   id : SignalId \cup {Nobody}]]
    /\ removal \in {"idle", "lock", "remove"}
    /\ take \in [at : {"idle", "read", "ack"}, listed : SUBSET SignalId, read : SUBSET SignalId]
    /\ deaths \in 0..MaxDeaths
    /\ \A d \in Deliverer : delivery[d].at # "idle" => delivery[d].id \in SignalId

MbFlags == lockFile \in BOOLEAN /\ dir \in BOOLEAN

(* A delivery past the flock holds it. *)
FlockHeld ==
    \A d \in Deliverer :
        delivery[d].at \in {"count", "mkdir", "temp", "rename", "unlock"} => flock = d

(* What a delivery was admitted for still fits when it is renamed in place:  *)
(* nothing is added by others while it holds the flock.                      *)
Admitted ==
    \A d \in Deliverer :
        delivery[d].at \in {"mkdir", "temp", "rename"} =>
            Cardinality(entries \cup {delivery[d].id}) <= MailboxCap

MbInv == MbTypes /\ FlockHeld /\ Admitted /\ MailboxWithinCap

(* A mailbox that lost entries has room for what it had room for. *)
LEMMA FewerFit ==
  ASSUME NEW S \in SUBSET SignalId, NEW T \in SUBSET S, Cardinality(S) <= MailboxCap
  PROVE  Cardinality(T) <= MailboxCap
  BY MailboxAssumption, FS_Subset, FS_CardinalityType

LEMMA MbInitInv == MbInit => MbInv /\ MbFlags
<1> SUFFICES ASSUME MbInit PROVE MbInv /\ MbFlags
  OBVIOUS
<1>1. MbTypes
  BY MailboxAssumption DEF MbInit, MbTypes, Resting, NotTaking
<1>2. FlockHeld /\ Admitted
  BY DEF MbInit, FlockHeld, Admitted, Resting
<1>3. MailboxWithinCap
  BY MailboxAssumption, FS_EmptySet DEF MbInit, MailboxWithinCap
<1>4. MbFlags
  BY Zenon DEF MbInit, MbFlags
<1> QED
  BY <1>1, <1>2, <1>3, <1>4 DEF MbInv

LEMMA MbFlagsNext == MbFlags /\ [MbNext]_mbVars => MbFlags'
  BY Zenon DEF MbFlags, MbNext, OpenLock, TakeFlock, CountEntries, MakeDir, WriteTemp, RenameEntry,
     ReturnDelivery, DelivererDies, ListDir, ReadEntry, AckEntry, AckDone, OpenForRemoval,
     LockForRemoval, RemoveDir, mbVars

LEMMA MbTypesNext == MbTypes /\ [MbNext]_mbVars => MbTypes'
<1> SUFFICES ASSUME MbTypes, [MbNext]_mbVars PROVE MbTypes'
  OBVIOUS
<1> USE MailboxAssumption DEF MbTypes
<1>1. ASSUME NEW d \in Deliverer, NEW id \in SignalId, OpenLock(d, id) PROVE MbTypes'
  BY <1>1 DEF OpenLock
<1>2. ASSUME NEW d \in Deliverer, TakeFlock(d) PROVE MbTypes'
  BY <1>2 DEF TakeFlock, Moves
<1>3. ASSUME NEW d \in Deliverer, CountEntries(d) PROVE MbTypes'
  BY <1>3 DEF CountEntries, Moves
<1>4. ASSUME NEW d \in Deliverer, MakeDir(d) \/ WriteTemp(d) PROVE MbTypes'
  BY <1>4 DEF MakeDir, WriteTemp, Moves
<1>5. ASSUME NEW d \in Deliverer, RenameEntry(d) PROVE MbTypes'
  BY <1>5 DEF RenameEntry, Moves
<1>6. ASSUME NEW d \in Deliverer, ReturnDelivery(d) PROVE MbTypes'
  BY <1>6 DEF ReturnDelivery, Resting
<1>7. ASSUME NEW d \in Deliverer, DelivererDies(d) PROVE MbTypes'
  <2>1. stubs' \in Nat
    <3>1. stubs' = stubs \/ stubs' = stubs + 1
      BY <1>7 DEF DelivererDies
    <3> QED
      BY <3>1
  <2>2. /\ deaths' \in 0..MaxDeaths /\ flock' \in {flock, Nobody}
        /\ delivery' = [delivery EXCEPT ![d] = Resting]
        /\ UNCHANGED <<entries, removal, take>>
    BY <1>7 DEF DelivererDies
  <2> QED
    BY <2>1, <2>2 DEF Resting
<1>8. CASE ListDir \/ AckDone
  <2>1. take' \in {NotTaking, [at |-> "read", listed |-> entries, read |-> {}]}
    BY <1>8 DEF ListDir, AckDone
  <2>2. UNCHANGED <<flock, entries, stubs, delivery, removal, deaths>>
    BY <1>8 DEF ListDir, AckDone
  <2> QED
    BY <2>1, <2>2 DEF NotTaking
<1>9. ASSUME NEW id \in SignalId, ReadEntry(id) \/ AckEntry(id) PROVE MbTypes'
  <2>1. CASE ReadEntry(id)
    <3>1. take' \in [at : {"idle", "read", "ack"}, listed : SUBSET SignalId, read : SUBSET SignalId]
      BY <2>1 DEF ReadEntry
    <3> QED
      BY <2>1, <3>1 DEF ReadEntry
  <2>2. CASE AckEntry(id)
    <3>1. take' \in [at : {"idle", "read", "ack"}, listed : SUBSET SignalId, read : SUBSET SignalId]
      BY <2>2 DEF AckEntry
    <3> QED
      BY <2>2, <3>1 DEF AckEntry
  <2> QED
    BY <1>9, <2>1, <2>2
<1>10. CASE OpenForRemoval \/ LockForRemoval \/ RemoveDir
  BY <1>10 DEF OpenForRemoval, LockForRemoval, RemoveDir
<1>11. CASE UNCHANGED mbVars
  BY <1>11 DEF mbVars
<1> QED
  BY <1>1, <1>2, <1>3, <1>4, <1>5, <1>6, <1>7, <1>8, <1>9, <1>10, <1>11 DEF MbNext

LEMMA FlockNext == MbTypes /\ FlockHeld /\ [MbNext]_mbVars => FlockHeld'
<1> SUFFICES ASSUME MbTypes, FlockHeld, [MbNext]_mbVars PROVE FlockHeld'
  OBVIOUS
<1> USE MailboxAssumption DEF MbTypes, FlockHeld
<1>1. ASSUME NEW d \in Deliverer, NEW id \in SignalId, OpenLock(d, id) PROVE FlockHeld'
  BY <1>1 DEF OpenLock
<1>2. ASSUME NEW d \in Deliverer, TakeFlock(d) PROVE FlockHeld'
  BY <1>2 DEF TakeFlock, Moves
<1>3. ASSUME NEW d \in Deliverer, CountEntries(d) \/ MakeDir(d) \/ WriteTemp(d) \/ RenameEntry(d)
      PROVE  FlockHeld'
  BY <1>3 DEF CountEntries, MakeDir, WriteTemp, RenameEntry, Moves
<1>4. ASSUME NEW d \in Deliverer, ReturnDelivery(d) \/ DelivererDies(d) PROVE FlockHeld'
  BY <1>4 DEF ReturnDelivery, DelivererDies, Resting
<1>5. CASE ListDir \/ AckDone \/ \E id \in SignalId : ReadEntry(id) \/ AckEntry(id)
  BY <1>5 DEF ListDir, AckDone, ReadEntry, AckEntry
<1>6. CASE OpenForRemoval \/ LockForRemoval \/ RemoveDir
  BY <1>6 DEF OpenForRemoval, LockForRemoval, RemoveDir
<1>7. CASE UNCHANGED mbVars
  BY <1>7 DEF mbVars
<1> QED
  BY <1>1, <1>2, <1>3, <1>4, <1>5, <1>6, <1>7 DEF MbNext

(* The admission stands, and so does the cap. *)
LEMMA AdmittedNext == MbInv /\ [MbNext]_mbVars => Admitted' /\ MailboxWithinCap'
<1> SUFFICES ASSUME MbInv, [MbNext]_mbVars PROVE Admitted' /\ MailboxWithinCap'
  OBVIOUS
<1> USE MailboxAssumption DEF MbInv, MbTypes
<1>1. ASSUME NEW d \in Deliverer,
             delivery'[d].at \in {"mkdir", "temp", "rename"},
             delivery'[d].id = delivery[d].id,
             delivery[d].at \in {"mkdir", "temp", "rename"},
             entries' \subseteq entries
      PROVE  Cardinality(entries' \cup {delivery'[d].id}) <= MailboxCap
  <2>1. entries \cup {delivery[d].id} \in SUBSET SignalId
    BY <1>1
  <2>3. Cardinality(entries \cup {delivery[d].id}) <= MailboxCap
    BY <1>1 DEF Admitted
  <2>2. entries' \cup {delivery'[d].id} \in SUBSET (entries \cup {delivery[d].id})
    BY <1>1
  <2> QED
    BY <2>1, <2>2, <2>3, FewerFit
<1>2. ASSUME entries' \subseteq entries PROVE MailboxWithinCap'
  BY <1>2, FewerFit DEF MailboxWithinCap
<1>3. ASSUME NEW d \in Deliverer, NEW id \in SignalId, OpenLock(d, id)
      PROVE  Admitted' /\ MailboxWithinCap'
  BY <1>1, <1>2, <1>3 DEF OpenLock, Admitted
<1>4. ASSUME NEW d \in Deliverer, TakeFlock(d) \/ MakeDir(d) \/ WriteTemp(d)
      PROVE  Admitted' /\ MailboxWithinCap'
  BY <1>1, <1>2, <1>4 DEF TakeFlock, MakeDir, WriteTemp, Moves, Admitted
<1>5. ASSUME NEW d \in Deliverer, CountEntries(d) PROVE Admitted' /\ MailboxWithinCap'
  <2>1. IsFiniteSet(entries) /\ Cardinality(entries) \in Nat
    BY FS_Subset, FS_CardinalityType
  <2>2. DirEntries >= Cardinality(entries)
    <3>1. IsFiniteSet(Temps)
      BY FS_Subset DEF Temps
    <3>2. Cardinality(Temps) \in Nat
      BY <3>1, FS_CardinalityType
    <3> QED
      BY <2>1, <3>2 DEF DirEntries
  <2>3. DirEntries \in Int
    <3>1. IsFiniteSet(Temps)
      BY FS_Subset DEF Temps
    <3>2. Cardinality(Temps) \in Nat
      BY <3>1, FS_CardinalityType
    <3> QED
      BY <2>1, <3>2 DEF DirEntries
  <2>4. delivery'[d].at = "mkdir" => Cardinality(entries \cup {delivery[d].id}) <= MailboxCap
    <3> SUFFICES ASSUME delivery'[d].at = "mkdir"
                 PROVE  Cardinality(entries \cup {delivery[d].id}) <= MailboxCap
      OBVIOUS
    <3>1. delivery[d].id \in entries \/ DirEntries + 1 <= MailboxCap
      BY <1>5, <2>3 DEF CountEntries, Moves
    <3>2. CASE delivery[d].id \in entries
      <4>1. entries \cup {delivery[d].id} = entries
        BY <3>2
      <4> QED
        BY <4>1 DEF MailboxWithinCap
    <3>3. CASE DirEntries + 1 <= MailboxCap
      <4>1. Cardinality(entries \cup {delivery[d].id}) =
               IF delivery[d].id \in entries THEN Cardinality(entries) ELSE Cardinality(entries) + 1
        BY <2>1, FS_AddElement, Zenon
      <4> QED
        BY <2>1, <2>2, <2>3, <3>3, <4>1
    <3> QED
      BY <3>1, <3>2, <3>3
  <2>5. /\ entries' = entries /\ delivery'[d].at \in {"mkdir", "unlock"}
        /\ delivery'[d].id = delivery[d].id
        /\ \A o \in Deliverer \ {d} : delivery'[o] = delivery[o]
    BY <1>5 DEF CountEntries, Moves
  <2> QED
    BY <1>1, <1>2, <2>4, <2>5 DEF Admitted
<1>6. ASSUME NEW d \in Deliverer, RenameEntry(d) PROVE Admitted' /\ MailboxWithinCap'
  <2>1. ASSUME NEW o \in Deliverer, delivery'[o].at \in {"mkdir", "temp", "rename"} PROVE FALSE
    <3>1. o # d /\ delivery[o].at \in {"mkdir", "temp", "rename"} /\ delivery[d].at = "rename"
      BY <1>6, <2>1 DEF RenameEntry, Moves
    <3> QED
      BY <3>1 DEF FlockHeld
  <2>2. MailboxWithinCap'
    BY <1>6 DEF RenameEntry, Admitted, MailboxWithinCap
  <2> QED
    BY <2>1, <2>2 DEF Admitted
<1>7. ASSUME NEW d \in Deliverer, ReturnDelivery(d) \/ DelivererDies(d)
      PROVE  Admitted' /\ MailboxWithinCap'
  <2>1. /\ entries' = entries /\ delivery'[d].at = "idle"
        /\ \A o \in Deliverer \ {d} : delivery'[o] = delivery[o]
    BY <1>7 DEF ReturnDelivery, DelivererDies, Resting
  <2> QED
    BY <1>1, <1>2, <2>1 DEF Admitted
<1>8. CASE \/ ListDir \/ AckDone \/ (\E id \in SignalId : ReadEntry(id) \/ AckEntry(id))
           \/ OpenForRemoval \/ LockForRemoval \/ RemoveDir \/ UNCHANGED mbVars
  <2>1. delivery' = delivery /\ entries' \subseteq entries
    BY <1>8 DEF ListDir, AckDone, ReadEntry, AckEntry, OpenForRemoval, LockForRemoval, RemoveDir, mbVars
  <2> QED
    BY <1>1, <1>2, <2>1 DEF Admitted
<1> QED
  BY <1>3, <1>4, <1>5, <1>6, <1>7, <1>8 DEF MbNext

LEMMA MbInvariant == MbSpec => [](MbInv /\ MbFlags)
<1>1. MbInv /\ [MbNext]_mbVars => MbInv'
  BY MbTypesNext, FlockNext, AdmittedNext DEF MbInv
<1> QED
  BY <1>1, MbInitInv, MbFlagsNext, PTL DEF MbSpec

(* The mailbox keeps to the domains of its state. *)
THEOREM MailboxTypeCorrect == MbSpec => []MbTypeOK
<1>1. MbInv /\ MbFlags => MbTypeOK
  BY DEF MbInv, MbTypes, MbFlags, MbTypeOK
<1> QED
  BY <1>1, MbInvariant, PTL

(* For any number of delivering processes, signals and deaths: the count     *)
(* under the flock and the rename after it are never separated by another    *)
(* delivery, so the cap that takeSignalsFromDir insists on is never passed.  *)
THEOREM MailboxHolds == MbSpec => []MailboxWithinCap
<1>1. MbInv => MailboxWithinCap
  BY DEF MbInv
<1> QED
  BY <1>1, MbInvariant, PTL

---------------------------------------------------------------------------
(* SqliteStore *)

Versions == RowSets \cup {NoRows}

(* SqTypeOK but for the flags; the data is there while a drive is. *)
SqTypes ==
    /\ safe \in Versions /\ wal \in Seq(Versions) /\ shadow \in Versions
    /\ data \in Versions /\ (at # "off" => data \in RowSets)
    /\ ckpts \in 0..BatchK - 1
    /\ touched \subseteq Keys /\ lost \subseteq Keys /\ orphan \subseteq Keys
    /\ view \in {"none", "fresh", "old"}
    /\ at \in {"off", "drive", "plain", "undo", "sync"}
    /\ outcome \in [how : {"none", "parked", "blocked", "done"}, data : Versions]
    /\ slips \in 0..MaxSlips

SqFlags == strict \in BOOLEAN /\ mine \in BOOLEAN /\ pulled \in BOOLEAN

(* The shadow that SaveCheckpoint diffs against is what is committed.  (In   *)
(* the other phases it may be of a run that has been deleted: the delta      *)
(* checkpoint and the Save do not read the rows off it.)                     *)
ShadowIsRows ==
    at = "plain" /\ mine /\ ~pulled /\ shadow # NoRows => shadow = RowsOrEmpty

(* NothingForgotten, through the Sync of a park as well. *)
ChangesKnown ==
    at # "off" /\ mine /\ ~pulled =>
        \A k \in Keys : RowsOrEmpty[k] # data[k] => k \in touched \cup lost \cup orphan

(* A park leaves nothing in the capture and, unless its WAL checkpoint was   *)
(* blocked, nothing in the WAL; its verdict stands only while nobody has     *)
(* driven, deleted or claimed the run.                                       *)
ParkIsClean ==
    /\ at # "off" => outcome.how = "none"
    /\ at = "sync" => touched = {}
    /\ outcome.how = "parked" => wal = <<>>

(* Under Strict the WAL holds nothing that a power loss could take. *)
StrictIsSynced == strict => wal = <<>>

SqInv == SqTypes /\ ShadowIsRows /\ ChangesKnown /\ StrictIsSynced /\ ParkIsClean /\ ParkedIsDurable

LEMMA RowsType ==
  ASSUME SqTypes
  PROVE  /\ Rows \in Versions /\ RowsOrEmpty \in RowSets
         /\ Rows \in RowSets => RowsOrEmpty = Rows
<1>1. Rows \in Versions
  BY DEF SqTypes, Rows
<1> QED
  BY <1>1, SqliteAssumption DEF RowsOrEmpty, Versions, RowSets, Empty

(* Flushed or logged, a version is what the next read finds. *)
LEMMA FlushOrLogRows ==
  ASSUME SqTypes, NEW version \in Versions, Flush(version) \/ Log(version)
  PROVE  safe' \in Versions /\ wal' \in Seq(Versions) /\ Rows' = version
<1>1. CASE Flush(version)
  BY <1>1 DEF Flush, Rows
<1>2. CASE Log(version)
  BY <1>2 DEF SqTypes, Log, Rows
<1> QED
  BY <1>1, <1>2

(* Whatever the durability mode, a commit is what the next read finds. *)
LEMMA CommitRows ==
  ASSUME SqTypes, NEW version \in Versions, Commit(version)
  PROVE  /\ safe' \in Versions /\ wal' \in Seq(Versions) /\ Rows' = version
         /\ strict => wal' = <<>>
<1>1. Flush(version) \/ Log(version)
  BY DEF Commit
<1>2. strict => wal' = <<>>
  BY DEF Commit, Flush
<1> QED
  BY <1>1, <1>2, FlushOrLogRows

LEMMA CheckpointRows ==
  ASSUME SqTypes, NEW version \in Versions, NEW walOK \in BOOLEAN, CommitCheckpoint(version, walOK)
  PROVE  /\ safe' \in Versions /\ wal' \in Seq(Versions) /\ Rows' = version
         /\ ckpts' \in 0..BatchK - 1 /\ slips' \in 0..MaxSlips
         /\ strict => wal' = <<>>
<1> USE SqliteAssumption
<1>1. CASE ~strict /\ ckpts + 1 = BatchK
  <2>1. Flush(version) \/ Log(version)
    BY <1>1 DEF CommitCheckpoint
  <2>2. ckpts' = 0 /\ slips' \in 0..MaxSlips
    BY <1>1 DEF SqTypes, CommitCheckpoint, Slip
  <2> QED
    BY <1>1, <2>1, <2>2, FlushOrLogRows
<1>2. CASE ~(~strict /\ ckpts + 1 = BatchK)
  <2>1. /\ safe' \in Versions /\ wal' \in Seq(Versions) /\ Rows' = version
        /\ strict => wal' = <<>>
    BY <1>2, CommitRows DEF CommitCheckpoint
  <2>2. ckpts' \in 0..BatchK - 1 /\ slips' \in 0..MaxSlips
    BY <1>2 DEF SqTypes, CommitCheckpoint
  <2> QED
    BY <2>1, <2>2
<1> QED
  BY <1>1, <1>2

LEMMA SqInitInv == SqInit => SqInv /\ SqFlags
<1> SUFFICES ASSUME SqInit PROVE SqInv /\ SqFlags
  OBVIOUS
<1>1. SqFlags
  BY Zenon DEF SqInit, SqFlags
<1>2. SqTypes
  BY SqliteAssumption DEF SqInit, SqTypes, Versions, Running
<1>3. ShadowIsRows /\ ChangesKnown /\ ParkIsClean /\ ParkedIsDurable
  BY DEF SqInit, ShadowIsRows, ChangesKnown, ParkIsClean, ParkedIsDurable, Running
<1>4. StrictIsSynced
  BY DEF SqInit, StrictIsSynced
<1> QED
  BY <1>1, <1>2, <1>3, <1>4 DEF SqInv

LEMMA SqFlagsNext == SqFlags /\ [SqNext]_sqVars => SqFlags'
<1> SUFFICES ASSUME SqFlags, [SqNext]_sqVars PROVE SqFlags'
  OBVIOUS
<1> USE DEF SqFlags
<1>1. ASSUME NEW phase \in {"drive", "plain", "undo"}, LoadRun(phase) PROVE SqFlags'
  BY <1>1, Zenon DEF LoadRun, LeftBehind
<1>2. CASE TurnBack \/ UndoSaves \/ FinalSave
  BY <1>2, Zenon DEF TurnBack, UndoSaves, FinalSave, Save
<1>3. ASSUME NEW here \in BOOLEAN, DeleteRun(here) PROVE SqFlags'
  BY <1>3, Zenon DEF DeleteRun
<1>4. CASE StoreCrash \/ PowerLoss \/ TakenOver \/ ForeignCommit \/ FencedWrite \/ ClaimedBack
  BY <1>4, Zenon DEF StoreCrash, PowerLoss, MemoryLost, TakenOver, ForeignCommit, FencedWrite, ClaimedBack
<1>5. ASSUME NEW k \in Keys, NEW v \in Vals \cup {Absent}, NEW by \in {"none", "fresh", "old"},
             SetKey(k, v, by)
      PROVE  SqFlags'
  BY <1>5, Zenon DEF SetKey
<1>6. ASSUME NEW walOK \in BOOLEAN, NEW then \in {"drive", "sync"}, DeltaCheckpoint(then, walOK)
      PROVE  SqFlags'
  BY <1>6, Zenon DEF DeltaCheckpoint
<1>7. ASSUME NEW walOK \in BOOLEAN, DiffCheckpoint(walOK) PROVE SqFlags'
  BY <1>7, Zenon DEF DiffCheckpoint
<1>8. CASE UndoSaveFails \/ ViewAcquired \/ ViewReleased \/ DeltaFails \/ DiffFails \/ SaveFails
  BY <1>8, Zenon DEF UndoSaveFails, ViewAcquired, ViewReleased, DeltaFails, DiffFails, SaveFails
<1>9. CASE SyncFloor \/ SyncFails \/ UNCHANGED sqVars
  BY <1>9, Zenon DEF SyncFloor, SyncFails, sqVars
<1> QED
  BY <1>1, <1>2, <1>3, <1>4, <1>5, <1>6, <1>7, <1>8, <1>9 DEF SqNext

(* A Save commits the data, whatever was there; it happens in a drive. *)
LEMMA SaveRows ==
  ASSUME SqTypes, at # "off", Save
  PROVE  /\ safe' \in Versions /\ wal' \in Seq(Versions) /\ (strict => wal' = <<>>)
         /\ Rows' = data /\ RowsOrEmpty' = data /\ shadow' = data /\ shadow' \in Versions
         /\ touched' = {} /\ lost' = {} /\ orphan' = {} /\ view' = "none"
<1>1. data \in RowSets /\ data \in Versions /\ data # NoRows
  BY SqliteAssumption DEF SqTypes, Versions, RowSets
<1>2. Commit(data) /\ shadow' = data /\ Forget
  BY DEF Save
<1>3. safe' \in Versions /\ wal' \in Seq(Versions) /\ (strict => wal' = <<>>) /\ Rows' = data
  BY <1>1, <1>2, CommitRows
<1> QED
  BY <1>1, <1>2, <1>3 DEF RowsOrEmpty, Forget

LEMMA SqTypesNext == SqTypes /\ [SqNext]_sqVars => SqTypes'
<1> SUFFICES ASSUME SqTypes, [SqNext]_sqVars PROVE SqTypes'
  OBVIOUS
<1>0. Rows \in Versions /\ RowsOrEmpty \in RowSets /\ RowSets \subseteq Versions /\ NoRows \in Versions
  BY RowsType DEF Versions
<1>1. ASSUME NEW phase \in {"drive", "plain", "undo"}, LoadRun(phase) PROVE SqTypes'
  BY <1>0, <1>1 DEF SqTypes, LoadRun, Loaded, Forget, Running
<1>2. CASE UndoSaveFails \/ DiffFails \/ ViewAcquired \/ ViewReleased
  BY <1>2, SqliteAssumption DEF SqTypes, UndoSaveFails, DiffFails, ViewAcquired, ViewReleased, Slip
<1>3. ASSUME NEW k \in Keys, NEW v \in Vals \cup {Absent}, NEW by \in {"none", "fresh", "old"},
             SetKey(k, v, by)
      PROVE  SqTypes'
  <2>1. data' \in RowSets
    BY <1>3 DEF SqTypes, SetKey, RowSets
  <2> QED
    BY <1>0, <1>3, <2>1 DEF SqTypes, SetKey
<1>4. ASSUME NEW walOK \in BOOLEAN, NEW then \in {"drive", "sync"}, DeltaCheckpoint(then, walOK)
      PROVE  SqTypes'
  <2> DEFINE edit(base) == [k \in Keys |-> IF k \in touched THEN data[k] ELSE base[k]]
  <2>1. ASSUME NEW base \in RowSets PROVE edit(base) \in RowSets
    BY <1>4 DEF SqTypes, DeltaCheckpoint, RowSets
  <2>2. /\ CommitCheckpoint(edit(RowsOrEmpty), walOK)
        /\ shadow' = edit(IF shadow = NoRows THEN RowsOrEmpty ELSE shadow)
    BY <1>4 DEF DeltaCheckpoint
  <2>3. (IF shadow = NoRows THEN RowsOrEmpty ELSE shadow) \in RowSets
    BY <1>0 DEF SqTypes, Versions
  <2>4. shadow' \in Versions
    BY <1>0, <2>1, <2>2, <2>3
  <2>5. edit(RowsOrEmpty) \in Versions
    BY <1>0, <2>1
  <2>6. /\ safe' \in Versions /\ wal' \in Seq(Versions)
        /\ ckpts' \in 0..BatchK - 1 /\ slips' \in 0..MaxSlips
    BY <2>2, <2>5, CheckpointRows
  <2> QED
    BY <1>4, <2>4, <2>6 DEF SqTypes, DeltaCheckpoint, Drain
<1>5. ASSUME NEW walOK \in BOOLEAN, DiffCheckpoint(walOK) PROVE SqTypes'
  <2> DEFINE base == IF shadow = NoRows THEN RowsOrEmpty ELSE shadow
             version == [k \in Keys |-> IF base[k] # data[k] THEN data[k] ELSE RowsOrEmpty[k]]
  <2>1. version \in Versions
    BY <1>0, <1>5 DEF SqTypes, DiffCheckpoint, RowSets, Versions
  <2>2. CommitCheckpoint(version, walOK)
    BY <1>5 DEF DiffCheckpoint
  <2>3. /\ safe' \in Versions /\ wal' \in Seq(Versions)
        /\ ckpts' \in 0..BatchK - 1 /\ slips' \in 0..MaxSlips
    BY <2>1, <2>2, CheckpointRows
  <2> QED
    BY <1>5, <2>3 DEF SqTypes, DiffCheckpoint, Forget
<1>6. CASE DeltaFails
  BY <1>6, SqliteAssumption DEF SqTypes, DeltaFails, Drain, Slip
<1>7. CASE TurnBack \/ UndoSaves \/ FinalSave
  <2>1. /\ safe' \in Versions /\ wal' \in Seq(Versions) /\ shadow' \in Versions
        /\ touched' = {} /\ lost' = {} /\ orphan' = {} /\ view' = "none"
        /\ UNCHANGED <<ckpts, slips>>
    BY <1>7, SaveRows DEF TurnBack, UndoSaves, FinalSave
  <2> QED
    BY <1>0, <1>7, <2>1 DEF SqTypes, TurnBack, UndoSaves, FinalSave
<1>8. CASE SaveFails
  BY <1>0, <1>8, SqliteAssumption DEF SqTypes, SaveFails, Forget, Slip
<1>9. CASE SyncFloor
  <2>1. CASE Flush(Rows)
    <3>1. safe' \in Versions /\ wal' \in Seq(Versions)
      BY <1>0, <2>1, FlushOrLogRows
    <3> QED
      BY <1>0, <1>9, <3>1 DEF SqTypes, SyncFloor
  <2>2. CASE UNCHANGED <<safe, wal>>
    BY <1>0, <1>9, <2>2 DEF SqTypes, SyncFloor
  <2> QED
    BY <1>9, <2>1, <2>2 DEF SyncFloor
<1>10. CASE SyncFails
  BY <1>0, <1>10, SqliteAssumption DEF SqTypes, SyncFails, Slip
<1>11. ASSUME NEW here \in BOOLEAN, DeleteRun(here) PROVE SqTypes'
  <2>1. safe' \in Versions /\ wal' \in Seq(Versions)
    BY <1>0, <1>11, CommitRows DEF DeleteRun
  <2> QED
    BY <1>0, <1>11, <2>1, SqliteAssumption DEF SqTypes, DeleteRun, Running
<1>12. CASE StoreCrash
  BY <1>0, <1>12, SqliteAssumption DEF SqTypes, StoreCrash, MemoryLost, Slip
<1>13. CASE PowerLoss
  <2>1. safe' \in Versions /\ wal' \in Seq(Versions)
    BY <1>13 DEF SqTypes, PowerLoss
  <2> QED
    BY <1>0, <1>13, <2>1, SqliteAssumption DEF SqTypes, PowerLoss, MemoryLost, Slip
<1>14. CASE TakenOver
  BY <1>14, SqliteAssumption DEF SqTypes, TakenOver, Slip
<1>15. CASE ForeignCommit
  <2>1. PICK k \in Keys, v \in Vals : Commit([RowsOrEmpty EXCEPT ![k] = v])
    BY <1>15 DEF ForeignCommit
  <2>2. [RowsOrEmpty EXCEPT ![k] = v] \in Versions
    BY <1>0 DEF Versions, RowSets
  <2>3. safe' \in Versions /\ wal' \in Seq(Versions)
    BY <2>1, <2>2, CommitRows
  <2> QED
    BY <1>0, <1>15, <2>3 DEF SqTypes, ForeignCommit, Running
<1>16. CASE FencedWrite
  BY <1>0, <1>16 DEF SqTypes, FencedWrite, Forget
<1>17. CASE ClaimedBack
  BY <1>0, <1>17 DEF SqTypes, ClaimedBack, Running
<1>18. CASE UNCHANGED sqVars
  BY <1>18 DEF SqTypes, sqVars
<1> QED
  BY <1>1, <1>2, <1>3, <1>4, <1>5, <1>6, <1>7, <1>8, <1>9, <1>10, <1>11, <1>12, <1>13, <1>14,
     <1>15, <1>16, <1>17, <1>18 DEF SqNext

(* What the two halves of SqInv below need of a step that writes no rows. *)
LEMMA RowsStay == UNCHANGED <<safe, wal>> => Rows' = Rows /\ RowsOrEmpty' = RowsOrEmpty
  BY DEF Rows, RowsOrEmpty

(* A delta checkpoint writes the touched keys and leaves the other rows.     *)
LEMMA DeltaRows ==
  ASSUME SqTypes, NEW walOK \in BOOLEAN, NEW then \in {"drive", "sync"},
         DeltaCheckpoint(then, walOK)
  PROVE  /\ RowsOrEmpty' = [k \in Keys |-> IF k \in touched THEN data[k] ELSE RowsOrEmpty[k]]
         /\ strict => wal' = <<>>
<1> DEFINE edit(base) == [k \in Keys |-> IF k \in touched THEN data[k] ELSE base[k]]
<1>0. RowsOrEmpty \in RowSets /\ NoRows \notin RowSets /\ RowSets \subseteq Versions
  BY RowsType, SqliteAssumption DEF Versions, RowSets
<1>1. CommitCheckpoint(edit(RowsOrEmpty), walOK) /\ at = "drive"
  BY DEF DeltaCheckpoint
<1>2. edit(RowsOrEmpty) \in RowSets
  BY <1>0, <1>1 DEF SqTypes, RowSets
<1>3. Rows' = edit(RowsOrEmpty) /\ (strict => wal' = <<>>)
  BY <1>0, <1>1, <1>2, CheckpointRows
<1>4. Rows' # NoRows
  BY <1>0, <1>2, <1>3
<1> QED
  BY <1>3, <1>4 DEF RowsOrEmpty

(* A differential checkpoint writes the data, when the shadow it takes for   *)
(* granted is what is committed.                                             *)
LEMMA DiffRows ==
  ASSUME SqTypes, ShadowIsRows, NEW walOK \in BOOLEAN, DiffCheckpoint(walOK)
  PROVE  /\ shadow' = data /\ (~pulled => RowsOrEmpty' = data)
         /\ strict => wal' = <<>>
<1> DEFINE base == IF shadow = NoRows THEN RowsOrEmpty ELSE shadow
           version == [k \in Keys |-> IF base[k] # data[k] THEN data[k] ELSE RowsOrEmpty[k]]
<1>0. RowsOrEmpty \in RowSets /\ NoRows \notin RowSets /\ RowSets \subseteq Versions
  BY RowsType, SqliteAssumption DEF Versions, RowSets
<1>1. CommitCheckpoint(version, walOK) /\ shadow' = data /\ at = "plain" /\ mine
  BY DEF DiffCheckpoint
<1>2. ~pulled => base = RowsOrEmpty
  BY <1>1 DEF ShadowIsRows
<1>3. data \in RowSets
  BY <1>1 DEF SqTypes
<1>4. ~pulled => version = data
  BY <1>0, <1>2, <1>3 DEF RowSets
<1>5. version \in Versions
  BY <1>0, <1>3 DEF RowSets, Versions
<1>6. Rows' = version /\ (strict => wal' = <<>>)
  BY <1>1, <1>5, CheckpointRows
<1> QED
  BY <1>0, <1>1, <1>3, <1>4, <1>6 DEF RowsOrEmpty

LEMMA ShadowNext == SqTypes /\ ShadowIsRows /\ [SqNext]_sqVars => ShadowIsRows'
<1> SUFFICES ASSUME SqTypes, ShadowIsRows, [SqNext]_sqVars PROVE ShadowIsRows'
  OBVIOUS
<1> USE DEF ShadowIsRows
<1>0. Rows \in Versions /\ (Rows \in RowSets => RowsOrEmpty = Rows)
  BY RowsType DEF Versions, RowSets
<1>1. ASSUME NEW phase \in {"drive", "plain", "undo"}, LoadRun(phase) PROVE ShadowIsRows'
  <2>1. Rows # NoRows => shadow' = Rows /\ RowsOrEmpty' = Rows
    BY <1>0, <1>1, RowsStay DEF LoadRun, Loaded, Versions
  <2>2. Rows = NoRows => shadow' = shadow /\ (at' = "plain" /\ shadow # NoRows => pulled')
    BY <1>1 DEF LoadRun, Loaded, LeftBehind
  <2> QED
    BY <2>1, <2>2
<1>2. ASSUME NEW k \in Keys, NEW v \in Vals \cup {Absent}, NEW by \in {"none", "fresh", "old"},
             SetKey(k, v, by)
      PROVE  ShadowIsRows'
  BY <1>2, RowsStay DEF SetKey
<1>3. ASSUME NEW walOK \in BOOLEAN, NEW then \in {"drive", "sync"}, DeltaCheckpoint(then, walOK)
      PROVE  ShadowIsRows'
  BY <1>3 DEF DeltaCheckpoint
<1>4. ASSUME NEW walOK \in BOOLEAN, DiffCheckpoint(walOK) PROVE ShadowIsRows'
  <2>1. pulled' = pulled
    BY <1>4 DEF DiffCheckpoint
  <2> QED
    BY <1>4, <2>1, DiffRows
<1>5. CASE UndoSaveFails \/ DiffFails \/ ViewAcquired \/ ViewReleased \/ DeltaFails \/ TakenOver
  BY <1>5, RowsStay DEF UndoSaveFails, DiffFails, ViewAcquired, ViewReleased, DeltaFails, TakenOver
<1>6. CASE TurnBack \/ UndoSaves \/ FinalSave \/ SaveFails \/ SyncFloor \/ SyncFails \/ FencedWrite
  <2>1. at' # "plain"
    BY <1>6 DEF TurnBack, UndoSaves, FinalSave, SaveFails, SyncFloor, SyncFails, FencedWrite
  <2> QED
    BY <2>1
<1>7. ASSUME NEW here \in BOOLEAN, DeleteRun(here) PROVE ShadowIsRows'
  <2>1. at' = "plain" => pulled'
    BY <1>7 DEF DeleteRun
  <2> QED
    BY <2>1
<1>8. CASE StoreCrash \/ PowerLoss \/ ClaimedBack
  BY <1>8 DEF StoreCrash, PowerLoss, MemoryLost, ClaimedBack
<1>9. CASE ForeignCommit
  BY <1>9 DEF ForeignCommit
<1>10. CASE UNCHANGED sqVars
  BY <1>10, RowsStay DEF sqVars
<1> QED
  BY <1>1, <1>2, <1>3, <1>4, <1>5, <1>6, <1>7, <1>8, <1>9, <1>10 DEF SqNext

LEMMA ChangesNext == SqTypes /\ ShadowIsRows /\ ChangesKnown /\ [SqNext]_sqVars => ChangesKnown'
<1> SUFFICES ASSUME SqTypes, ShadowIsRows, ChangesKnown, [SqNext]_sqVars PROVE ChangesKnown'
  OBVIOUS
<1>1. ASSUME NEW phase \in {"drive", "plain", "undo"}, LoadRun(phase) PROVE ChangesKnown'
  BY <1>1, RowsStay DEF ChangesKnown, LoadRun
<1>2. CASE UndoSaveFails \/ DiffFails \/ ViewAcquired \/ ViewReleased
  BY <1>2, RowsStay DEF ChangesKnown, UndoSaveFails, DiffFails, ViewAcquired, ViewReleased
<1>3. ASSUME NEW k \in Keys, NEW v \in Vals \cup {Absent}, NEW by \in {"none", "fresh", "old"},
             SetKey(k, v, by)
      PROVE  ChangesKnown'
  <2>1. /\ at # "off" /\ at' = at /\ mine' = mine /\ pulled' = pulled /\ lost' = lost /\ RowsOrEmpty' = RowsOrEmpty
        /\ data' = [data EXCEPT ![k] = v] /\ data \in RowSets
        /\ k \in touched' \cup orphan'
        /\ touched \cup orphan \subseteq touched' \cup orphan'
    BY <1>3, RowsStay DEF SetKey, SqTypes
  <2>2. \A key \in Keys \ {k} : data'[key] = data[key]
    BY <2>1 DEF RowSets
  <2> QED
    BY <2>1, <2>2 DEF ChangesKnown
<1>4. ASSUME NEW walOK \in BOOLEAN, NEW then \in {"drive", "sync"}, DeltaCheckpoint(then, walOK)
      PROVE  ChangesKnown'
  <2>1. /\ at # "off" /\ mine /\ data' = data /\ lost' = lost /\ orphan' = orphan /\ pulled' = pulled
    BY <1>4 DEF DeltaCheckpoint
  <2>2. \A k \in Keys : RowsOrEmpty'[k] = IF k \in touched THEN data[k] ELSE RowsOrEmpty[k]
    BY <1>4, DeltaRows
  <2> QED
    BY <2>1, <2>2 DEF ChangesKnown
<1>5. ASSUME NEW walOK \in BOOLEAN, DiffCheckpoint(walOK) PROVE ChangesKnown'
  <2>1. data' = data /\ pulled' = pulled
    BY <1>5 DEF DiffCheckpoint
  <2> QED
    BY <1>5, <2>1, DiffRows DEF ChangesKnown
<1>6. CASE DeltaFails
  BY <1>6, RowsStay DEF ChangesKnown, DeltaFails, Drain
<1>7. CASE FinalSave \/ SaveFails \/ SyncFloor \/ FencedWrite
  BY <1>7 DEF ChangesKnown, FinalSave, SaveFails, SyncFloor, FencedWrite
<1>12. CASE TurnBack \/ UndoSaves
  <2>1. RowsOrEmpty' = data /\ data' = data
    BY <1>12, SaveRows DEF TurnBack, UndoSaves
  <2> QED
    BY <2>1 DEF ChangesKnown
<1>8. CASE SyncFails
  BY <1>8, RowsStay DEF ChangesKnown, SyncFails
<1>9. CASE ClaimedBack \/ StoreCrash \/ PowerLoss
  BY <1>9 DEF ChangesKnown, ClaimedBack, StoreCrash, PowerLoss, MemoryLost
<1>13. ASSUME NEW here \in BOOLEAN, DeleteRun(here) PROVE ChangesKnown'
  <2>1. at' # "off" => pulled'
    BY <1>13 DEF DeleteRun
  <2> QED
    BY <2>1 DEF ChangesKnown
<1>10. CASE TakenOver \/ ForeignCommit
  BY <1>10 DEF ChangesKnown, TakenOver, ForeignCommit
<1>11. CASE UNCHANGED sqVars
  BY <1>11, RowsStay DEF ChangesKnown, sqVars
<1> QED
  BY <1>1, <1>2, <1>3, <1>4, <1>5, <1>6, <1>7, <1>8, <1>9, <1>10, <1>11, <1>12,
     <1>13 DEF SqNext

LEMMA StrictNext ==
  SqTypes /\ ShadowIsRows /\ StrictIsSynced /\ [SqNext]_sqVars => StrictIsSynced'
<1> SUFFICES ASSUME SqTypes, ShadowIsRows, StrictIsSynced, [SqNext]_sqVars PROVE StrictIsSynced'
  OBVIOUS
<1> USE DEF StrictIsSynced
<1>0. Rows \in Versions /\ RowsOrEmpty \in RowSets /\ RowSets \subseteq Versions /\ NoRows \in Versions
  BY RowsType DEF Versions
<1>1. CASE TurnBack \/ UndoSaves \/ FinalSave
  BY <1>1, SaveRows DEF TurnBack, UndoSaves, FinalSave
<1>2. ASSUME NEW walOK \in BOOLEAN, NEW then \in {"drive", "sync"}, DeltaCheckpoint(then, walOK)
      PROVE  StrictIsSynced'
  <2>1. strict' = strict
    BY <1>2 DEF DeltaCheckpoint
  <2> QED
    BY <1>2, <2>1, DeltaRows
<1>3. ASSUME NEW walOK \in BOOLEAN, DiffCheckpoint(walOK) PROVE StrictIsSynced'
  <2>1. strict' = strict
    BY <1>3 DEF DiffCheckpoint
  <2> QED
    BY <1>3, <2>1, DiffRows
<1>4. ASSUME NEW here \in BOOLEAN, DeleteRun(here) PROVE StrictIsSynced'
  BY <1>0, <1>4, CommitRows DEF DeleteRun
<1>5. CASE ForeignCommit
  <2>1. PICK k \in Keys, v \in Vals : Commit([RowsOrEmpty EXCEPT ![k] = v])
    BY <1>5 DEF ForeignCommit
  <2>2. [RowsOrEmpty EXCEPT ![k] = v] \in Versions
    BY <1>0 DEF RowSets
  <2> QED
    BY <1>5, <2>1, <2>2, CommitRows DEF ForeignCommit
<1>6. CASE SyncFloor \/ PowerLoss
  BY <1>6 DEF SyncFloor, Flush, PowerLoss
<1>7. CASE UNCHANGED <<strict, wal>>
  BY <1>7
<1>8. CASE \/ \E phase \in {"drive", "plain", "undo"} : LoadRun(phase)
           \/ \E k \in Keys, v \in Vals \cup {Absent}, by \in {"none", "fresh", "old"} : SetKey(k, v, by)
           \/ UndoSaveFails \/ ViewAcquired \/ ViewReleased \/ DeltaFails \/ DiffFails \/ SaveFails
           \/ SyncFails \/ StoreCrash \/ TakenOver \/ FencedWrite \/ ClaimedBack \/ UNCHANGED sqVars
  <2>1. UNCHANGED <<strict, wal>>
    BY <1>8 DEF LoadRun, SetKey, UndoSaveFails, ViewAcquired, ViewReleased, DeltaFails, DiffFails, SaveFails,
       SyncFails, StoreCrash, TakenOver, FencedWrite, ClaimedBack, sqVars
  <2> QED
    BY <1>7, <2>1
<1> QED
  BY <1>1, <1>2, <1>3, <1>4, <1>5, <1>6, <1>8 DEF SqNext

LEMMA ParkNext ==
  ASSUME SqTypes, ChangesKnown, StrictIsSynced, ParkIsClean, ParkedIsDurable, [SqNext]_sqVars
  PROVE  ParkIsClean' /\ ParkedIsDurable'
<1> USE DEF ParkIsClean, ParkedIsDurable
<1>1. CASE \/ \E phase \in {"drive", "plain", "undo"} : LoadRun(phase)
           \/ \E here \in BOOLEAN : DeleteRun(here)
           \/ ForeignCommit \/ ClaimedBack
  <2>1. outcome' = Running /\ (at' = "sync" => at = "sync" /\ touched' = touched)
    BY <1>1 DEF LoadRun, DeleteRun, ForeignCommit, ClaimedBack
  <2> QED
    BY <2>1 DEF Running
<1>2. CASE \/ TurnBack \/ UndoSaves \/ UndoSaveFails \/ DiffFails \/ ViewAcquired \/ DeltaFails \/ SyncFails
           \/ (\E k \in Keys, v \in Vals \cup {Absent}, by \in {"none", "fresh", "old"} : SetKey(k, v, by))
           \/ \E walOK \in BOOLEAN : DiffCheckpoint(walOK)
  <2>1. outcome' = outcome /\ at # "off" /\ at' # "sync"
    BY <1>2 DEF TurnBack, UndoSaves, UndoSaveFails, DiffFails, ViewAcquired, DeltaFails, SyncFails, SetKey,
       DiffCheckpoint
  <2> QED
    BY <2>1
<1>3. CASE \E walOK \in BOOLEAN : \E then \in {"drive", "sync"} : DeltaCheckpoint(then, walOK)
  <2>1. outcome' = outcome /\ at # "off" /\ touched' = {}
    BY <1>3 DEF DeltaCheckpoint, Drain
  <2> QED
    BY <2>1
<1>4. CASE FinalSave
  <2>1. outcome'.how = "done" /\ at' = "off"
    BY <1>4 DEF FinalSave
  <2> QED
    BY <2>1
<1>5. CASE SaveFails \/ StoreCrash \/ FencedWrite
  <2>1. outcome' = outcome /\ at # "off" /\ at' = "off"
    BY <1>5 DEF SaveFails, StoreCrash, FencedWrite, MemoryLost
  <2> QED
    BY <2>1
<1>6. CASE SyncFloor
  <2>1. at = "sync" /\ at' = "off" /\ UNCHANGED <<strict, mine, pulled, touched, lost, orphan>>
    BY <1>6 DEF SyncFloor
  <2>2. CASE Flush(Rows) /\ outcome' = [how |-> "parked", data |-> data]
    <3>1. (IF safe' = NoRows THEN Empty ELSE safe') = RowsOrEmpty /\ wal' = <<>>
      BY <2>2 DEF Flush, RowsOrEmpty
    <3> QED
      BY <2>1, <2>2, <3>1 DEF ChangesKnown
  <2>3. CASE wal # <<>> /\ outcome' = [how |-> "blocked", data |-> data]
    BY <2>1, <2>3 DEF StrictIsSynced
  <2> QED
    BY <1>6, <2>2, <2>3 DEF SyncFloor
<1>7. CASE PowerLoss
  <2>1. outcome' = outcome /\ wal # <<>> /\ at' = "off" /\ strict' = strict
    BY <1>7 DEF PowerLoss, MemoryLost
  <2> QED
    BY <2>1
<1>8. CASE TakenOver
  <2>1. ~mine' /\ UNCHANGED <<strict, outcome, at, touched, wal>>
    BY <1>8 DEF TakenOver
  <2> QED
    BY <2>1
<1>9. CASE ViewReleased \/ UNCHANGED sqVars
  BY <1>9 DEF ViewReleased, sqVars
<1> QED
  BY <1>1, <1>2, <1>3, <1>4, <1>5, <1>6, <1>7, <1>8, <1>9 DEF SqNext

LEMMA SqInvariant == SqSpec => [](SqInv /\ SqFlags)
<1>1. SqInv /\ [SqNext]_sqVars => SqInv'
  BY SqTypesNext, ShadowNext, ChangesNext, StrictNext, ParkNext DEF SqInv
<1> QED
  BY <1>1, SqInitInv, SqFlagsNext, PTL DEF SqSpec

(* The store keeps to the domains of its state. *)
THEOREM SqliteTypeCorrect == SqSpec => []SqTypeOK
<1>1. SqInv /\ SqFlags => SqTypeOK
  BY DEF SqInv, SqTypes, SqFlags, SqTypeOK, Versions
<1> QED
  BY <1>1, SqInvariant, PTL

(* For any rows, values, cadence and WAL limit: no change of a drive that    *)
(* owns its run is hidden from its later writes, by the captured delta, by   *)
(* the diff against the shadow or by the full Save of a rollback, but for    *)
(* the keys the capture is known to drop and a run deleted under the drive   *)
(* (SaveDeltaCheckpoint, saveIncremental, Save).                             *)
THEOREM NothingForgottenHolds == SqSpec => []NothingForgotten
<1>1. SqInv => NothingForgotten
  BY DEF SqInv, ChangesKnown, NothingForgotten
<1> QED
  BY <1>1, SqInvariant, PTL

(* For any cadence and WAL limit: a run that returned ErrSuspended cannot be *)
(* taken back by a power loss, unless another connection blocked the WAL     *)
(* checkpoint of its Sync, and under Strict not even then (Sync after the    *)
(* park's checkpoint).                                                       *)
THEOREM ParkedHolds == SqSpec => []ParkedIsDurable
<1>1. SqInv => ParkedIsDurable
  BY DEF SqInv
<1> QED
  BY <1>1, SqInvariant, PTL

=============================================================================

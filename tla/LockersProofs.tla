--------------------------- MODULE LockersProofs ---------------------------
(***************************************************************************)
(* Proofs about Lockers, for any drives, processes, lease term and number   *)
(* of mishaps: the registry's reference counts keep the drives of a process *)
(* on one entry, and the entry lets one of them in at a time.               *)
(***************************************************************************)
EXTENDS Lockers, FiniteSetTheorems, SequenceTheorems, TLAPS

LockEntry == [refs : 0..Cardinality(Drives), holder : Drives \cup {NoDrive}, senders : Seq(Drives)]

(* The memory of the processes, and the row in the store. *)
LkMemory ==
    /\ registry \in [Workers -> Entries \cup {0}]
    /\ entry    \in [Workers -> [Entries -> LockEntry]]
    /\ stage    \in [Drives -> Stages]
    /\ ref      \in [Drives -> Entries \cup {0}]

LkStored ==
    /\ claimRow \in Leases
    /\ token    \in [Workers -> Nat]
    /\ mishaps  \in 0..MaxMishaps

---------------------------------------------------------------------------
(* The store's side *)

LEMMA LeaseTypes ==
  ASSUME NEW l \in Leases, NEW o \in Workers, NEW held \in Nat
  PROVE  /\ Grant(l, o) \in Leases /\ Grant(l, o).token \in Nat
         /\ Renewed(l, held) \in Leases
         /\ Released(l, held) \in Leases
<1>0. TTL \in Nat /\ TTL > 0
  BY TTLAssumption
<1>1. Grant(l, o) \in Leases /\ Grant(l, o).token \in Nat
  BY <1>0 DEF Leases, Grant
<1>2. Renewed(l, held) \in Leases
  BY <1>0 DEF Leases, Renewed
<1>3. Released(l, held) \in Leases
  BY <1>0 DEF Leases, Released, NoLease
<1> QED
  BY <1>1, <1>2, <1>3

LEMMA AgedType == ASSUME NEW l \in Leases PROVE Aged(l) \in Leases
  BY TTLAssumption DEF Leases, Aged

LEMMA StoredNext == LkStored /\ [LkNext]_lkVars => LkStored'
<1> SUFFICES ASSUME LkStored, [LkNext]_lkVars PROVE LkStored'
  OBVIOUS
<1>0. claimRow \in Leases /\ token \in [Workers -> Nat] /\ ProcessOf \in [Drives -> Workers]
  BY DrivesAssumption DEF LkStored
<1>1. Mishap => mishaps' \in 0..MaxMishaps
  BY DrivesAssumption DEF Mishap, LkStored
<1>2. ASSUME NEW d \in Drives, TakeClaim(d) PROVE LkStored'
  <2>1. CASE Granted(claimRow, ProcessOf[d])
    <3>1. claimRow' = Grant(claimRow, ProcessOf[d]) /\ UNCHANGED mishaps
          /\ token' = [token EXCEPT ![ProcessOf[d]] = claimRow'.token]
      BY <1>2, <2>1 DEF TakeClaim
    <3>2. claimRow' \in Leases /\ claimRow'.token \in Nat
      BY <1>0, <3>1, LeaseTypes
    <3> QED
      BY <1>0, <3>1, <3>2 DEF LkStored
  <2>2. CASE ~Granted(claimRow, ProcessOf[d])
    BY <1>2, <2>2 DEF TakeClaim, LkStored
  <2> QED
    BY <2>1, <2>2
<1>3. ASSUME NEW d \in Drives, DriveCheckpoint(d) PROVE LkStored'
  <2>1. claimRow' \in Leases
    BY <1>0, <1>3, LeaseTypes DEF DriveCheckpoint
  <2> QED
    BY <1>3, <2>1 DEF DriveCheckpoint, LkStored
<1>4. ASSUME NEW d \in Drives, ReleaseClaim(d) PROVE LkStored'
  <2>1. claimRow' \in Leases
    BY <1>0, <1>4, LeaseTypes DEF ReleaseClaim
  <2> QED
    BY <1>4, <2>1 DEF ReleaseClaim, LkStored
<1>5. ASSUME NEW d \in Drives, ClaimFails(d) \/ ReleaseFails(d) PROVE LkStored'
  BY <1>1, <1>5 DEF ClaimFails, ReleaseFails, LkStored
<1>6. ASSUME NEW d \in Drives,
             Reserve(d) \/ SendLock(d) \/ DriveEnds(d) \/ Unlock(d) \/ DropRef(d) \/ GiveUp(d)
      PROVE  LkStored'
  BY <1>6 DEF Reserve, SendLock, DriveEnds, Unlock, DropRef, GiveUp, LkStored
<1>7. ASSUME NEW p \in Workers, ProcessDies(p) PROVE LkStored'
  BY <1>0, <1>1, <1>7 DEF ProcessDies, LkStored
<1>8. CASE LeaseTick
  <2>1. claimRow' \in Leases
    BY <1>0, <1>8, AgedType DEF LeaseTick
  <2> QED
    BY <1>8, <2>1 DEF LeaseTick, LkStored
<1>9. CASE UNCHANGED lkVars
  BY <1>9 DEF lkVars, LkStored
<1> QED
  BY <1>2, <1>3, <1>4, <1>5, <1>6, <1>7, <1>8, <1>9 DEF LkNext, DriveStep

---------------------------------------------------------------------------
(* The registry and its entries *)

(* The drives of a process that hold a reference. *)
Referring(p) == {d \in Drives : ProcessOf[d] = p /\ ref[d] # 0}

(* A drive between Acquire and release refers to the registered entry. *)
RefersToRegistered(d) ==
    /\ stage[d] = "idle" <=> ref[d] = 0
    /\ ref[d] # 0 => registry[ProcessOf[d]] = ref[d]

(* The registered entry of a process counts the references to it, belongs to *)
(* the drive in the section, and queues waiting drives, each once.           *)
EntrySound(p) ==
    registry[p] # 0 =>
        LET e == entry[p][registry[p]]
        IN  /\ e.refs = Cardinality(Referring(p))
            /\ \A d \in Drives : ProcessOf[d] = p /\ InSection(d) => e.holder = d
            /\ \A i \in 1..Len(e.senders) :
                  /\ ProcessOf[e.senders[i]] = p /\ stage[e.senders[i]] = "wait"
                  /\ \A j \in 1..Len(e.senders) : i # j => e.senders[i] # e.senders[j]

LkInv == LkMemory /\ (\A d \in Drives : RefersToRegistered(d)) /\ (\A p \in Workers : EntrySound(p))

LEMMA LkConstants ==
  /\ \A d \in Drives : ProcessOf[d] \in Workers /\ d # NoDrive
  /\ Cardinality(Drives) \in Nat /\ Entries \subseteq Nat /\ 0 \notin Entries
  BY DrivesAssumption, FS_CardinalityType DEF Entries

LEMMA ReferringFinite ==
  ASSUME NEW p
  PROVE  /\ IsFiniteSet(Referring(p)) /\ Cardinality(Referring(p)) \in 0..Cardinality(Drives)
         /\ \A d \in Referring(p) : Cardinality(Referring(p)) = 1 => Referring(p) = {d}
         /\ \A d \in Referring(p) : Cardinality(Referring(p)) > 0
<1>1. Referring(p) \in SUBSET Drives /\ IsFiniteSet(Drives)
  BY DrivesAssumption DEF Referring
<1>2. IsFiniteSet(Referring(p)) /\ Cardinality(Referring(p)) <= Cardinality(Drives)
  BY <1>1, FS_Subset
<1>3. Cardinality(Referring(p)) \in Nat /\ Cardinality(Drives) \in Nat
  BY <1>1, <1>2, FS_CardinalityType
<1>4. ASSUME NEW d \in Referring(p), Cardinality(Referring(p)) = 1 PROVE Referring(p) = {d}
  <2>1. PICK x : Referring(p) = {x}
    BY <1>2, <1>4, FS_Singleton
  <2> QED
    BY <1>4, <2>1
<1>5. ASSUME NEW d \in Referring(p) PROVE Cardinality(Referring(p)) # 0
  BY <1>2, <1>5, FS_EmptySet
<1> QED
  BY <1>2, <1>3, <1>4, <1>5

LEMMA LkInitHolds == LkInit => LkInv /\ LkStored
<1> SUFFICES ASSUME LkInit PROVE LkInv /\ LkStored
  OBVIOUS
<1>1. NewEntry \in LockEntry
  BY LkConstants, EmptySeq DEF NewEntry, LockEntry
<1>2. LkMemory
  BY <1>1 DEF LkInit, LkMemory, Stages
<1>3. NoLease \in Leases
  BY TTLAssumption DEF NoLease, Leases
<1>4. LkStored
  BY <1>3, DrivesAssumption DEF LkInit, LkStored
<1>5. (\A d \in Drives : RefersToRegistered(d)) /\ (\A p \in Workers : EntrySound(p))
  BY DEF LkInit, RefersToRegistered, EntrySound
<1> QED
  BY <1>2, <1>4, <1>5 DEF LkInv

(* A step within one process leaves the entries of the others alone. *)
LEMMA OneProcess ==
  ASSUME LkInv, NEW p \in Workers, LkMemory',
         \A q \in Workers : q # p => registry'[q] = registry[q] /\ entry'[q] = entry[q],
         \A d \in Drives : ProcessOf[d] # p => stage'[d] = stage[d] /\ ref'[d] = ref[d],
         \A d \in Drives : ProcessOf[d] = p => RefersToRegistered(d)',
         EntrySound(p)'
  PROVE  LkInv'
<1>1. ASSUME NEW d \in Drives PROVE RefersToRegistered(d)'
  BY <1>1, LkConstants DEF LkInv, RefersToRegistered
<1>2. ASSUME NEW q \in Workers, q # p PROVE EntrySound(q)'
  <2>1. Referring(q)' = Referring(q)
    BY <1>2 DEF Referring
  <2>2. registry'[q] = registry[q] /\ entry'[q] = entry[q] /\ EntrySound(q)
    BY <1>2 DEF LkInv
  <2>3. \A d \in Drives : ProcessOf[d] = q => stage'[d] = stage[d] /\ (InSection(d)' <=> InSection(d))
    BY <1>2 DEF InSection
  <2>4. ASSUME registry[q] # 0, NEW i \in 1..Len(entry[q][registry[q]].senders)
        PROVE  entry[q][registry[q]].senders[i] \in Drives
    BY <1>2, <2>4 DEF LkInv, LkMemory, LockEntry
  <2> QED
    BY <2>1, <2>2, <2>3, <2>4 DEF EntrySound
<1> QED
  BY <1>1, <1>2 DEF LkInv

(* What a drive that holds a reference can rely on. *)
LEMMA MineSound ==
  ASSUME LkInv, NEW d \in Drives, stage[d] # "idle"
  PROVE  /\ ProcessOf[d] \in Workers /\ ref[d] \in Entries /\ ref[d] # 0
         /\ registry[ProcessOf[d]] = ref[d] /\ Mine(d) = entry[ProcessOf[d]][registry[ProcessOf[d]]]
         /\ Mine(d) \in LockEntry /\ Mine(d).senders \in Seq(Drives) /\ Len(Mine(d).senders) \in Nat
         /\ Mine(d).refs = Cardinality(Referring(ProcessOf[d]))
         /\ \A o \in Drives : ProcessOf[o] = ProcessOf[d] /\ InSection(o) => Mine(d).holder = o
         /\ \A i \in 1..Len(Mine(d).senders) :
               /\ Mine(d).senders[i] \in Drives
               /\ ProcessOf[Mine(d).senders[i]] = ProcessOf[d] /\ stage[Mine(d).senders[i]] = "wait"
               /\ \A j \in 1..Len(Mine(d).senders) : i # j => Mine(d).senders[i] # Mine(d).senders[j]
<1>1. /\ ProcessOf[d] \in Workers /\ ref[d] \in Entries /\ ref[d] # 0
      /\ registry[ProcessOf[d]] = ref[d]
  BY LkConstants DEF LkInv, LkMemory, RefersToRegistered
<1>2. Mine(d) = entry[ProcessOf[d]][registry[ProcessOf[d]]] /\ EntrySound(ProcessOf[d])
  BY <1>1 DEF Mine, LkInv
<1>3. Mine(d) \in LockEntry
  BY <1>1, <1>2 DEF LkInv, LkMemory
<1>4. Mine(d).senders \in Seq(Drives) /\ Len(Mine(d).senders) \in Nat
  BY <1>3 DEF LockEntry
<1>5. \A i \in 1..Len(Mine(d).senders) : Mine(d).senders[i] \in Drives
  BY <1>4
<1> QED
  BY <1>1, <1>2, <1>3, <1>4, <1>5 DEF EntrySound

LEMMA EntryEdit ==
  ASSUME LkMemory, NEW p \in Workers, NEW e \in Entries, NEW rec \in LockEntry,
         entry' = [entry EXCEPT ![p][e] = rec]
  PROVE  /\ entry' \in [Workers -> [Entries -> LockEntry]] /\ entry'[p][e] = rec
         /\ \A q \in Workers : q # p => entry'[q] = entry[q]
<1>1. entry[p] \in [Entries -> LockEntry]
  BY DEF LkMemory
<1>2. [entry[p] EXCEPT ![e] = rec] \in [Entries -> LockEntry] /\ [entry[p] EXCEPT ![e] = rec][e] = rec
  BY <1>1
<1>3. entry' = [entry EXCEPT ![p] = [entry[p] EXCEPT ![e] = rec]]
  OBVIOUS
<1> QED
  BY <1>2, <1>3 DEF LkMemory

(* A step of a drive that makes `rec` of its entry and leaves the references *)
(* as they are.                                                              *)
EntryMove(d, rec) ==
    /\ UNCHANGED <<registry, ref>>
    /\ entry' = [entry EXCEPT ![ProcessOf[d]][ref[d]] = rec]
    /\ rec.refs = Mine(d).refs
    /\ stage' \in [Drives -> Stages]
    /\ \A o \in Drives : /\ ProcessOf[o] # ProcessOf[d] => stage'[o] = stage[o]
                         /\ stage'[o] = "idle" <=> stage[o] = "idle"
                         /\ ProcessOf[o] = ProcessOf[d] /\ InSection(o)' => rec.holder = o
    /\ \A i \in 1..Len(rec.senders) :
          /\ ProcessOf[rec.senders[i]] = ProcessOf[d] /\ stage'[rec.senders[i]] = "wait"
          /\ \A j \in 1..Len(rec.senders) : i # j => rec.senders[i] # rec.senders[j]

LEMMA EntryStep ==
  ASSUME LkInv, NEW d \in Drives, stage[d] # "idle", NEW rec \in LockEntry, EntryMove(d, rec)
  PROVE  LkInv'
<1> USE DEF EntryMove
<1>0. /\ ProcessOf[d] \in Workers /\ ref[d] \in Entries /\ registry[ProcessOf[d]] = ref[d]
      /\ rec.refs = Cardinality(Referring(ProcessOf[d])) /\ LkMemory
  BY MineSound DEF LkInv
<1>1. /\ entry' \in [Workers -> [Entries -> LockEntry]] /\ entry'[ProcessOf[d]][ref[d]] = rec
      /\ \A q \in Workers : q # ProcessOf[d] => entry'[q] = entry[q]
  BY <1>0, EntryEdit
<1>2. LkMemory'
  BY <1>0, <1>1 DEF LkMemory
<1>3. Referring(ProcessOf[d])' = Referring(ProcessOf[d])
  BY DEF Referring
<1>4. entry'[ProcessOf[d]][registry'[ProcessOf[d]]] = rec
  BY <1>0, <1>1
<1>5. EntrySound(ProcessOf[d])'
  BY <1>0, <1>3, <1>4 DEF EntrySound
<1>6. \A o \in Drives : RefersToRegistered(o)'
  BY DEF LkInv, RefersToRegistered
<1> QED
  BY <1>0, <1>1, <1>2, <1>5, <1>6, OneProcess

(* A drive that moves on within the section. *)
LEMMA SectionStep ==
  ASSUME LkInv, NEW d \in Drives, InSection(d), NEW s \in {"claim", "run", "release", "unlock"},
         UNCHANGED <<registry, entry, ref>>, Advance(d, s)
  PROVE  LkInv'
<1>0. stage[d] # "idle" /\ stage' = [stage EXCEPT ![d] = s] /\ stage \in [Drives -> Stages]
  BY DEF InSection, Advance, LkInv, LkMemory
<1>1. stage' \in [Drives -> Stages]
  BY <1>0 DEF Stages
<1>2. \A o \in Drives : /\ o # d => stage'[o] = stage[o]
                        /\ stage'[o] = "idle" <=> stage[o] = "idle"
                        /\ InSection(o)' <=> InSection(o)
                        /\ stage[o] = "wait" => stage'[o] = "wait"
  BY <1>0 DEF InSection
<1>3. entry' = [entry EXCEPT ![ProcessOf[d]][ref[d]] = Mine(d)]
  BY <1>0, MineSound DEF Mine, LkInv, LkMemory
<1>4. PICK rec \in LockEntry : rec = Mine(d)
  BY <1>0, MineSound
<1>5. \A o \in Drives : /\ ProcessOf[o] # ProcessOf[d] => stage'[o] = stage[o]
                        /\ stage'[o] = "idle" <=> stage[o] = "idle"
                        /\ ProcessOf[o] = ProcessOf[d] /\ InSection(o)' => rec.holder = o
  BY <1>0, <1>2, <1>4, MineSound
<1>6. \A i \in 1..Len(rec.senders) :
         /\ ProcessOf[rec.senders[i]] = ProcessOf[d] /\ stage'[rec.senders[i]] = "wait"
         /\ \A j \in 1..Len(rec.senders) : i # j => rec.senders[i] # rec.senders[j]
  BY <1>0, <1>2, <1>4, MineSound
<1>7. entry' = [entry EXCEPT ![ProcessOf[d]][ref[d]] = rec] /\ rec.refs = Mine(d).refs
  BY <1>3, <1>4
<1>8. UNCHANGED <<registry, ref>>
  OBVIOUS
<1>9. EntryMove(d, rec)
  BY <1>1, <1>5, <1>6, <1>7, <1>8, Zenon DEF EntryMove
<1> QED
  BY <1>0, <1>4, <1>9, EntryStep

LEMMA SendLockHolds ==
  ASSUME LkInv, NEW d \in Drives, SendLock(d)
  PROVE  LkInv'
<1>0. /\ stage[d] = "try" /\ UNCHANGED <<registry, ref>> /\ stage \in [Drives -> Stages]
      /\ ~InSection(d) /\ d # NoDrive
  BY LkConstants DEF SendLock, LkInv, LkMemory, InSection
<1> DEFINE m == Mine(d)
<1>m. m \in LockEntry /\ m = [refs |-> m.refs, holder |-> m.holder, senders |-> m.senders]
  BY <1>0, MineSound DEF LockEntry
<1>1. CASE m.holder = NoDrive
  <2> DEFINE rec == [refs |-> m.refs, holder |-> d, senders |-> m.senders]
  <2>1. /\ entry' = [entry EXCEPT ![ProcessOf[d]][ref[d]] = rec]
        /\ stage' = [stage EXCEPT ![d] = Locked(d)]
    <3>1. entry' = [entry EXCEPT ![ProcessOf[d]][ref[d]].holder = d]
      BY <1>1 DEF SendLock
    <3>2. [m EXCEPT !.holder = d] = rec
      BY <1>m
    <3> QED
      BY <1>1, <3>1, <3>2 DEF SendLock, Advance, Mine
  <2>2. rec \in LockEntry
    BY <1>m DEF LockEntry
  <2>3. Locked(d) \in {"claim", "run"}
    BY DEF Locked
  <2>4. stage' \in [Drives -> Stages]
    BY <1>0, <2>1, <2>3 DEF Stages
  <2>5. \A o \in Drives : /\ ProcessOf[o] # ProcessOf[d] => stage'[o] = stage[o]
                          /\ stage'[o] = "idle" <=> stage[o] = "idle"
                          /\ stage[o] = "wait" => stage'[o] = "wait"
                          /\ o # d => (InSection(o)' <=> InSection(o))
    BY <1>0, <2>1, <2>3 DEF InSection
  <2>6. \A o \in Drives : ProcessOf[o] = ProcessOf[d] /\ InSection(o)' => o = d
    BY <1>0, <1>1, <2>5, MineSound, LkConstants
  <2>7. \A i \in 1..Len(rec.senders) :
           /\ ProcessOf[rec.senders[i]] = ProcessOf[d] /\ stage'[rec.senders[i]] = "wait"
           /\ \A j \in 1..Len(rec.senders) : i # j => rec.senders[i] # rec.senders[j]
    BY <1>0, <2>5, MineSound
  <2>8. EntryMove(d, rec)
    BY <1>0, <2>1, <2>4, <2>5, <2>6, <2>7 DEF EntryMove
  <2> QED
    BY <1>0, <2>2, <2>8, EntryStep
<1>2. CASE m.holder # NoDrive
  <2> DEFINE rec == [refs |-> m.refs, holder |-> m.holder, senders |-> Append(m.senders, d)]
  <2>1. /\ entry' = [entry EXCEPT ![ProcessOf[d]][ref[d]] = rec]
        /\ stage' = [stage EXCEPT ![d] = "wait"]
    <3>1. entry' = [entry EXCEPT ![ProcessOf[d]][ref[d]].senders = Append(@, d)]
      BY <1>2 DEF SendLock
    <3>2. [m EXCEPT !.senders = Append(@, d)] = rec
      BY <1>m
    <3> QED
      BY <1>2, <3>1, <3>2 DEF SendLock, Advance, Mine
  <2>2. m.senders \in Seq(Drives) /\ Append(m.senders, d) \in Seq(Drives)
    BY <1>0, MineSound
  <2>3. rec \in LockEntry
    BY <1>m, <2>2 DEF LockEntry
  <2>4. stage' \in [Drives -> Stages]
    BY <1>0, <2>1 DEF Stages
  <2>5. \A o \in Drives : /\ ProcessOf[o] # ProcessOf[d] => stage'[o] = stage[o]
                          /\ stage'[o] = "idle" <=> stage[o] = "idle"
                          /\ stage[o] = "wait" => stage'[o] = "wait" /\ o # d
                          /\ InSection(o)' <=> InSection(o)
    BY <1>0, <2>1 DEF InSection
  <2>6. \A o \in Drives : ProcessOf[o] = ProcessOf[d] /\ InSection(o)' => rec.holder = o
    BY <1>0, <2>5, MineSound
  <2>7. /\ Len(rec.senders) = Len(m.senders) + 1 /\ rec.senders[Len(m.senders) + 1] = d
        /\ \A i \in 1..Len(m.senders) : rec.senders[i] = m.senders[i]
    BY <2>2
  <2>8. \A i \in 1..Len(m.senders) :
           /\ m.senders[i] # d /\ ProcessOf[m.senders[i]] = ProcessOf[d] /\ stage'[m.senders[i]] = "wait"
           /\ \A j \in 1..Len(m.senders) : i # j => m.senders[i] # m.senders[j]
    BY <1>0, <2>5, MineSound
  <2>9. \A i \in 1..Len(rec.senders) :
           /\ ProcessOf[rec.senders[i]] = ProcessOf[d] /\ stage'[rec.senders[i]] = "wait"
           /\ \A j \in 1..Len(rec.senders) : i # j => rec.senders[i] # rec.senders[j]
    <3>1. Len(m.senders) \in Nat /\ stage'[d] = "wait"
      BY <1>0, <2>1, <2>2
    <3>2. \A i \in 1..Len(rec.senders) : i \in 1..Len(m.senders) \/ i = Len(m.senders) + 1
      BY <2>7, <3>1
    <3> HIDE DEF rec
    <3> QED
      BY <2>7, <2>8, <3>1, <3>2
  <2>10. EntryMove(d, rec)
    BY <1>0, <2>1, <2>4, <2>5, <2>6, <2>9 DEF EntryMove
  <2> QED
    BY <1>0, <2>3, <2>10, EntryStep
<1> QED
  BY <1>1, <1>2

(* What is before and what is after the k-th element of a sequence. *)
SplitAt(a, b, q, k) ==
    /\ Len(a) = k - 1 /\ \A i \in 1..k - 1 : a[i] = q[i]
    /\ Len(b) = Len(q) - k /\ \A i \in 1..Len(q) - k : b[i] = q[k + i]

LEMMA RemovedParts ==
  ASSUME NEW S, NEW q \in Seq(S), NEW k \in 1..Len(q)
  PROVE  /\ SubSeq(q, 1, k - 1) \in Seq(S) /\ SubSeq(q, k + 1, Len(q)) \in Seq(S)
         /\ SplitAt(SubSeq(q, 1, k - 1), SubSeq(q, k + 1, Len(q)), q, k)
<1>1. Len(q) \in Nat /\ k \in Nat /\ 1 <= k /\ k <= Len(q)
  OBVIOUS
<1> QED
  BY <1>1 DEF SplitAt

LEMMA RemovedJoined ==
  ASSUME NEW S, NEW q \in Seq(S), NEW k \in 1..Len(q), NEW a \in Seq(S), NEW b \in Seq(S),
         SplitAt(a, b, q, k)
  PROVE  /\ a \o b \in Seq(S) /\ Len(a \o b) = Len(q) - 1
         /\ \A i \in 1..Len(q) - 1 : (a \o b)[i] = IF i < k THEN q[i] ELSE q[i + 1]
<1> USE DEF SplitAt
<1>0. Len(q) \in Nat /\ k \in Nat /\ 1 <= k /\ k <= Len(q)
  OBVIOUS
<1>1. /\ a \o b \in Seq(S)
      /\ Len(a \o b) = Len(a) + Len(b)
      /\ \A i \in 1..Len(a) + Len(b) : (a \o b)[i] = IF i <= Len(a) THEN a[i] ELSE b[i - Len(a)]
  BY ConcatProperties, Zenon
<1>2. ASSUME NEW i \in 1..Len(q) - 1 PROVE (a \o b)[i] = IF i < k THEN q[i] ELSE q[i + 1]
  <2>1. (a \o b)[i] = IF i <= k - 1 THEN a[i] ELSE b[i - (k - 1)]
    BY <1>0, <1>1
  <2>2. CASE i < k
    BY <1>0, <2>1, <2>2
  <2>3. CASE ~(i < k)
    <3>1. i - (k - 1) \in 1..Len(q) - k /\ ~(i <= k - 1)
      BY <1>0, <2>3
    <3>2. b[i - (k - 1)] = q[k + (i - (k - 1))] /\ k + (i - (k - 1)) = i + 1
      BY <1>0, <3>1
    <3> QED
      BY <2>1, <2>3, <3>1, <3>2
  <2> QED
    BY <2>2, <2>3
<1>3. Len(a \o b) = Len(q) - 1
  BY <1>0, <1>1
<1> QED
  BY <1>1, <1>2, <1>3

LEMMA RemovedFrom ==
  ASSUME NEW S, NEW q \in Seq(S), NEW k \in 1..Len(q)
  PROVE  /\ SubSeq(q, 1, k - 1) \o SubSeq(q, k + 1, Len(q)) \in Seq(S)
         /\ Len(SubSeq(q, 1, k - 1) \o SubSeq(q, k + 1, Len(q))) = Len(q) - 1
         /\ \A i \in 1..Len(q) - 1 : (SubSeq(q, 1, k - 1) \o SubSeq(q, k + 1, Len(q)))[i]
                                        = IF i < k THEN q[i] ELSE q[i + 1]
<1>1. PICK a \in Seq(S) : a = SubSeq(q, 1, k - 1)
  BY RemovedParts, Zenon
<1>2. PICK b \in Seq(S) : b = SubSeq(q, k + 1, Len(q))
  BY RemovedParts, Zenon
<1>3. SplitAt(a, b, q, k)
  BY <1>1, <1>2, RemovedParts, Zenon
<1>4. /\ a \o b \in Seq(S) /\ Len(a \o b) = Len(q) - 1
      /\ \A i \in 1..Len(q) - 1 : (a \o b)[i] = IF i < k THEN q[i] ELSE q[i + 1]
  BY <1>3, RemovedJoined
<1> QED
  BY <1>1, <1>2, <1>4, Zenon

LEMMA GiveUpHolds ==
  ASSUME LkInv, NEW d \in Drives, GiveUp(d)
  PROVE  LkInv'
<1>0. /\ stage[d] = "wait" /\ UNCHANGED <<registry, ref>> /\ stage \in [Drives -> Stages]
      /\ stage' = [stage EXCEPT ![d] = "drop"]
  BY DEF GiveUp, LkInv, LkMemory, Advance
<1> DEFINE m == Mine(d)
           q == m.senders
<1>m. /\ m \in LockEntry /\ m = [refs |-> m.refs, holder |-> m.holder, senders |-> q]
      /\ q \in Seq(Drives) /\ Len(q) \in Nat
  BY <1>0, MineSound DEF LockEntry
<1>d. DOMAIN q = 1..Len(q)
  BY <1>m
<1>1. PICK k \in DOMAIN Mine(d).senders :
        /\ Mine(d).senders[k] = d
        /\ entry' = [entry EXCEPT ![ProcessOf[d]][ref[d]].senders =
                                     SubSeq(@, 1, k - 1) \o SubSeq(@, k + 1, Len(@))]
  BY DEF GiveUp
<1>k. k \in 1..Len(q) /\ q[k] = d
  BY <1>d, <1>1
<1> DEFINE left == SubSeq(q, 1, k - 1) \o SubSeq(q, k + 1, Len(q))
           rec == [refs |-> m.refs, holder |-> m.holder, senders |-> left]
<1>2. /\ left \in Seq(Drives) /\ Len(left) = Len(q) - 1
      /\ \A i \in 1..Len(q) - 1 : left[i] = IF i < k THEN q[i] ELSE q[i + 1]
  <2> HIDE DEF q
  <2> QED
    BY <1>m, <1>k, RemovedFrom, Zenon
<1>3. entry' = [entry EXCEPT ![ProcessOf[d]][ref[d]] = rec]
  <2>1. [m EXCEPT !.senders = left] = rec
    <3> HIDE DEF left
    <3> QED
      BY <1>m
  <2> QED
    BY <1>1, <2>1 DEF Mine
<1>4. rec \in LockEntry
  BY <1>m, <1>2 DEF LockEntry
<1>5. stage' \in [Drives -> Stages]
  BY <1>0 DEF Stages
<1>6. \A o \in Drives : /\ ProcessOf[o] # ProcessOf[d] => stage'[o] = stage[o]
                        /\ stage'[o] = "idle" <=> stage[o] = "idle"
                        /\ o # d => stage'[o] = stage[o]
                        /\ InSection(o)' <=> InSection(o)
  BY <1>0 DEF InSection
<1>7. \A o \in Drives : ProcessOf[o] = ProcessOf[d] /\ InSection(o)' => rec.holder = o
  BY <1>0, <1>6, MineSound
<1>8. \A i \in 1..Len(q) :
         /\ q[i] \in Drives /\ ProcessOf[q[i]] = ProcessOf[d] /\ stage[q[i]] = "wait"
         /\ \A j \in 1..Len(q) : i # j => q[i] # q[j]
  BY <1>0, MineSound
<1>9. \A i \in 1..Len(left) :
         /\ ProcessOf[left[i]] = ProcessOf[d] /\ stage'[left[i]] = "wait"
         /\ \A j \in 1..Len(left) : i # j => left[i] # left[j]
  <2> HIDE DEF left, q
  <2> DEFINE at(i) == IF i < k THEN i ELSE i + 1
  <2>1. \A i \in 1..Len(left) : at(i) \in 1..Len(q) /\ at(i) # k /\ left[i] = q[at(i)]
    BY <1>m, <1>k, <1>2
  <2>2. \A i, j \in 1..Len(left) : i # j => at(i) # at(j)
    BY <1>m, <1>k, <1>2
  <2> HIDE DEF at
  <2>3. \A i \in 1..Len(left) : /\ q[at(i)] \in Drives /\ q[at(i)] # d
                               /\ ProcessOf[q[at(i)]] = ProcessOf[d] /\ stage[q[at(i)]] = "wait"
    BY <1>k, <1>8, <2>1
  <2>4. \A i, j \in 1..Len(left) : i # j => q[at(i)] # q[at(j)]
    BY <1>8, <2>1, <2>2
  <2> QED
    BY <1>6, <2>1, <2>3, <2>4
<1>10. EntryMove(d, rec)
  <2> HIDE DEF left
  <2> QED
    BY <1>0, <1>3, <1>5, <1>6, <1>7, <1>9 DEF EntryMove
<1> QED
  BY <1>0, <1>4, <1>10, EntryStep

LEMMA UnlockHolds ==
  ASSUME LkInv, NEW d \in Drives, Unlock(d)
  PROVE  LkInv'
<1>0. /\ stage[d] = "unlock" /\ UNCHANGED <<registry, ref>> /\ stage \in [Drives -> Stages]
      /\ InSection(d)
  BY DEF Unlock, LkInv, LkMemory, InSection
<1> DEFINE m == Mine(d)
           q == m.senders
<1>m. /\ m \in LockEntry /\ m = [refs |-> m.refs, holder |-> m.holder, senders |-> q]
      /\ q \in Seq(Drives) /\ Len(q) \in Nat
      /\ \A o \in Drives : ProcessOf[o] = ProcessOf[d] /\ InSection(o) => o = d
      /\ \A i \in 1..Len(q) :
            /\ q[i] \in Drives /\ ProcessOf[q[i]] = ProcessOf[d] /\ stage[q[i]] = "wait"
            /\ \A j \in 1..Len(q) : i # j => q[i] # q[j]
  BY <1>0, MineSound DEF LockEntry
<1>1. CASE q = <<>>
  <2> DEFINE rec == [refs |-> m.refs, holder |-> NoDrive, senders |-> q]
  <2>1. /\ entry' = [entry EXCEPT ![ProcessOf[d]][ref[d]] = rec]
        /\ stage' = [stage EXCEPT ![d] = "drop"]
    <3>1. entry' = [entry EXCEPT ![ProcessOf[d]][ref[d]].holder = NoDrive]
      BY <1>1 DEF Unlock
    <3>2. [m EXCEPT !.holder = NoDrive] = rec
      BY <1>m
    <3> QED
      BY <1>1, <3>1, <3>2 DEF Unlock, Advance, Mine
  <2>2. rec \in LockEntry
    BY <1>m DEF LockEntry
  <2>3. stage' \in [Drives -> Stages]
    BY <1>0, <2>1 DEF Stages
  <2>4. \A o \in Drives : /\ ProcessOf[o] # ProcessOf[d] => stage'[o] = stage[o]
                          /\ stage'[o] = "idle" <=> stage[o] = "idle"
                          /\ InSection(o)' => o # d /\ InSection(o)
    BY <1>0, <2>1 DEF InSection
  <2>5. Len(rec.senders) = 0
    BY <1>1
  <2>6. EntryMove(d, rec)
    BY <1>0, <1>m, <2>1, <2>3, <2>4, <2>5 DEF EntryMove
  <2> QED
    BY <1>0, <2>2, <2>6, EntryStep
<1>2. CASE q # <<>>
  <2> DEFINE h == Head(q)
             rest == Tail(q)
             rec == [refs |-> m.refs, holder |-> h, senders |-> rest]
  <2>q. /\ 1 \in 1..Len(q) /\ h = q[1] /\ rest \in Seq(Drives) /\ Len(rest) = Len(q) - 1
        /\ \A i \in 1..Len(rest) : rest[i] = q[i + 1]
    BY <1>m, <1>2
  <2>1. /\ entry' = [entry EXCEPT ![ProcessOf[d]][ref[d]] = rec]
        /\ stage' = [stage EXCEPT ![d] = "drop", ![h] = Locked(h)]
    <3>1. /\ entry' = [entry EXCEPT ![ProcessOf[d]][ref[d]] = [@ EXCEPT !.holder = h, !.senders = rest]]
          /\ stage' = [stage EXCEPT ![d] = "drop", ![h] = Locked(h)]
      BY <1>2 DEF Unlock
    <3>2. [m EXCEPT !.holder = h, !.senders = rest] = rec
      <4> DEFINE one == [m EXCEPT !.holder = h]
                 two == [one EXCEPT !.senders = rest]
      <4> HIDE DEF h, rest
      <4>1. one = [refs |-> m.refs, holder |-> h, senders |-> q]
        BY <1>m
      <4>2. two = rec
        <5> HIDE DEF one
        <5> QED
          BY <4>1
      <4> QED
        BY <4>2
    <3> QED
      BY <3>1, <3>2 DEF Mine
  <2> HIDE DEF h, rest, q
  <2>2. h \in Drives /\ h # d /\ ProcessOf[h] = ProcessOf[d] /\ stage[h] = "wait" /\ Locked(h) \in {"claim", "run"}
    BY <1>0, <1>m, <2>q DEF Locked
  <2>3. rec \in LockEntry
    BY <1>m, <2>q, <2>2 DEF LockEntry
  <2>4. \A o \in Drives : stage'[o] = IF o = h THEN Locked(h) ELSE IF o = d THEN "drop" ELSE stage[o]
    BY <1>0, <2>1, <2>2
  <2>5. stage' \in [Drives -> Stages]
    BY <1>0, <2>1, <2>2 DEF Stages
  <2>6. \A o \in Drives : /\ ProcessOf[o] # ProcessOf[d] => stage'[o] = stage[o]
                          /\ stage'[o] = "idle" <=> stage[o] = "idle"
                          /\ InSection(o)' => o = h \/ (o # d /\ InSection(o))
    BY <1>0, <2>2, <2>4 DEF InSection
  <2>7. \A o \in Drives : ProcessOf[o] = ProcessOf[d] /\ InSection(o)' => h = o
    BY <1>m, <2>6
  <2>8. \A i \in 1..Len(rest) :
           /\ ProcessOf[rest[i]] = ProcessOf[d] /\ stage'[rest[i]] = "wait"
           /\ \A j \in 1..Len(rest) : i # j => rest[i] # rest[j]
    <3>1. \A i \in 1..Len(rest) : i + 1 \in 1..Len(q) /\ i + 1 # 1
      BY <1>m, <2>q
    <3>2. \A i \in 1..Len(rest) : /\ rest[i] \in Drives /\ rest[i] # h /\ stage[rest[i]] = "wait"
                                 /\ ProcessOf[rest[i]] = ProcessOf[d]
      BY <1>m, <2>q, <3>1
    <3>3. \A i, j \in 1..Len(rest) : i # j => rest[i] # rest[j]
      <4>1. \A i, j \in 1..Len(rest) : i # j => i + 1 # j + 1
        OBVIOUS
      <4> QED
        BY <1>m, <2>q, <3>1, <4>1
    <3> QED
      BY <1>0, <2>4, <3>2, <3>3
  <2>9. EntryMove(d, rec)
    <3>1. rec.refs = Mine(d).refs /\ rec.holder = h /\ rec.senders = rest
      OBVIOUS
    <3> HIDE DEF rec
    <3>2. \A o \in Drives : /\ ProcessOf[o] # ProcessOf[d] => stage'[o] = stage[o]
                            /\ stage'[o] = "idle" <=> stage[o] = "idle"
                            /\ ProcessOf[o] = ProcessOf[d] /\ InSection(o)' => rec.holder = o
      BY <2>6, <2>7, <3>1
    <3>3. \A i \in 1..Len(rec.senders) :
             /\ ProcessOf[rec.senders[i]] = ProcessOf[d] /\ stage'[rec.senders[i]] = "wait"
             /\ \A j \in 1..Len(rec.senders) : i # j => rec.senders[i] # rec.senders[j]
      BY <2>8, <3>1
    <3> QED
      BY <1>0, <2>1, <2>5, <3>1, <3>2, <3>3, Zenon DEF EntryMove
  <2> QED
    BY <1>0, <2>3, <2>9, EntryStep
<1> QED
  BY <1>1, <1>2

LEMMA DropRefHolds ==
  ASSUME LkInv, NEW d \in Drives, DropRef(d)
  PROVE  LkInv'
<1> DEFINE m == Mine(d)
           p == ProcessOf[d]
           rec == [refs |-> m.refs - 1, holder |-> m.holder, senders |-> m.senders]
<1>0. /\ stage[d] = "drop" /\ LkMemory /\ p \in Workers /\ ref[d] \in Entries /\ ref[d] # 0
      /\ registry[p] = ref[d] /\ m \in LockEntry
      /\ m = [refs |-> m.refs, holder |-> m.holder, senders |-> m.senders]
      /\ m.refs = Cardinality(Referring(p)) /\ d \in Referring(p)
  BY MineSound DEF DropRef, LkInv, LockEntry, Referring
<1>1. /\ entry' = [entry EXCEPT ![p][ref[d]] = rec]
      /\ registry' = IF m.refs = 1 THEN [registry EXCEPT ![p] = 0] ELSE registry
      /\ ref' = [ref EXCEPT ![d] = 0] /\ stage' = [stage EXCEPT ![d] = "idle"]
  <2>1. entry' = [entry EXCEPT ![p][ref[d]].refs = @ - 1]
    BY DEF DropRef
  <2>2. [m EXCEPT !.refs = @ - 1] = rec
    BY <1>0
  <2> QED
    BY <2>1, <2>2 DEF DropRef, Advance, Mine
<1>2. /\ Cardinality(Referring(p)) \in 0..Cardinality(Drives) /\ Cardinality(Referring(p)) > 0
      /\ Cardinality(Drives) \in Nat /\ IsFiniteSet(Referring(p))
      /\ m.refs = 1 => Referring(p) = {d}
  BY <1>0, ReferringFinite, LkConstants
<1>3. rec \in LockEntry
  BY <1>0, <1>2 DEF LockEntry
<1>4. /\ entry' \in [Workers -> [Entries -> LockEntry]] /\ entry'[p][ref[d]] = rec
      /\ \A w \in Workers : w # p => entry'[w] = entry[w]
  BY <1>0, <1>1, <1>3, EntryEdit
<1>5. LkMemory'
  BY <1>0, <1>1, <1>4 DEF LkMemory, Stages
<1>6. /\ \A w \in Workers : w # p => registry'[w] = registry[w] /\ entry'[w] = entry[w]
      /\ \A o \in Drives : o # d => stage'[o] = stage[o] /\ ref'[o] = ref[o]
      /\ stage'[d] = "idle" /\ ref'[d] = 0
      /\ registry'[p] = IF m.refs = 1 THEN 0 ELSE registry[p]
  BY <1>0, <1>1, <1>4 DEF LkMemory
<1>7. ASSUME NEW o \in Drives, ProcessOf[o] = p PROVE RefersToRegistered(o)'
  <2>1. CASE o = d
    BY <1>6, <2>1 DEF RefersToRegistered
  <2>2. CASE o # d
    <3>1. RefersToRegistered(o) /\ stage'[o] = stage[o] /\ ref'[o] = ref[o]
      BY <1>6, <2>2 DEF LkInv
    <3>2. ref[o] # 0 => m.refs # 1
      BY <1>2, <1>7, <2>2 DEF Referring
    <3> QED
      BY <1>6, <1>7, <3>1, <3>2 DEF RefersToRegistered
  <2> QED
    BY <2>1, <2>2
<1>8. EntrySound(p)'
  <2>1. CASE m.refs = 1
    BY <1>6, <2>1 DEF EntrySound
  <2>2. CASE m.refs # 1
    <3>1. Referring(p)' = Referring(p) \ {d}
      BY <1>6 DEF Referring
    <3>2. Cardinality(Referring(p))' = rec.refs
      <4>1. Cardinality(Referring(p) \ {d}) = Cardinality(Referring(p)) - 1
        BY <1>0, <1>2, FS_RemoveElement
      <4> QED
        BY <1>0, <3>1, <4>1
    <3>3. \A o \in Drives : InSection(o)' => InSection(o)
      BY <1>6 DEF InSection
    <3>4. \A o \in Drives : ProcessOf[o] = p /\ InSection(o)' => rec.holder = o
      BY <1>0, <3>3, MineSound
    <3>5. \A i \in 1..Len(rec.senders) :
             /\ ProcessOf[rec.senders[i]] = p /\ stage'[rec.senders[i]] = "wait"
             /\ \A j \in 1..Len(rec.senders) : i # j => rec.senders[i] # rec.senders[j]
      BY <1>0, <1>6, MineSound
    <3>6. entry'[p][registry'[p]] = rec
      BY <1>0, <1>4, <1>6, <2>2
    <3> HIDE DEF rec
    <3> QED
      BY <3>2, <3>4, <3>5, <3>6 DEF EntrySound
  <2> QED
    BY <2>1, <2>2
<1> QED
  BY <1>0, <1>5, <1>6, <1>7, <1>8, OneProcess

(* A drive that acquires joins the registered entry, or makes a fresh one     *)
(* while nobody of its process refers to any.                                *)
LEMMA ReserveHolds ==
  ASSUME LkInv, NEW d \in Drives, Reserve(d)
  PROVE  LkInv'
<1> DEFINE p == ProcessOf[d]
<1>0. /\ LkMemory /\ p \in Workers /\ stage[d] = "idle" /\ ref[d] = 0 /\ d \notin Referring(p)
      /\ stage' = [stage EXCEPT ![d] = "try"]
  BY LkConstants DEF Reserve, LkInv, RefersToRegistered, Advance, Referring
<1>1. PICK e \in Entries :
         /\ registry[p] # 0 => e = registry[p]
         /\ registry' = [registry EXCEPT ![p] = e]
         /\ ref' = [ref EXCEPT ![d] = e]
         /\ entry' = IF registry[p] # 0 THEN [entry EXCEPT ![p][e].refs = @ + 1]
                                         ELSE [entry EXCEPT ![p][e] = [NewEntry EXCEPT !.refs = 1]]
  BY DEF Reserve
<1>2. e # 0 /\ Entries \subseteq Nat /\ 0 \notin Entries
  BY LkConstants
<1>3. /\ stage' \in [Drives -> Stages] /\ ref' \in [Drives -> Entries \cup {0}]
      /\ registry' \in [Workers -> Entries \cup {0}] /\ registry'[p] = e
      /\ \A w \in Workers : w # p => registry'[w] = registry[w]
      /\ \A o \in Drives : o # d => stage'[o] = stage[o] /\ ref'[o] = ref[o]
      /\ stage'[d] = "try" /\ ref'[d] = e
  BY <1>0, <1>1 DEF LkMemory, Stages
<1>4. /\ Referring(p)' = Referring(p) \cup {d}
      /\ IsFiniteSet(Referring(p)) /\ Cardinality(Referring(p)) \in Nat
      /\ Cardinality(Referring(p))' = Cardinality(Referring(p)) + 1
      /\ Cardinality(Referring(p))' \in 0..Cardinality(Drives)
  <2>1. Referring(p)' = Referring(p) \cup {d}
    BY <1>2, <1>3 DEF Referring
  <2>2. IsFiniteSet(Referring(p)) /\ Cardinality(Referring(p)) \in Nat
    BY ReferringFinite, LkConstants
  <2>3. Cardinality(Referring(p) \cup {d}) = Cardinality(Referring(p)) + 1
    BY <1>0, <2>2, FS_AddElement
  <2>4. Referring(p) \cup {d} \in SUBSET Drives
    BY DEF Referring
  <2>5. Cardinality(Referring(p) \cup {d}) <= Cardinality(Drives)
    BY <2>4, FS_Subset, DrivesAssumption
  <2> QED
    BY <2>1, <2>2, <2>3, <2>5, LkConstants
<1>5. \A o \in Drives : InSection(o)' => InSection(o)
  BY <1>3 DEF InSection
<1>6. ASSUME NEW o \in Drives, ProcessOf[o] = p, o # d, ref[o] # 0 PROVE registry[p] = ref[o]
  BY <1>6 DEF LkInv, RefersToRegistered
<1>7. ASSUME NEW o \in Drives, ProcessOf[o] = p PROVE RefersToRegistered(o)'
  <2>1. CASE o = d
    BY <1>2, <1>3, <1>7, <2>1 DEF RefersToRegistered
  <2>2. CASE o # d
    <3>1. RefersToRegistered(o) /\ stage'[o] = stage[o] /\ ref'[o] = ref[o]
      BY <1>3, <2>2 DEF LkInv
    <3>2. ref[o] # 0 => ref[o] = e
      BY <1>0, <1>1, <1>2, <1>6, <1>7, <2>2 DEF LkMemory
    <3> QED
      BY <1>3, <1>7, <3>1, <3>2 DEF RefersToRegistered
  <2> QED
    BY <2>1, <2>2
<1>8. CASE registry[p] # 0
  <2> DEFINE m == entry[p][e]
             rec == [refs |-> m.refs + 1, holder |-> m.holder, senders |-> m.senders]
  <2>1. /\ m \in LockEntry /\ m = [refs |-> m.refs, holder |-> m.holder, senders |-> m.senders]
        /\ EntrySound(p) /\ e = registry[p] /\ m.refs = Cardinality(Referring(p))
        /\ m.senders \in Seq(Drives)
    BY <1>0, <1>1, <1>8 DEF LkInv, LkMemory, LockEntry, EntrySound
  <2>s. \A i \in 1..Len(m.senders) :
           /\ ProcessOf[m.senders[i]] = p /\ stage[m.senders[i]] = "wait" /\ m.senders[i] \in Drives
           /\ \A j \in 1..Len(m.senders) : i # j => m.senders[i] # m.senders[j]
    <3>1. \A i \in 1..Len(m.senders) : m.senders[i] \in Drives
      BY <2>1
    <3> QED
      BY <1>8, <2>1, <3>1 DEF EntrySound
  <2>2. [m EXCEPT !.refs = @ + 1] = rec
    BY <2>1
  <2>3. entry' = [entry EXCEPT ![p][e] = rec]
    BY <1>1, <1>8, <2>2
  <2>4. rec.refs = Cardinality(Referring(p))' /\ rec.holder = m.holder /\ rec.senders = m.senders
    BY <1>4, <2>1
  <2>5. rec \in LockEntry
    BY <1>4, <2>1, <2>4 DEF LockEntry
  <2> HIDE DEF rec
  <2>6. /\ entry' \in [Workers -> [Entries -> LockEntry]] /\ entry'[p][e] = rec
        /\ \A w \in Workers : w # p => entry'[w] = entry[w]
    BY <1>0, <2>3, <2>5, EntryEdit
  <2>7. \A o \in Drives : ProcessOf[o] = p /\ InSection(o)' => rec.holder = o
    BY <1>5, <1>8, <2>1, <2>4 DEF EntrySound
  <2>8. \A i \in 1..Len(rec.senders) :
           /\ ProcessOf[rec.senders[i]] = p /\ stage'[rec.senders[i]] = "wait"
           /\ \A j \in 1..Len(rec.senders) : i # j => rec.senders[i] # rec.senders[j]
    <3>1. \A i \in 1..Len(m.senders) : m.senders[i] # d
      BY <1>0, <2>s
    <3>2. \A i \in 1..Len(m.senders) : stage'[m.senders[i]] = "wait"
      BY <1>3, <2>s, <3>1
    <3> QED
      BY <2>4, <2>s, <3>2
  <2>9. EntrySound(p)'
    BY <1>3, <2>4, <2>6, <2>7, <2>8 DEF EntrySound
  <2>10. LkMemory'
    BY <1>3, <2>6 DEF LkMemory
  <2> QED
    BY <1>0, <1>3, <1>7, <2>6, <2>9, <2>10, OneProcess
<1>9. CASE registry[p] = 0
  <2> DEFINE rec == [refs |-> 1, holder |-> NoDrive, senders |-> <<>>]
  <2>1. \A o \in Drives : ProcessOf[o] = p => ref[o] = 0 /\ stage[o] = "idle"
    BY <1>2, <1>9 DEF LkInv, LkMemory, RefersToRegistered
  <2>2. Referring(p) = {} /\ Cardinality(Referring(p)) = 0
    <3>1. Referring(p) = {}
      BY <2>1 DEF Referring
    <3> QED
      BY <3>1, FS_EmptySet
  <2>3. entry' = [entry EXCEPT ![p][e] = rec]
    <3>1. [NewEntry EXCEPT !.refs = 1] = rec
      BY DEF NewEntry
    <3> QED
      BY <1>1, <1>9, <3>1
  <2>4. rec.refs = 1 /\ Len(rec.senders) = 0 /\ rec \in LockEntry
    BY <1>4, <2>2 DEF LockEntry
  <2> HIDE DEF rec
  <2>5. /\ entry' \in [Workers -> [Entries -> LockEntry]] /\ entry'[p][e] = rec
        /\ \A w \in Workers : w # p => entry'[w] = entry[w]
    BY <1>0, <2>3, <2>4, EntryEdit
  <2>6. \A o \in Drives : ProcessOf[o] = p => ~InSection(o)'
    BY <1>5, <2>1 DEF InSection
  <2>7. EntrySound(p)'
    BY <1>3, <1>4, <2>2, <2>4, <2>5, <2>6 DEF EntrySound
  <2>8. LkMemory'
    BY <1>3, <2>5 DEF LkMemory
  <2> QED
    BY <1>0, <1>3, <1>7, <2>5, <2>7, <2>8, OneProcess
<1> QED
  BY <1>8, <1>9

LEMMA ProcessDiesHolds ==
  ASSUME LkInv, NEW p \in Workers, ProcessDies(p)
  PROVE  LkInv'
<1>1. NewEntry \in LockEntry
  BY LkConstants, EmptySeq DEF NewEntry, LockEntry
<1>2. LkMemory'
  BY <1>1 DEF ProcessDies, LkInv, LkMemory, Stages
<1>3. /\ \A q \in Workers : q # p => registry'[q] = registry[q] /\ entry'[q] = entry[q]
      /\ \A d \in Drives : ProcessOf[d] # p => stage'[d] = stage[d] /\ ref'[d] = ref[d]
      /\ \A d \in Drives : ProcessOf[d] = p => stage'[d] = "idle" /\ ref'[d] = 0
      /\ registry'[p] = 0
  BY DEF ProcessDies, LkInv, LkMemory
<1>4. (\A d \in Drives : ProcessOf[d] = p => RefersToRegistered(d)') /\ EntrySound(p)'
  BY <1>3 DEF RefersToRegistered, EntrySound
<1> QED
  BY <1>2, <1>3, <1>4, OneProcess

LEMMA LkInvNext == LkInv /\ [LkNext]_lkVars => LkInv'
<1> SUFFICES ASSUME LkInv, [LkNext]_lkVars PROVE LkInv'
  OBVIOUS
<1>0. ASSUME UNCHANGED <<registry, entry, stage, ref>> PROVE LkInv'
  <2>1. \A p \in Workers : Referring(p)' = Referring(p)
    BY <1>0 DEF Referring
  <2>2. \A d \in Drives : InSection(d)' <=> InSection(d)
    BY <1>0 DEF InSection
  <2>3. ASSUME NEW p \in Workers PROVE EntrySound(p)'
    BY <1>0, <2>1, <2>2 DEF LkInv, EntrySound
  <2> QED
    BY <1>0, <2>3 DEF LkInv, LkMemory, RefersToRegistered
<1>1. ASSUME NEW d \in Drives, TakeClaim(d) \/ ClaimFails(d) \/ DriveEnds(d)
                              \/ ReleaseClaim(d) \/ ReleaseFails(d)
      PROVE  LkInv'
  <2>1. PICK s \in {"claim", "run", "release", "unlock"} :
           Advance(d, s) /\ InSection(d) /\ UNCHANGED <<registry, entry, ref>>
    BY <1>1 DEF TakeClaim, ClaimFails, DriveEnds, ReleaseClaim, ReleaseFails, InSection
  <2> QED
    BY <2>1, SectionStep
<1>2. ASSUME NEW d \in Drives, DriveCheckpoint(d) PROVE LkInv'
  <2>1. InSection(d) /\ UNCHANGED <<registry, entry, ref>>
    BY <1>2 DEF DriveCheckpoint, InSection
  <2>2. CASE UNCHANGED stage
    BY <1>0, <2>1, <2>2
  <2>3. CASE \E s \in {"release", "unlock"} : Advance(d, s)
    BY <2>1, <2>3, SectionStep
  <2> QED
    BY <1>2, <2>2, <2>3 DEF DriveCheckpoint
<1>3. CASE LeaseTick \/ UNCHANGED lkVars
  BY <1>0, <1>3 DEF LeaseTick, lkVars
<1> QED
  BY <1>1, <1>2, <1>3, ReserveHolds, SendLockHolds, GiveUpHolds, UnlockHolds, DropRefHolds,
     ProcessDiesHolds DEF LkNext, DriveStep

---------------------------------------------------------------------------
(* The theorems *)

LEMMA LkInvariant == LkSpec => [](LkInv /\ LkStored)
  BY LkInitHolds, LkInvNext, StoredNext, PTL DEF LkSpec

(* Registry, entries, references, lease row and tokens keep their types: the *)
(* count of references never goes below zero (dropRef) nor above the number  *)
(* of drives (lease.go Acquire).                                             *)
THEOREM LkTypeCorrect == LkSpec => []LkTypeOK
<1>1. LkInv /\ LkStored => LkTypeOK
  BY DEF LkInv, LkMemory, LockEntry, LkStored, LkTypeOK
<1> QED
  BY <1>1, LkInvariant, PTL

(* Two drives of one process are never both in the section, and one that     *)
(* still waits waits on the entry newcomers are handed, for any number of    *)
(* drives and processes and any order of acquires, cancellations, lost       *)
(* claims, store errors and crashes (lease.go, claim_locker.go).             *)
THEOREM SerializedHolds == LkSpec => []DrivesSerialized
<1>1. LkInv => DrivesSerialized
  <2> SUFFICES ASSUME LkInv, NEW d \in Drives, NEW o \in Drives, d # o, ProcessOf[d] = ProcessOf[o]
               PROVE  /\ ~(InSection(d) /\ InSection(o))
                      /\ stage[d] \in {"try", "wait"} /\ ref[o] # 0 => ref[d] = ref[o]
    BY DEF DrivesSerialized
  <2>1. ~(InSection(d) /\ InSection(o))
    <3>1. InSection(d) => stage[d] # "idle"
      BY DEF InSection
    <3> QED
      BY <3>1, MineSound
  <2>2. ASSUME stage[d] \in {"try", "wait"}, ref[o] # 0 PROVE ref[d] = ref[o]
    BY <2>2 DEF LkInv, RefersToRegistered
  <2> QED
    BY <2>1, <2>2
<1> QED
  BY <1>1, LkInvariant, PTL
=============================================================================

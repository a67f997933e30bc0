------------------------------ MODULE Lockers ------------------------------
(***************************************************************************)
(* The lock a drive of one workflow holds from load to save: the in-process *)
(* registry of reference-counted channel locks (lease.go), and the          *)
(* compositeLocker that takes a durable claim under it (claim_locker.go).   *)
(*                                                                          *)
(* Entries are heap objects: a drive keeps a pointer to the entry it        *)
(* reserved, whatever the registry maps the workflow to by then.  One       *)
(* action is one critical section of the registry mutex, one channel        *)
(* operation or one store transaction.                                      *)
(***************************************************************************)
EXTENDS Lease, Sequences, FiniteSets

CONSTANTS Drives,      \* goroutines that call Execute for the workflow
          ProcessOf,   \* the process (and ownerID) a drive runs in
          Claiming,    \* drives of a Workflow under WithMultiProcessLocker
          NoDrive,     \* the holder of a free channel
          MaxMishaps,  \* bound: crashes and store errors in a behaviour
          MaxToken     \* bound: fencing tokens; a lease under the last one is kept

ASSUME DrivesAssumption == /\ IsFiniteSet(Drives)
                           /\ ProcessOf \in [Drives -> Workers]
                           /\ Claiming \subseteq Drives
                           /\ NoDrive \notin Drives
                           /\ MaxMishaps \in Nat /\ MaxToken \in Nat

VARIABLES registry,   \* inProcessLocker.locks: the entry of the workflow
          entry,      \* the leaseEntry objects of each process
          stage,      \* where a drive is between Acquire and release
          ref,        \* the entry a drive reserved (0: none)
          claimRow,   \* the workflow's row in leases
          token,      \* tokenState of each process's store
          mishaps

lkVars == <<registry, entry, stage, ref, claimRow, token, mishaps>>

Entries == 1..Cardinality(Drives)

NewEntry == [refs |-> 0, holder |-> NoDrive, senders |-> <<>>]

Stages == {"idle", "try", "wait", "claim", "run", "release", "unlock", "drop"}

LkTypeOK ==
    /\ registry \in [Workers -> Entries \cup {0}]
    /\ entry    \in [Workers -> [Entries -> [refs    : 0..Cardinality(Drives),
                                             holder  : Drives \cup {NoDrive},
                                             senders : Seq(Drives)]]]
    /\ stage    \in [Drives -> Stages]
    /\ ref      \in [Drives -> Entries \cup {0}]
    /\ claimRow \in Leases
    /\ token    \in [Workers -> Nat]
    /\ mishaps  \in 0..MaxMishaps

LkInit ==
    /\ registry = [p \in Workers |-> 0]
    /\ entry    = [p \in Workers |-> [e \in Entries |-> NewEntry]]
    /\ stage    = [d \in Drives |-> "idle"]
    /\ ref      = [d \in Drives |-> 0]
    /\ claimRow = NoLease
    /\ token    = [p \in Workers |-> 0]
    /\ mishaps  = 0

Mishap == mishaps < MaxMishaps /\ mishaps' = mishaps + 1

Mine(d) == entry[ProcessOf[d]][ref[d]]

Advance(d, s) == stage' = [stage EXCEPT ![d] = s]

(* The stage a drive enters with the channel lock in hand. *)
Locked(d) == IF d \in Claiming THEN "claim" ELSE "run"

---------------------------------------------------------------------------
(* inProcessLocker.Acquire: look the entry up, or make one, and count the    *)
(* reference under the registry mutex.                                       *)
Reserve(d) ==
    /\ stage[d] = "idle"
    /\ \E e \in Entries :
          /\ IF registry[ProcessOf[d]] # 0
             THEN e = registry[ProcessOf[d]]
             ELSE e = CHOOSE f \in Entries : \A o \in Drives :
                         ProcessOf[o] = ProcessOf[d] => ref[o] # f
          /\ registry' = [registry EXCEPT ![ProcessOf[d]] = e]
          /\ ref' = [ref EXCEPT ![d] = e]
          /\ entry' = IF registry[ProcessOf[d]] # 0
                      THEN [entry EXCEPT ![ProcessOf[d]][e].refs = @ + 1]
                      ELSE [entry EXCEPT ![ProcessOf[d]][e] = [NewEntry EXCEPT !.refs = 1]]
    /\ Advance(d, "try")
    /\ UNCHANGED <<claimRow, token, mishaps>>

(* The two selects on the cap-1 channel: a free lock is taken whatever the   *)
(* context says, a held one queues the sender.                               *)
SendLock(d) ==
    /\ stage[d] = "try"
    /\ IF Mine(d).holder = NoDrive
       THEN /\ entry' = [entry EXCEPT ![ProcessOf[d]][ref[d]].holder = d]
            /\ Advance(d, Locked(d))
       ELSE /\ entry' = [entry EXCEPT ![ProcessOf[d]][ref[d]].senders = Append(@, d)]
            /\ Advance(d, "wait")
    /\ UNCHANGED <<registry, ref, claimRow, token, mishaps>>

(* ctx.Done() while waiting for a held lock. *)
GiveUp(d) ==
    /\ stage[d] = "wait"
    /\ \E i \in DOMAIN Mine(d).senders :
          /\ Mine(d).senders[i] = d
          /\ entry' = [entry EXCEPT ![ProcessOf[d]][ref[d]].senders =
                          SubSeq(@, 1, i - 1) \o SubSeq(@, i + 1, Len(@))]
    /\ Advance(d, "drop")
    /\ UNCHANGED <<registry, ref, claimRow, token, mishaps>>

(* Mutant of TakeClaim: a lost claim returns without releasing the local     *)
(* lock.                                                                     *)
TakeClaimStranding(d) ==
    /\ stage[d] = "claim"
    /\ IF Granted(claimRow, ProcessOf[d])
       THEN /\ claimRow' = Grant(claimRow, ProcessOf[d])
            /\ token' = [token EXCEPT ![ProcessOf[d]] = claimRow'.token]
            /\ Advance(d, "run")
       ELSE /\ Advance(d, "idle")
            /\ ref' = [ref EXCEPT ![d] = 0]
            /\ UNCHANGED <<claimRow, token>>
    /\ UNCHANGED <<registry, entry, mishaps>>
    /\ Granted(claimRow, ProcessOf[d]) => UNCHANGED ref

(* compositeLocker.Acquire under the local lock: Claim, or ErrClaimLost and  *)
(* the local lock is released again.                                         *)
TakeClaim(d) ==
    /\ stage[d] = "claim"
    /\ IF Granted(claimRow, ProcessOf[d])
       THEN /\ claimRow' = Grant(claimRow, ProcessOf[d])
            /\ token' = [token EXCEPT ![ProcessOf[d]] = claimRow'.token]
            /\ Advance(d, "run")
       ELSE /\ Advance(d, "unlock")
            /\ UNCHANGED <<claimRow, token>>
    /\ UNCHANGED <<registry, entry, ref, mishaps>>

(* Claim meets SQLITE_BUSY or a cancelled context: no token is set. *)
ClaimFails(d) ==
    /\ stage[d] = "claim"
    /\ Mishap
    /\ Advance(d, "unlock")
    /\ UNCHANGED <<registry, entry, ref, claimRow, token>>

(* A checkpoint of the drive: checkFencingLocked renews the lease, or the    *)
(* drive fails with ErrFencedOut.                                            *)
DriveCheckpoint(d) ==
    /\ stage[d] = "run"
    /\ LET held == token[ProcessOf[d]]
       IN  IF FencedOut(claimRow, held)
           THEN Advance(d, IF d \in Claiming THEN "release" ELSE "unlock")
                /\ UNCHANGED claimRow
           ELSE claimRow' = Renewed(claimRow, held) /\ UNCHANGED stage
    /\ UNCHANGED <<registry, entry, ref, token, mishaps>>

(* executeLocked returns; the deferred release starts to unwind. *)
DriveEnds(d) ==
    /\ stage[d] = "run"
    /\ Advance(d, IF d \in Claiming THEN "release" ELSE "unlock")
    /\ UNCHANGED <<registry, entry, ref, claimRow, token, mishaps>>

(* Release of the claim: DELETE under the token, then clear tokenState. *)
ReleaseClaim(d) ==
    /\ stage[d] = "release"
    /\ claimRow' = Released(claimRow, token[ProcessOf[d]])
    /\ token' = [token EXCEPT ![ProcessOf[d]] = 0]
    /\ Advance(d, "unlock")
    /\ UNCHANGED <<registry, entry, ref, mishaps>>

(* The best-effort Release fails and its error is swallowed. *)
ReleaseFails(d) ==
    /\ stage[d] = "release"
    /\ Mishap
    /\ Advance(d, "unlock")
    /\ UNCHANGED <<registry, entry, ref, claimRow, token>>

(* Receive from the channel: a queued sender's element takes the freed slot, *)
(* first come first served.                                                  *)
Unlock(d) ==
    /\ stage[d] = "unlock"
    /\ LET queue == Mine(d).senders
       IN  IF queue = <<>>
           THEN /\ entry' = [entry EXCEPT ![ProcessOf[d]][ref[d]].holder = NoDrive]
                /\ Advance(d, "drop")
           ELSE /\ entry' = [entry EXCEPT ![ProcessOf[d]][ref[d]] =
                                [@ EXCEPT !.holder = Head(queue), !.senders = Tail(queue)]]
                /\ stage' = [stage EXCEPT ![d] = "drop",
                                          ![Head(queue)] = Locked(Head(queue))]
    /\ UNCHANGED <<registry, ref, claimRow, token, mishaps>>

(* Mutant of DropRef: the registry entry goes with the first reference.      *)
DropRefEagerly(d) ==
    /\ stage[d] = "drop"
    /\ entry' = [entry EXCEPT ![ProcessOf[d]][ref[d]].refs = @ - 1]
    /\ registry' = [registry EXCEPT ![ProcessOf[d]] = 0]
    /\ ref' = [ref EXCEPT ![d] = 0]
    /\ Advance(d, "idle")
    /\ UNCHANGED <<claimRow, token, mishaps>>

(* Mutant of DropRef: the count is not taken back.                           *)
DropRefUncounted(d) ==
    /\ stage[d] = "drop"
    /\ ref' = [ref EXCEPT ![d] = 0]
    /\ Advance(d, "idle")
    /\ UNCHANGED <<registry, entry, claimRow, token, mishaps>>

(* dropRef: the last reference deletes whatever the registry maps the        *)
(* workflow to.                                                              *)
DropRef(d) ==
    /\ stage[d] = "drop"
    /\ entry' = [entry EXCEPT ![ProcessOf[d]][ref[d]].refs = @ - 1]
    /\ registry' = IF Mine(d).refs = 1
                   THEN [registry EXCEPT ![ProcessOf[d]] = 0] ELSE registry
    /\ ref' = [ref EXCEPT ![d] = 0]
    /\ Advance(d, "idle")
    /\ UNCHANGED <<claimRow, token, mishaps>>

(* A process dies with everything in memory; its lease row stays. *)
ProcessDies(p) ==
    /\ Mishap
    /\ \E d \in Drives : ProcessOf[d] = p /\ stage[d] # "idle"
    /\ registry' = [registry EXCEPT ![p] = 0]
    /\ entry' = [entry EXCEPT ![p] = [e \in Entries |-> NewEntry]]
    /\ stage' = [d \in Drives |-> IF ProcessOf[d] = p THEN "idle" ELSE stage[d]]
    /\ ref'   = [d \in Drives |-> IF ProcessOf[d] = p THEN 0 ELSE ref[d]]
    /\ token' = [token EXCEPT ![p] = 0]
    /\ UNCHANGED claimRow

LeaseTick ==
    /\ Exists(claimRow) /\ claimRow.left >= 0
    /\ claimRow.token < MaxToken
    /\ claimRow' = Aged(claimRow)
    /\ UNCHANGED <<registry, entry, stage, ref, token, mishaps>>

(* A drive that is on its way out or has nothing left to wait for. *)
DriveStep(d) == SendLock(d) \/ TakeClaim(d) \/ DriveEnds(d) \/ ReleaseClaim(d)
                \/ Unlock(d) \/ DropRef(d)

LkNext ==
    \/ \E d \in Drives : \/ Reserve(d) \/ DriveStep(d) \/ GiveUp(d)
                         \/ ClaimFails(d) \/ DriveCheckpoint(d) \/ ReleaseFails(d)
    \/ \E p \in Workers : ProcessDies(p)
    \/ LeaseTick

LkSpec == LkInit /\ [][LkNext]_lkVars

---------------------------------------------------------------------------
(* Properties *)

InSection(d) == stage[d] \in {"claim", "run", "release", "unlock"}

(* Two drives of one workflow in one process are never both between taking   *)
(* and giving back the lock, whatever entries the registry has deleted and   *)
(* made again in between, and a drive that still waits waits on the entry    *)
(* the registry hands to newcomers (lease.go: the count is bumped under the  *)
(* mutex before the lock is taken).                                          *)
DrivesSerialized ==
    \A d, o \in Drives :
        d # o /\ ProcessOf[d] = ProcessOf[o] =>
            /\ ~(InSection(d) /\ InSection(o))
            /\ stage[d] \in {"try", "wait"} /\ ref[o] # 0 => ref[d] = ref[o]

(* A drive that waits for the lock gets it or gives up: no lost claim, store *)
(* error or cancelled peer strands the lock (claim_locker.go: "a lost race   *)
(* never strands it").                                                       *)
WaiterServed == \A d \in Drives : stage[d] = "wait" ~> stage[d] # "wait"
=============================================================================

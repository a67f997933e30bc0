------------------------------ MODULE Mailbox ------------------------------
(***************************************************************************)
(* The file stores' signal mailbox of one workflow (signal_store.go): a     *)
(* directory with a file per signal id, a sibling lock file that is made by *)
(* the first delivery and never removed, and four operations from any       *)
(* number of processes: deliver (under flock), take and ack (no lock) and   *)
(* the Delete of the run, which locks only when the lock file is there.     *)
(*                                                                          *)
(* One action is one file system call, or a group of them that no other     *)
(* operation can get between.                                               *)
(***************************************************************************)
EXTENDS Integers, FiniteSets

CONSTANTS SignalId,    \* ids of the signals that are delivered
          Deliverer,   \* goroutines in DeliverSignal, of any process
          Remover,     \* the goroutine in Delete
          Nobody,      \* the holder of a free flock, the id of no delivery
          MailboxCap,  \* signalMailboxCap
          MaxDeaths    \* bound: processes that die in a delivery

ASSUME MailboxAssumption == /\ IsFiniteSet(SignalId) /\ IsFiniteSet(Deliverer)
                            /\ Remover \notin Deliverer
                            /\ Nobody \notin Deliverer \cup {Remover} \cup SignalId
                            /\ MailboxCap \in Nat /\ MaxDeaths \in Nat

VARIABLES lockFile,   \* <id>.signals.lock is there
          flock,      \* who holds it
          dir,        \* <id>.signals is there
          entries,    \* the .sig files in it
          stubs,      \* temporary files a dead delivery left in it
          delivery,   \* where each delivery is, and its signal
          removal,    \* where Delete is
          take,       \* the consumer: what it has listed and what it has read
          deaths

mbVars == <<lockFile, flock, dir, entries, stubs, delivery, removal, take, deaths>>

Resting   == [at |-> "idle", id |-> Nobody]
NotTaking == [at |-> "idle", listed |-> {}, read |-> {}]

MbTypeOK ==
    /\ lockFile \in BOOLEAN /\ dir \in BOOLEAN
    /\ flock \in Deliverer \cup {Remover, Nobody}
    /\ entries \subseteq SignalId /\ stubs \in Nat
    /\ delivery \in [Deliverer -> [at : {"idle", "lock", "count", "mkdir", "temp", "rename", "unlock"},
                                   id : SignalId \cup {Nobody}]]
    /\ removal \in {"idle", "lock", "remove"}
    /\ take \in [at : {"idle", "read", "ack"}, listed : SUBSET SignalId, read : SUBSET SignalId]
    /\ deaths \in 0..MaxDeaths

MbInit ==
    /\ lockFile = FALSE /\ flock = Nobody
    /\ dir = FALSE /\ entries = {} /\ stubs = 0
    /\ delivery = [d \in Deliverer |-> Resting]
    /\ removal = "idle" /\ take = NotTaking /\ deaths = 0

(* The temporary files of the deliveries that are writing. *)
Temps == {d \in Deliverer : delivery[d].at = "rename"}

(* What os.ReadDir counts. *)
DirEntries == Cardinality(entries) + stubs + (IF dir THEN Cardinality(Temps) ELSE 0)

Moves(d, s) == delivery' = [delivery EXCEPT ![d].at = s]

---------------------------------------------------------------------------
(* deliverSignalToDir *)

(* Mutant of OpenLock: the lock-free path for a signal that is there.        *)
OpenLockUnlessThere(d, id) ==
    /\ delivery[d] = Resting
    /\ IF id \in entries
       THEN delivery' = [delivery EXCEPT ![d] = [at |-> "temp", id |-> id]] /\ UNCHANGED lockFile
       ELSE delivery' = [delivery EXCEPT ![d] = [at |-> "lock", id |-> id]] /\ lockFile' = TRUE
    /\ UNCHANGED <<flock, dir, entries, stubs, removal, take, deaths>>

(* The ids and the size are checked, the lock file is opened with O_CREATE. *)
OpenLock(d, id) ==
    /\ delivery[d] = Resting
    /\ delivery' = [delivery EXCEPT ![d] = [at |-> "lock", id |-> id]]
    /\ lockFile' = TRUE
    /\ UNCHANGED <<flock, dir, entries, stubs, removal, take, deaths>>

TakeFlock(d) ==
    /\ delivery[d].at = "lock" /\ flock = Nobody
    /\ flock' = d
    /\ Moves(d, "count")
    /\ UNCHANGED <<lockFile, dir, entries, stubs, removal, take, deaths>>

(* Stat of the entry, and the count of the directory when it is new. *)
CountEntries(d) ==
    /\ delivery[d].at = "count"
    /\ Moves(d, IF delivery[d].id \notin entries /\ DirEntries + 1 > MailboxCap
                THEN "unlock" ELSE "mkdir")
    /\ UNCHANGED <<lockFile, flock, dir, entries, stubs, removal, take, deaths>>

MakeDir(d) ==
    /\ delivery[d].at = "mkdir"
    /\ dir' = TRUE
    /\ Moves(d, "temp")
    /\ UNCHANGED <<lockFile, flock, entries, stubs, removal, take, deaths>>

(* writeFileAtomic: the temporary file, then the rename.  Either fails when  *)
(* the directory is gone.                                                    *)
WriteTemp(d) ==
    /\ delivery[d].at = "temp"
    /\ Moves(d, IF dir THEN "rename" ELSE "unlock")
    /\ UNCHANGED <<lockFile, flock, dir, entries, stubs, removal, take, deaths>>

RenameEntry(d) ==
    /\ delivery[d].at = "rename"
    /\ entries' = IF dir THEN entries \cup {delivery[d].id} ELSE entries
    /\ Moves(d, "unlock")
    /\ UNCHANGED <<lockFile, flock, dir, stubs, removal, take, deaths>>

ReturnDelivery(d) ==
    /\ delivery[d].at = "unlock"
    /\ delivery' = [delivery EXCEPT ![d] = Resting]
    /\ flock' = IF flock = d THEN Nobody ELSE flock
    /\ UNCHANGED <<lockFile, dir, entries, stubs, removal, take, deaths>>

(* The process dies: the kernel gives the lock back, a temporary file stays. *)
DelivererDies(d) ==
    /\ deaths < MaxDeaths
    /\ deaths' = deaths + 1
    /\ delivery[d] # Resting
    /\ stubs' = IF dir /\ d \in Temps THEN stubs + 1 ELSE stubs
    /\ delivery' = [delivery EXCEPT ![d] = Resting]
    /\ flock' = IF flock = d THEN Nobody ELSE flock
    /\ UNCHANGED <<lockFile, dir, entries, removal, take>>

---------------------------------------------------------------------------
(* takeSignalsFromDir and ackSignalsInDir, both without the lock *)

(* ReadDir and the cap; an over-full mailbox is refused as corrupt. *)
ListDir ==
    /\ take.at = "idle"
    /\ take' = IF DirEntries > MailboxCap \/ entries = {} THEN NotTaking
               ELSE [at |-> "read", listed |-> entries, read |-> {}]
    /\ UNCHANGED <<lockFile, flock, dir, entries, stubs, delivery, removal, deaths>>

(* An entry that went since the listing is skipped. *)
ReadEntry(id) ==
    /\ take.at = "read" /\ id \in take.listed
    /\ take' = [take EXCEPT !.at     = IF take.listed = {id} THEN "ack" ELSE @,
                            !.listed = @ \ {id},
                            !.read   = IF id \in entries THEN @ \cup {id} ELSE @]
    /\ UNCHANGED <<lockFile, flock, dir, entries, stubs, delivery, removal, deaths>>

AckEntry(id) ==
    /\ take.at = "ack" /\ id \in take.read
    /\ entries' = entries \ {id}
    /\ take' = [take EXCEPT !.read = @ \ {id}]
    /\ UNCHANGED <<lockFile, flock, dir, stubs, delivery, removal, deaths>>

(* The run acks what it consumed, which need not be all it took. *)
AckDone ==
    /\ take.at = "ack"
    /\ take' = NotTaking
    /\ UNCHANGED <<lockFile, flock, dir, entries, stubs, delivery, removal, deaths>>

---------------------------------------------------------------------------
(* removeSignalDir: the lock is taken when its file is there. *)
OpenForRemoval ==
    /\ removal = "idle"
    /\ removal' = IF lockFile THEN "lock" ELSE "remove"
    /\ UNCHANGED <<lockFile, flock, dir, entries, stubs, delivery, take, deaths>>

LockForRemoval ==
    /\ removal = "lock" /\ flock = Nobody
    /\ flock' = Remover /\ removal' = "remove"
    /\ UNCHANGED <<lockFile, dir, entries, stubs, delivery, take, deaths>>

RemoveDir ==
    /\ removal = "remove"
    /\ dir' = FALSE /\ entries' = {} /\ stubs' = 0
    /\ removal' = "idle"
    /\ flock' = IF flock = Remover THEN Nobody ELSE flock
    /\ UNCHANGED <<lockFile, delivery, take, deaths>>

MbNext ==
    \/ \E d \in Deliverer : \/ \E id \in SignalId : OpenLock(d, id)
                            \/ TakeFlock(d) \/ CountEntries(d) \/ MakeDir(d)
                            \/ WriteTemp(d) \/ RenameEntry(d) \/ ReturnDelivery(d)
                            \/ DelivererDies(d)
    \/ ListDir \/ AckDone
    \/ \E id \in SignalId : ReadEntry(id) \/ AckEntry(id)
    \/ OpenForRemoval \/ LockForRemoval \/ RemoveDir

MbSpec == MbInit /\ [][MbNext]_mbVars

---------------------------------------------------------------------------
(* Properties *)

(* Deliveries, re-deliveries, acks and Deletes in any order never put more   *)
(* signals in the mailbox than the cap, though the Stat, the count and the   *)
(* rename of a delivery are three steps and acks take no lock                *)
(* (signal_store.go: "post-write entry set is a subset of the set observed   *)
(* under the lock and the path").  It counts signals: a temp file that a     *)
(* delivery left behind when it died counts for the cap of a take as well,   *)
(* and a take may then refuse a mailbox that holds no more signals than this.*)
MailboxWithinCap == Cardinality(entries) <= MailboxCap
=============================================================================

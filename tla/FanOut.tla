------------------------------- MODULE FanOut -------------------------------
(***************************************************************************)
(* A fan-out node (fanout.go): the expander resolves the items, the         *)
(* expansion is journaled in the parent's data and flushed, a pool of       *)
(* workers drives one child run per item under a cancellable context, and   *)
(* the results are keyed into the parent's data.                            *)
(*                                                                          *)
(* A child run is cut to its single node: not there, done or failed, with   *)
(* the item it was built for and what its data holds under the result key,  *)
(* where any action may have put it, also one that failed after it.  A node *)
(* that failed is terminal: a second child.Execute skips it and returns     *)
(* nil, as DAG.Execute does.  A result is told by the item it was computed  *)
(* from.                                                                    *)
(***************************************************************************)
EXTENDS Integers, Sequences, FiniteSets

CONSTANTS Item,          \* per-branch inputs
          Expansions,    \* what the expander may resolve, call by call
          MaxWidth,      \* WithMaxWidth
          PoolWidth,     \* the per-level MaxConcurrency
          NodeRetries,   \* WithRetries of the fan-out node
          Modes,         \* [partial, keyed]: WithCollectPartial, WithResults
          NoItems,       \* no journal key in the data
          MaxGlitches    \* bound: crashes, store errors, cancellations

ASSUME FanOutAssumption ==
    /\ \A x \in Expansions : x \in Seq(Item)
    /\ NoItems \notin Expansions
    /\ MaxWidth \in Nat \ {0} /\ PoolWidth \in Nat \ {0}
    /\ NodeRetries \in Nat /\ MaxGlitches \in Nat
    /\ Modes \subseteq [partial : BOOLEAN, keyed : BOOLEAN]

VARIABLES mode,     \* the node's options
          fan,      \* the parent's data in memory
          fanDisk,  \* the parent's data in the store
          kid,      \* the child runs in the store, by branch index
          branch,   \* where each branch is in the pool
          fpc,      \* where the node's Execute is
          stop,     \* branchCtx is cancelled
          attempt,  \* RetryableAction's attempt
          glitches

fanVars == <<mode, fan, fanDisk, kid, branch, fpc, stop, attempt, glitches>>

Index == 1..MaxWidth

(* items: the journal; out: result keys; failed: the __failed__ list;        *)
(* count: the __count__ key (-1: absent); node: the node's status.           *)
Fresh == [items |-> NoItems, out |-> [i \in Index |-> NoItems], failed |-> {-1},
          count |-> -1, node |-> "pending"]

NoKid == [st |-> "none", item |-> NoItems, res |-> NoItems]

BranchStates == {"out", "queued", "fed", "run", "ok", "err", "cancelled"}

FanTypeOK ==
    /\ mode \in Modes
    /\ \A d \in {fan, fanDisk} : /\ d.items \in Expansions \cup {NoItems}
                                 /\ d.node \in {"pending", "completed", "failed"}
    /\ kid \in [Index -> [st : {"none", "done", "failed"}, item : Item \cup {NoItems},
                          res : Item \cup {NoItems}]]
    /\ branch \in [Index -> BranchStates]
    /\ fpc \in {"rest", "expand", "flush", "check", "pool", "complete", "fail"}
    /\ attempt \in 0..NodeRetries /\ glitches \in 0..MaxGlitches /\ stop \in BOOLEAN

FanInit ==
    /\ mode \in Modes
    /\ fan = Fresh /\ fanDisk = Fresh
    /\ kid = [i \in Index |-> NoKid]
    /\ branch = [i \in Index |-> "out"]
    /\ fpc = "rest" /\ stop = FALSE /\ attempt = 0 /\ glitches = 0

Glitch == glitches < MaxGlitches /\ glitches' = glitches + 1

(* The attempt returns an error: RetryableAction runs the action again on    *)
(* the same data, or the node fails.                                         *)
AttemptFails ==
    IF attempt < NodeRetries
    THEN fpc' = "expand" /\ attempt' = attempt + 1
    ELSE fpc' = "fail" /\ UNCHANGED attempt

---------------------------------------------------------------------------
(* A drive loads the parent; a settled node is not run again. *)
FanDrive ==
    /\ fpc = "rest"
    /\ fanDisk.node = "pending"
    /\ fan' = fanDisk
    /\ fpc' = "expand" /\ attempt' = 0 /\ stop' = FALSE
    /\ branch' = [i \in Index |-> "out"]
    /\ UNCHANGED <<mode, fanDisk, kid, glitches>>

(* Mutant of ResolveExpansion: the journal is not looked at.                 *)
ResolveAnew ==
    /\ fpc = "expand"
    /\ \E x \in Expansions : fan' = [fan EXCEPT !.items = x]
    /\ fpc' = "flush"
    /\ UNCHANGED <<mode, fanDisk, kid, branch, stop, attempt, glitches>>

(* resolveExpansion: the journal in the data wins, and needs no flush; else  *)
(* the expander runs and its list is set in the data.                        *)
ResolveExpansion ==
    /\ fpc = "expand"
    /\ \/ /\ fan.items # NoItems
          /\ fpc' = "check"
          /\ UNCHANGED fan
       \/ /\ fan.items = NoItems
          /\ \E x \in Expansions : fan' = [fan EXCEPT !.items = x]
          /\ fpc' = "flush"
    /\ UNCHANGED <<mode, fanDisk, kid, branch, stop, attempt, glitches>>

ExpanderFails ==
    /\ fpc = "expand" /\ fan.items = NoItems
    /\ Glitch
    /\ AttemptFails
    /\ UNCHANGED <<mode, fan, fanDisk, kid, branch, stop>>

(* Mutant of FlushExpansion: the list stays in memory.                       *)
FlushNothing ==
    /\ fpc = "flush"
    /\ fpc' = "check"
    /\ UNCHANGED <<mode, fan, fanDisk, kid, branch, stop, attempt, glitches>>

(* The checkpoint callback, before the first branch. *)
FlushExpansion ==
    /\ fpc = "flush"
    /\ fanDisk' = fan
    /\ fpc' = "check"
    /\ UNCHANGED <<mode, fan, kid, branch, stop, attempt, glitches>>

FlushFails ==
    /\ fpc = "flush"
    /\ Glitch
    /\ AttemptFails
    /\ UNCHANGED <<mode, fan, fanDisk, kid, branch, stop>>

(* The keys the node writes: result[i], __count__ and, when partial results  *)
(* are collected, __failed__.                                                *)
Keyed(n, succeeded, failed) ==
    IF ~mode.keyed THEN fan
    ELSE [fan EXCEPT !.out    = [i \in Index |-> IF i \in succeeded THEN kid[i].res ELSE @[i]],
                     !.count  = n,
                     !.failed = IF mode.partial THEN failed ELSE @]

(* The width cap, checkBaseKeyCollisions and the empty fan-out. *)
CheckWidth ==
    /\ fpc = "check"
    /\ LET n == Len(fan.items)
       IN  IF n > MaxWidth \/ (mode.keyed /\ fan.count \notin {-1, n})
           THEN AttemptFails /\ UNCHANGED <<fan, branch, stop>>
           ELSE \/ /\ n = 0
                   /\ fan' = Keyed(0, {}, {})
                   /\ fpc' = "complete"
                   /\ UNCHANGED <<branch, stop, attempt>>
                \/ /\ n # 0
                   /\ branch' = [i \in Index |-> IF i <= n THEN "queued" ELSE "out"]
                   /\ fpc' = "pool" /\ stop' = FALSE
                   /\ UNCHANGED <<fan, attempt>>
    /\ UNCHANGED <<mode, fanDisk, kid, glitches>>

---------------------------------------------------------------------------
(* The pool *)

In(s) == {i \in Index : branch[i] = s}
Lowest(s) == CHOOSE i \in In(s) : \A j \in In(s) : i <= j
PoolSize(n) == IF n < PoolWidth THEN n ELSE PoolWidth

Quiet == UNCHANGED <<mode, fan, fanDisk, fpc, attempt>>

(* Mutant of Feed: a cancelled feeder leaves the rest as it is.              *)
FeedUntilStopped ==
    /\ fpc = "pool" /\ In("queued") # {} /\ ~stop
    /\ Cardinality(In("fed")) < PoolSize(Len(fan.items))
    /\ branch' = [branch EXCEPT ![Lowest("queued")] = "fed"]
    /\ UNCHANGED <<kid, stop, glitches>> /\ Quiet

(* The feeder sends the next index, or marks the rest when it sees the       *)
(* cancellation.                                                             *)
Feed ==
    /\ fpc = "pool" /\ In("queued") # {}
    /\ \/ /\ Cardinality(In("fed")) < PoolSize(Len(fan.items))
          /\ branch' = [branch EXCEPT ![Lowest("queued")] = "fed"]
       \/ /\ stop
          /\ branch' = [i \in Index |-> IF branch[i] = "queued" THEN "cancelled" ELSE branch[i]]
    /\ UNCHANGED <<kid, stop, glitches>> /\ Quiet

(* A free worker receives an index. *)
WorkerTakes ==
    /\ fpc = "pool" /\ In("fed") # {}
    /\ Cardinality(In("run")) < PoolSize(Len(fan.items))
    /\ branch' = [branch EXCEPT ![Lowest("fed")] = IF stop THEN "cancelled" ELSE "run"]
    /\ UNCHANGED <<kid, stop, glitches>> /\ Quiet

(* The verdict on a branch; a failure cancels the siblings unless partial    *)
(* results are collected.                                                    *)
Settles(i, verdict) ==
    /\ branch' = [branch EXCEPT ![i] = verdict]
    /\ stop' = (stop \/ (verdict # "ok" /\ ~mode.partial))

(* readBranchResult: a declared result key has to be in the child's data,    *)
(* whatever became of the child.                                             *)
ReadResult(res) == IF mode.keyed /\ res = NoItems THEN "err" ELSE "ok"

(* The child run of an item, once it has settled; its action may have set    *)
(* the result key.                                                           *)
Child(i, st, sets) == [st |-> st, item |-> fan.items[i], res |-> IF sets THEN fan.items[i] ELSE NoItems]

(* driveBranch over a child run that has settled already: a complete one is  *)
(* read back; a failed one is handed to child.Execute, which finds no work   *)
(* and returns nil, and is then read like the other.                         *)
BranchSettledBefore(i) ==
    /\ fpc = "pool" /\ branch[i] = "run"
    /\ kid[i].st # "none"
    /\ Settles(i, ReadResult(kid[i].res))
    /\ UNCHANGED <<kid, glitches>> /\ Quiet

(* driveBranch drives a new child run to success, with or without a result.  *)
BranchRuns(i, sets) ==
    /\ fpc = "pool" /\ branch[i] = "run"
    /\ kid[i].st = "none"
    /\ kid' = [kid EXCEPT ![i] = Child(i, "done", sets)]
    /\ Settles(i, ReadResult(kid'[i].res))
    /\ IF sets THEN UNCHANGED glitches ELSE Glitch
    /\ Quiet

(* The branch action fails, by itself or on a context that was cancelled     *)
(* under it; the child's failed state is saved, a result key included that   *)
(* the action had set before.                                                *)
BranchFails(i, sets) ==
    /\ fpc = "pool" /\ branch[i] = "run"
    /\ kid[i].st = "none"
    /\ kid' = [kid EXCEPT ![i] = Child(i, "failed", sets)]
    /\ IF stop THEN Settles(i, "cancelled") /\ UNCHANGED glitches
               ELSE Settles(i, "err") /\ Glitch
    /\ Quiet

(* A cancelled child that had not started its node, or a store that cannot   *)
(* load it.                                                                  *)
BranchNotDriven(i) ==
    /\ fpc = "pool" /\ branch[i] = "run"
    /\ IF stop THEN Settles(i, "cancelled") /\ UNCHANGED glitches
               ELSE Settles(i, "err") /\ Glitch
    /\ UNCHANGED kid /\ Quiet

---------------------------------------------------------------------------
Succeeded == In("ok")

(* A result key that is there with another value, or another failed list. *)
Collides ==
    \/ \E i \in Succeeded : fan.out[i] # NoItems /\ fan.out[i] # kid[i].res
    \/ mode.partial /\ fan.failed # {-1} /\ fan.failed # In("err") \cup In("cancelled")

(* wg.Wait, the fan-in policy and the keying of the results. *)
FanIn ==
    /\ fpc = "pool"
    /\ \A i \in Index : branch[i] \in {"out", "ok", "err", "cancelled"}
    /\ IF \/ ~mode.partial /\ In("err") \cup In("cancelled") # {}
          \/ mode.keyed /\ Collides
       THEN AttemptFails /\ UNCHANGED fan
       ELSE /\ fpc' = "complete"
            /\ fan' = Keyed(Len(fan.items), Succeeded, In("err") \cup In("cancelled"))
            /\ UNCHANGED attempt
    /\ UNCHANGED <<mode, fanDisk, kid, branch, stop, glitches>>

(* The parent's context is cancelled while the branches run: the pool winds  *)
(* down and the node fails without keying anything.                          *)
ParentCancelled ==
    /\ fpc = "pool"
    /\ Glitch
    /\ branch' = [i \in Index |-> IF branch[i] \in {"queued", "fed", "run"}
                                  THEN "cancelled" ELSE branch[i]]
    /\ stop' = TRUE
    /\ fpc' = "fail"
    /\ UNCHANGED <<mode, fan, fanDisk, kid, attempt>>

(* The executor: the node's status and the level barrier's checkpoint, or    *)
(* the Save of the failed state.                                             *)
NodeSettles ==
    /\ fpc \in {"complete", "fail"}
    /\ fanDisk' = [fan EXCEPT !.node = IF fpc = "complete" THEN "completed" ELSE "failed"]
    /\ fpc' = "rest"
    /\ UNCHANGED <<mode, fan, kid, branch, stop, attempt, glitches>>

(* Another fan-out of the level flushes its own expansion, and with it       *)
(* whatever this one has put in the data.                                    *)
SiblingFlush ==
    /\ fpc # "rest" /\ fan # fanDisk
    /\ Glitch
    /\ fanDisk' = fan
    /\ UNCHANGED <<mode, fan, kid, branch, fpc, stop, attempt>>

FanCrash ==
    /\ fpc # "rest"
    /\ Glitch
    /\ fpc' = "rest" /\ fan' = Fresh /\ attempt' = 0 /\ stop' = FALSE
    /\ branch' = [i \in Index |-> "out"]
    /\ UNCHANGED <<mode, fanDisk, kid>>

FanStep ==
    \/ ResolveExpansion \/ FlushExpansion \/ CheckWidth \/ Feed \/ WorkerTakes
    \/ \E i \in Index : BranchSettledBefore(i) \/ BranchRuns(i, TRUE)
    \/ FanIn \/ NodeSettles

FanNext ==
    \/ FanDrive \/ FanStep
    \/ ExpanderFails \/ FlushFails \/ ParentCancelled \/ SiblingFlush \/ FanCrash
    \/ \E i \in Index : \/ BranchRuns(i, FALSE) \/ BranchNotDriven(i)
                        \/ \E sets \in BOOLEAN : BranchFails(i, sets)

FanSpec == FanInit /\ [][FanNext]_fanVars

---------------------------------------------------------------------------
(* Properties *)

(* A completed fan-out with results accounts for every item of the journaled *)
(* expansion, across crashes and resumes: a branch is either in the failed   *)
(* list (never, when a failure is to fail the node) or its key holds the     *)
(* result its own child run has stored, built for that very item.  The child *)
(* may be one that failed after it had set the key: driven again after a     *)
(* crash it counts as a success (see FailFastFailsTheNode).                  *)
FanOutPartition ==
    fanDisk.node = "completed" /\ mode.keyed =>
        /\ fanDisk.count = Len(fanDisk.items)
        /\ \A i \in (1..fanDisk.count) \ fanDisk.failed : fanDisk.out[i] = fanDisk.items[i]

(* No child run exists before the expansion it belongs to is in the store    *)
(* (fanout.go: "flush durably BEFORE branch 1"), so a resume finds the same  *)
(* items under the same child ids.                                           *)
ExpansionBeforeBranches ==
    (\E i \in Index : kid[i].st # "none") =>
        /\ fanDisk.items # NoItems
        /\ \A i \in Index : kid[i].st # "none" => kid[i].item = fanDisk.items[i]

(* The feeder, the workers and a cancellation never leave the node waiting   *)
(* for a branch nobody will settle.                                          *)
PoolDrains == fpc = "pool" ~> fpc # "pool"

(* WithCollectPartial's comment on the default: "the first branch failure    *)
(* fails the fan node".  A node that completes under it has no failed branch.*)
FailFastFailsTheNode ==
    fanDisk.node = "completed" /\ ~mode.partial =>
        \A i \in Index : kid[i].st # "failed"
=============================================================================

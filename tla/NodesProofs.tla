---------------------------- MODULE NodesProofs ----------------------------
(***************************************************************************)
(* Proofs about the nodes that are more than an action, for any constants:  *)
(* FanOut, Waits and SubWorkflow, one after the other.                      *)
(***************************************************************************)
EXTENDS FanOut, Waits, SubWorkflow, WellFoundedInduction, TLAPS

---------------------------------------------------------------------------
(* FanOut *)

(* The parent's data. *)
FanData == [items  : Expansions \cup {NoItems},
            out    : [Index -> Item \cup {NoItems}],
            failed : SUBSET (Index \cup {-1}),
            count  : Nat \cup {-1},
            node   : {"pending", "completed", "failed"}]

(* The child runs. *)
Kids == [st : {"none", "done", "failed"}, item : Item \cup {NoItems}, res : Item \cup {NoItems}]

(* FanTypeOK but for `stop`, with all of the data. *)
FanTypes ==
    /\ mode \in Modes
    /\ fan \in FanData /\ fanDisk \in FanData
    /\ kid \in [Index -> Kids]
    /\ branch \in [Index -> BranchStates]
    /\ fpc \in {"rest", "expand", "flush", "check", "pool", "complete", "fail"}
    /\ attempt \in 0..NodeRetries /\ glitches \in 0..MaxGlitches

(* Past resolveExpansion there is an expansion, and the pool has a branch    *)
(* for every item of it and no other.                                        *)
PoolMatches ==
    /\ fpc \in {"flush", "check", "pool"} => fan.items # NoItems
    /\ fpc = "pool" => /\ Len(fan.items) <= MaxWidth
                       /\ \A i \in Index : branch[i] # "out" <=> i <= Len(fan.items)

FanShape == FanTypes /\ PoolMatches

LEMMA FanDataType ==
  ASSUME NEW d \in FanData
  PROVE  /\ d.items # NoItems => d.items \in Expansions /\ d.items \in Seq(Item) /\ Len(d.items) \in Nat
         /\ \A x \in Expansions : [d EXCEPT !.items = x] \in FanData /\ x # NoItems
         /\ \A n \in {"pending", "completed", "failed"} : [d EXCEPT !.node = n] \in FanData
<1>1. d.items # NoItems => d.items \in Expansions /\ d.items \in Seq(Item) /\ Len(d.items) \in Nat
  BY FanOutAssumption DEF FanData
<1>2. \A x \in Expansions : [d EXCEPT !.items = x] \in FanData /\ x # NoItems
  BY FanOutAssumption DEF FanData
<1>3. \A n \in {"pending", "completed", "failed"} : [d EXCEPT !.node = n] \in FanData
  BY DEF FanData
<1> QED
  BY <1>1, <1>2, <1>3

LEMMA FreshType == Fresh \in FanData /\ Fresh.items = NoItems /\ Fresh.node = "pending"
  BY DEF Fresh, FanData

LEMMA AttemptFailsType ==
  ASSUME FanTypes, AttemptFails
  PROVE  fpc' \in {"expand", "fail"} /\ attempt' \in 0..NodeRetries
  BY FanOutAssumption DEF FanTypes, AttemptFails

(* What keying the results makes of the data. *)
LEMMA KeyedType ==
  ASSUME FanTypes, NEW n \in Nat, NEW good \in SUBSET Index, NEW bad \in SUBSET Index
  PROVE  /\ Keyed(n, good, bad) \in FanData
         /\ Keyed(n, good, bad).items = fan.items /\ Keyed(n, good, bad).node = fan.node
         /\ mode.keyed =>
               /\ Keyed(n, good, bad).count = n
               /\ mode.partial => Keyed(n, good, bad).failed = bad
               /\ \A i \in good : Keyed(n, good, bad).out[i] = kid[i].res
<1>1. CASE ~mode.keyed
  BY <1>1 DEF Keyed, FanTypes
<1>2. CASE mode.keyed
  <2> DEFINE res == [i \in Index |-> IF i \in good THEN kid[i].res ELSE fan.out[i]]
             lst == IF mode.partial THEN bad ELSE fan.failed
  <2>1. res \in [Index -> Item \cup {NoItems}] /\ lst \in SUBSET (Index \cup {-1})
    BY DEF FanTypes, FanData, Kids
  <2>2. Keyed(n, good, bad) =
           [items |-> fan.items, out |-> res, failed |-> lst, count |-> n, node |-> fan.node]
    BY <1>2 DEF Keyed, FanTypes, FanData
  <2> QED
    BY <1>2, <2>1, <2>2 DEF FanTypes, FanData
<1> QED
  BY <1>1, <1>2

LEMMA FanShapeInit == FanInit => FanShape
  BY FreshType, FanOutAssumption DEF FanInit, FanShape, FanTypes, PoolMatches, NoKid, Kids, BranchStates

(* A step of the pool moves branches that are in it. *)
LEMMA PoolStep ==
  ASSUME FanShape, fpc = "pool", Quiet,
         branch' \in [Index -> BranchStates],
         \A i \in Index : branch'[i] = "out" <=> branch[i] = "out",
         kid' \in [Index -> Kids],
         glitches' \in 0..MaxGlitches
  PROVE  FanShape'
  BY DEF FanShape, FanTypes, PoolMatches, Quiet

LEMMA SettlesType ==
  ASSUME FanShape, fpc = "pool", NEW i \in Index, branch[i] = "run",
         NEW verdict \in {"ok", "err", "cancelled"}, Settles(i, verdict)
  PROVE  /\ branch' \in [Index -> BranchStates]
         /\ \A j \in Index : branch'[j] = "out" <=> branch[j] = "out"
         /\ branch' = [branch EXCEPT ![i] = verdict]
  BY DEF FanShape, FanTypes, Settles, BranchStates

LEMMA GlitchType == ASSUME FanTypes, Glitch PROVE glitches' \in 0..MaxGlitches
  BY FanOutAssumption DEF FanTypes, Glitch

(* A branch under way belongs to an item. *)
LEMMA BranchItem ==
  ASSUME FanShape, fpc = "pool", NEW i \in Index, branch[i] = "run"
  PROVE  fan.items[i] \in Item /\ i \in 1..Len(fan.items)
<1>1. fan.items \in Seq(Item) /\ Len(fan.items) \in Nat
  BY FanDataType DEF FanShape, FanTypes, PoolMatches
<1>2. i \in 1..Len(fan.items)
  BY <1>1 DEF FanShape, PoolMatches, Index
<1> QED
  BY <1>1, <1>2

(* The run of such a branch, once settled. *)
LEMMA ChildType ==
  ASSUME FanShape, fpc = "pool", NEW i \in Index, branch[i] = "run",
         NEW st \in {"done", "failed"}, NEW sets \in BOOLEAN,
         kid' = [kid EXCEPT ![i] = Child(i, st, sets)]
  PROVE  /\ kid' \in [Index -> Kids]
         /\ kid'[i].st = st /\ kid'[i].item = fan.items[i] /\ kid'[i].res \in {fan.items[i], NoItems}
         /\ \A j \in Index \ {i} : kid'[j] = kid[j]
<1>1. Child(i, st, sets) \in Kids
  BY BranchItem DEF Child, Kids
<1>2. /\ Child(i, st, sets).st = st /\ Child(i, st, sets).item = fan.items[i]
      /\ Child(i, st, sets).res \in {fan.items[i], NoItems}
  BY DEF Child
<1>3. kid \in [Index -> Kids]
  BY DEF FanShape, FanTypes
<1>4. kid'[i] = Child(i, st, sets) /\ \A j \in Index \ {i} : kid'[j] = kid[j]
  BY <1>3, Zenon
<1> QED
  BY <1>1, <1>2, <1>3, <1>4

(* A set of natural numbers has a least one. *)
LEMMA LeastExists ==
  ASSUME NEW S \in SUBSET Nat, S # {}
  PROVE  \E i \in S : \A j \in S : i <= j
<1>1. IsWellFoundedOn(OpToRel(<, Nat), Nat)
  BY NatLessThanWellFounded
<1>2. PICK i \in S : \A j \in S : ~ (<<j, i>> \in OpToRel(<, Nat))
  BY <1>1, WFMin, Zenon
<1>3. \A j \in S : ~ (j < i)
  BY <1>2 DEF OpToRel
<1> QED
  BY <1>3, SMT

LEMMA LowestType ==
  ASSUME FanTypes, NEW s, In(s) # {}
  PROVE  Lowest(s) \in Index /\ branch[Lowest(s)] = s
<1>1. In(s) \in SUBSET Nat
  BY DEF In, Index
<1>2. \E i \in In(s) : \A j \in In(s) : i <= j
  BY <1>1, LeastExists
<1>3. Lowest(s) \in In(s)
  BY <1>2, Zenon DEF Lowest
<1> QED
  BY <1>3 DEF In

LEMMA FanShapeNext == FanShape /\ [FanNext]_fanVars => FanShape'
<1> SUFFICES ASSUME FanShape, [FanNext]_fanVars PROVE FanShape'
  OBVIOUS
<1>0. FanTypes /\ PoolMatches
  BY DEF FanShape
<1>1. CASE FanDrive
  BY <1>0, <1>1, FanOutAssumption DEF FanDrive, FanShape, FanTypes, PoolMatches, BranchStates
<1>2. CASE ResolveExpansion
  <2>0. UNCHANGED <<mode, fanDisk, kid, branch, stop, attempt, glitches>>
    BY <1>2 DEF ResolveExpansion
  <2>1. CASE fan.items # NoItems /\ fpc' = "check" /\ UNCHANGED fan
    BY <1>0, <2>0, <2>1 DEF FanShape, FanTypes, PoolMatches
  <2>2. ASSUME NEW x \in Expansions, fan' = [fan EXCEPT !.items = x], fpc' = "flush"
        PROVE  FanShape'
    <3>1. fan' \in FanData /\ x # NoItems
      BY <1>0, <2>2, FanDataType DEF FanTypes
    <3>2. fan'.items = x
      BY <1>0, <2>2 DEF FanTypes, FanData
    <3> QED
      BY <1>0, <2>0, <2>2, <3>1, <3>2 DEF FanShape, FanTypes, PoolMatches
  <2> QED
    BY <1>2, <2>1, <2>2 DEF ResolveExpansion
<1>3. CASE ExpanderFails \/ FlushFails
  BY <1>0, <1>3, AttemptFailsType, GlitchType
     DEF ExpanderFails, FlushFails, FanShape, FanTypes, PoolMatches
<1>4. CASE FlushExpansion
  BY <1>0, <1>4 DEF FlushExpansion, FanShape, FanTypes, PoolMatches
<1>5. CASE CheckWidth
  <2> DEFINE n == Len(fan.items)
  <2>0. /\ fpc = "check" /\ UNCHANGED <<mode, fanDisk, kid, glitches>>
        /\ \/ AttemptFails /\ UNCHANGED <<fan, branch, stop>>
           \/ /\ fan' = Keyed(0, {}, {}) /\ fpc' = "complete"
              /\ UNCHANGED <<branch, stop, attempt>>
           \/ /\ n <= MaxWidth
              /\ branch' = [i \in Index |-> IF i <= n THEN "queued" ELSE "out"]
              /\ fpc' = "pool" /\ stop' = FALSE
              /\ UNCHANGED <<fan, attempt>>
    <3>1. n \in Nat /\ MaxWidth \in Nat
      BY <1>0, <1>5, FanDataType, FanOutAssumption DEF CheckWidth, FanTypes, PoolMatches
    <3>2. CASE n > MaxWidth \/ (mode.keyed /\ fan.count \notin {-1, n})
      BY <1>5, <3>2 DEF CheckWidth
    <3>3. CASE ~(n > MaxWidth \/ (mode.keyed /\ fan.count \notin {-1, n})) /\ n = 0
      BY <1>5, <3>3 DEF CheckWidth
    <3>4. CASE ~(n > MaxWidth \/ (mode.keyed /\ fan.count \notin {-1, n})) /\ n # 0
      BY <1>5, <3>1, <3>4 DEF CheckWidth
    <3> QED
      BY <3>2, <3>3, <3>4
  <2>1. CASE AttemptFails /\ UNCHANGED <<fan, branch, stop>>
    BY <1>0, <2>0, <2>1, AttemptFailsType DEF FanShape, FanTypes, PoolMatches
  <2>2. CASE /\ fan' = Keyed(0, {}, {}) /\ fpc' = "complete"
             /\ UNCHANGED <<branch, stop, attempt>>
    <3>1. fan' \in FanData
      BY <1>0, <2>2, KeyedType
    <3> QED
      BY <1>0, <2>0, <2>2, <3>1 DEF FanShape, FanTypes, PoolMatches
  <2>3. CASE /\ n <= MaxWidth
             /\ branch' = [i \in Index |-> IF i <= n THEN "queued" ELSE "out"]
             /\ fpc' = "pool" /\ stop' = FALSE
             /\ UNCHANGED <<fan, attempt>>
    BY <1>0, <2>0, <2>3 DEF FanShape, FanTypes, PoolMatches, BranchStates
  <2> QED
    BY <2>0, <2>1, <2>2, <2>3
<1>6. CASE Feed
  <2>0. fpc = "pool" /\ Quiet /\ UNCHANGED <<kid, glitches>>
    BY <1>6 DEF Feed
  <2>1. CASE branch' = [branch EXCEPT ![Lowest("queued")] = "fed"]
    BY <1>0, <1>6, <2>0, <2>1, LowestType, PoolStep DEF Feed, FanTypes, BranchStates
  <2>2. CASE branch' = [i \in Index |-> IF branch[i] = "queued" THEN "cancelled" ELSE branch[i]]
    BY <1>0, <2>0, <2>2, PoolStep DEF FanTypes, BranchStates
  <2> QED
    BY <1>6, <2>1, <2>2 DEF Feed
<1>7. CASE WorkerTakes
  <2>0. fpc = "pool" /\ Quiet /\ UNCHANGED <<kid, glitches>> /\ In("fed") # {}
    BY <1>7 DEF WorkerTakes
  <2>1. PICK t \in {"cancelled", "run"} : branch' = [branch EXCEPT ![Lowest("fed")] = t]
    BY <1>7 DEF WorkerTakes
  <2> QED
    BY <1>0, <2>0, <2>1, LowestType, PoolStep DEF FanTypes, BranchStates
<1>8. ASSUME NEW i \in Index, BranchSettledBefore(i) PROVE FanShape'
  <2>1. fpc = "pool" /\ branch[i] = "run" /\ Quiet /\ UNCHANGED <<kid, glitches>>
    BY <1>8 DEF BranchSettledBefore
  <2>2. PICK t \in {"ok", "err", "cancelled"} : Settles(i, t)
    BY <1>8 DEF BranchSettledBefore, ReadResult
  <2> QED
    BY <1>0, <2>1, <2>2, SettlesType, PoolStep DEF FanTypes
<1>9. ASSUME NEW i \in Index, NEW sets \in BOOLEAN, BranchRuns(i, sets) PROVE FanShape'
  <2>1. /\ fpc = "pool" /\ branch[i] = "run" /\ Quiet
        /\ kid' = [kid EXCEPT ![i] = Child(i, "done", sets)]
    BY <1>9 DEF BranchRuns
  <2>2. glitches' \in 0..MaxGlitches
    BY <1>0, <1>9, GlitchType DEF BranchRuns, FanTypes
  <2>3. PICK t \in {"ok", "err"} : Settles(i, t)
    BY <1>9 DEF BranchRuns, ReadResult
  <2>4. kid' \in [Index -> Kids]
    BY <2>1, ChildType
  <2> QED
    BY <1>0, <2>1, <2>2, <2>3, <2>4, SettlesType, PoolStep DEF FanTypes
<1>10. ASSUME NEW i \in Index, NEW sets \in BOOLEAN, BranchFails(i, sets) PROVE FanShape'
  <2>1. /\ fpc = "pool" /\ branch[i] = "run" /\ Quiet
        /\ kid' = [kid EXCEPT ![i] = Child(i, "failed", sets)]
    BY <1>10 DEF BranchFails
  <2>2. (Settles(i, "cancelled") \/ Settles(i, "err")) /\ glitches' \in 0..MaxGlitches
    BY <1>0, <1>10, GlitchType DEF BranchFails, FanTypes
  <2>3. kid' \in [Index -> Kids]
    BY <2>1, ChildType
  <2> QED
    BY <1>0, <2>1, <2>2, <2>3, SettlesType, PoolStep DEF FanTypes
<1>11. ASSUME NEW i \in Index, BranchNotDriven(i) PROVE FanShape'
  <2>1. fpc = "pool" /\ branch[i] = "run" /\ Quiet /\ UNCHANGED kid
    BY <1>11 DEF BranchNotDriven
  <2>2. (Settles(i, "cancelled") \/ Settles(i, "err")) /\ glitches' \in 0..MaxGlitches
    BY <1>0, <1>11, GlitchType DEF BranchNotDriven, FanTypes
  <2> QED
    BY <1>0, <2>1, <2>2, SettlesType, PoolStep DEF FanTypes
<1>12. CASE FanIn
  <2>0. UNCHANGED <<mode, fanDisk, kid, branch, stop, glitches>> /\ fpc = "pool"
    BY <1>12 DEF FanIn
  <2>1. CASE AttemptFails /\ UNCHANGED fan
    BY <1>0, <2>0, <2>1, AttemptFailsType DEF FanShape, FanTypes, PoolMatches
  <2>2. CASE /\ fpc' = "complete" /\ UNCHANGED attempt
             /\ fan' = Keyed(Len(fan.items), Succeeded, In("err") \cup In("cancelled"))
    <3>1. Len(fan.items) \in Nat
      BY <1>0, <2>0, FanDataType DEF FanTypes, PoolMatches
    <3>2. fan' \in FanData
      BY <1>0, <2>2, <3>1, KeyedType DEF Succeeded, In
    <3> QED
      BY <1>0, <2>0, <2>2, <3>2 DEF FanShape, FanTypes, PoolMatches
  <2> QED
    BY <1>12, <2>1, <2>2 DEF FanIn
<1>13. CASE ParentCancelled
  BY <1>0, <1>13, GlitchType DEF ParentCancelled, FanShape, FanTypes, PoolMatches, BranchStates
<1>14. CASE NodeSettles
  BY <1>0, <1>14, FanDataType DEF NodeSettles, FanShape, FanTypes, PoolMatches
<1>15. CASE SiblingFlush
  BY <1>0, <1>15, GlitchType DEF SiblingFlush, FanShape, FanTypes, PoolMatches
<1>16. CASE FanCrash
  BY <1>0, <1>16, GlitchType, FreshType, FanOutAssumption
     DEF FanCrash, FanShape, FanTypes, PoolMatches, BranchStates
<1>17. CASE UNCHANGED fanVars
  BY <1>0, <1>17 DEF fanVars, FanShape, FanTypes, PoolMatches
<1> QED
  BY <1>1, <1>2, <1>3, <1>4, <1>5, <1>6, <1>7, <1>8, <1>9, <1>10, <1>11, <1>12, <1>13, <1>14,
     <1>15, <1>16, <1>17 DEF FanNext, FanStep

LEMMA FanStopType == FanSpec => [](stop \in BOOLEAN)
<1>1. FanInit => stop \in BOOLEAN
  BY DEF FanInit
<1>2. stop \in BOOLEAN /\ [FanNext]_fanVars => (stop \in BOOLEAN)'
  <2> SUFFICES ASSUME stop \in BOOLEAN, [FanNext]_fanVars PROVE stop' \in BOOLEAN
    OBVIOUS
  <2>1. ASSUME NEW i, NEW verdict, Settles(i, verdict) PROVE stop' \in BOOLEAN
    BY <2>1, Zenon DEF Settles
  <2>2. CASE CheckWidth
    BY <2>2, Zenon DEF CheckWidth
  <2>3. ASSUME NEW i \in Index, NEW sets \in BOOLEAN,
               BranchSettledBefore(i) \/ BranchRuns(i, sets) \/ BranchFails(i, sets) \/ BranchNotDriven(i)
        PROVE  stop' \in BOOLEAN
    BY <2>1, <2>3, Zenon DEF BranchSettledBefore, BranchRuns, BranchFails, BranchNotDriven
  <2>4. CASE FanDrive \/ FanCrash \/ ParentCancelled
    BY <2>4, Zenon DEF FanDrive, FanCrash, ParentCancelled
  <2>5. CASE UNCHANGED stop
    BY <2>5, Zenon
  <2>6. CASE ResolveExpansion \/ FlushExpansion \/ Feed \/ WorkerTakes \/ FanIn \/ NodeSettles
             \/ ExpanderFails \/ FlushFails \/ SiblingFlush \/ UNCHANGED fanVars
    BY <2>5, <2>6 DEF ResolveExpansion, FlushExpansion, Feed, WorkerTakes, FanIn, NodeSettles,
       ExpanderFails, FlushFails, SiblingFlush, fanVars
  <2> QED
    BY <2>2, <2>3, <2>4, <2>6 DEF FanNext, FanStep
<1> QED
  BY <1>1, <1>2, PTL DEF FanSpec

LEMMA FanShapeHolds == FanSpec => []FanShape
  BY FanShapeInit, FanShapeNext, PTL DEF FanSpec

(* FanTypeOK holds in every reachable state of the fan-out node, whatever    *)
(* its retries.                                                              *)
THEOREM FanTypeCorrect == FanSpec => []FanTypeOK
<1>1. FanShape /\ stop \in BOOLEAN => FanTypeOK
  <2> SUFFICES ASSUME FanShape, stop \in BOOLEAN PROVE FanTypeOK
    OBVIOUS
  <2>1. /\ mode \in Modes
        /\ \A d \in {fan, fanDisk} : /\ d.items \in Expansions \cup {NoItems}
                                     /\ d.node \in {"pending", "completed", "failed"}
        /\ kid \in [Index -> Kids]
        /\ branch \in [Index -> BranchStates]
        /\ fpc \in {"rest", "expand", "flush", "check", "pool", "complete", "fail"}
        /\ attempt \in 0..NodeRetries /\ glitches \in 0..MaxGlitches
    BY DEF FanShape, FanTypes, FanData
  <2> QED
    BY <2>1, Zenon DEF FanTypeOK, Kids
<1> QED
  BY <1>1, FanShapeHolds, FanStopType, PTL

---------------------------------------------------------------------------
(* The expansion in the store.  From here on the node has no retries: a      *)
(* second attempt after a failed flush takes the list it finds in memory for *)
(* the stored one.                                                           *)

(* A drive runs on an unsettled node and works on the stored expansion, if   *)
(* there is one; past the flush there is.                                    *)
FanJournal ==
    /\ fpc # "rest" => fan.node = "pending" /\ fanDisk.node = "pending"
    /\ fpc # "rest" /\ fanDisk.items # NoItems => fan.items = fanDisk.items
    /\ fpc = "expand" => fanDisk.items = fan.items
    /\ fpc \in {"check", "pool", "complete"} => fan.items # NoItems /\ fanDisk.items = fan.items

FanJournalInv == FanJournal /\ ExpansionBeforeBranches

LEMMA OneAttempt ==
  ASSUME FanTypes, AttemptFails, NodeRetries = 0
  PROVE  fpc' = "fail"
  BY DEF FanTypes, AttemptFails

(* The store of the expansion is the only thing ExpansionBeforeBranches      *)
(* reads besides the child runs.                                             *)
LEMMA BranchesKept ==
  ASSUME ExpansionBeforeBranches, UNCHANGED kid,
         fanDisk.items # NoItems => fanDisk'.items = fanDisk.items
  PROVE  ExpansionBeforeBranches'
  BY DEF ExpansionBeforeBranches

(* What FanIn keys. *)
LEMMA KeyedByFanIn ==
  ASSUME FanTypes, Len(fan.items) \in Nat, NEW d,
         d = Keyed(Len(fan.items), Succeeded, In("err") \cup In("cancelled"))
  PROVE  /\ d \in FanData /\ d.items = fan.items /\ d.node = fan.node
         /\ mode.keyed =>
               /\ d.count = Len(fan.items)
               /\ mode.partial => d.failed = In("err") \cup In("cancelled")
               /\ \A i \in Succeeded : d.out[i] = kid[i].res
<1>1. PICK n \in Nat : n = Len(fan.items)
  OBVIOUS
<1>2. PICK good \in SUBSET Index : good = Succeeded
  BY DEF Succeeded, In
<1>3. PICK bad \in SUBSET Index : bad = In("err") \cup In("cancelled")
  BY DEF In
<1>4. d = Keyed(n, good, bad)
  BY <1>1, <1>2, <1>3, Zenon
<1>5. /\ Keyed(n, good, bad) \in FanData
      /\ Keyed(n, good, bad).items = fan.items /\ Keyed(n, good, bad).node = fan.node
      /\ mode.keyed =>
            /\ Keyed(n, good, bad).count = n
            /\ mode.partial => Keyed(n, good, bad).failed = bad
            /\ \A i \in good : Keyed(n, good, bad).out[i] = kid[i].res
  BY KeyedType
<1> QED
  BY <1>1, <1>2, <1>3, <1>4, <1>5

LEMMA FanJournalNext ==
  ASSUME NodeRetries = 0, FanShape, FanJournalInv, [FanNext]_fanVars
  PROVE  FanJournalInv'
<1>0. FanTypes /\ PoolMatches /\ FanJournal /\ ExpansionBeforeBranches
  BY DEF FanShape, FanJournalInv
<1>a. \A x : [fan EXCEPT !.items = x].items = x /\ [fan EXCEPT !.items = x].node = fan.node
  BY <1>0 DEF FanTypes, FanData
<1>b. \A x : [fan EXCEPT !.node = x].items = fan.items
  BY <1>0 DEF FanTypes, FanData
<1>1. CASE FanDrive
  BY <1>0, <1>1, BranchesKept DEF FanDrive, FanJournalInv, FanJournal
<1>2. CASE ResolveExpansion
  <2>1. UNCHANGED <<fanDisk, kid>> /\ fan'.node = fan.node /\ fpc' \in {"check", "flush"}
        /\ (fpc' = "check" => UNCHANGED fan /\ fan.items # NoItems)
        /\ (fpc' = "flush" => fan.items = NoItems) /\ fpc = "expand"
    BY <1>2, <1>a DEF ResolveExpansion
  <2> QED
    BY <1>0, <2>1, BranchesKept DEF FanJournalInv, FanJournal
<1>3. CASE ExpanderFails \/ FlushFails
  BY <1>0, <1>3, OneAttempt, BranchesKept DEF ExpanderFails, FlushFails, FanJournalInv, FanJournal
<1>4. CASE FlushExpansion
  BY <1>0, <1>4, BranchesKept DEF FlushExpansion, FanJournalInv, FanJournal, PoolMatches
<1>5. CASE CheckWidth
  <2>1. /\ UNCHANGED <<fanDisk, kid>> /\ fpc = "check" /\ fpc' \in {"fail", "complete", "pool"}
        /\ fan'.items = fan.items /\ fan'.node = fan.node
    <3>1. Keyed(0, {}, {}).items = fan.items /\ Keyed(0, {}, {}).node = fan.node
      BY <1>0, KeyedType
    <3>2. AttemptFails => fpc' = "fail"
      BY <1>0, OneAttempt
    <3> QED
      BY <1>5, <3>1, <3>2 DEF CheckWidth
  <2> QED
    BY <1>0, <2>1, BranchesKept DEF FanJournalInv, FanJournal
<1>6. CASE Quiet /\ UNCHANGED kid
  BY <1>0, <1>6, BranchesKept DEF Quiet, FanJournalInv, FanJournal
<1>7. CASE Feed \/ WorkerTakes
  BY <1>6, <1>7 DEF Feed, WorkerTakes
<1>8. ASSUME NEW i \in Index, BranchSettledBefore(i) \/ BranchNotDriven(i) PROVE FanJournalInv'
  BY <1>6, <1>8 DEF BranchSettledBefore, BranchNotDriven
<1>9. ASSUME NEW i \in Index, NEW sets \in BOOLEAN, BranchRuns(i, sets) \/ BranchFails(i, sets)
      PROVE  FanJournalInv'
  <2>1. /\ fpc = "pool" /\ branch[i] = "run" /\ Quiet
        /\ \E st \in {"done", "failed"} : kid' = [kid EXCEPT ![i] = Child(i, st, sets)]
    BY <1>9 DEF BranchRuns, BranchFails
  <2>2. FanJournal' /\ fanDisk'.items # NoItems /\ fanDisk'.items = fanDisk.items
        /\ fanDisk.items = fan.items
    BY <1>0, <2>1 DEF Quiet, FanJournal
  <2>3. \A j \in Index : kid'[j].item = fan.items[j] \/ kid'[j] = kid[j]
    BY <2>1, ChildType
  <2>4. ExpansionBeforeBranches'
    BY <1>0, <2>2, <2>3 DEF ExpansionBeforeBranches
  <2> QED
    BY <2>2, <2>4 DEF FanJournalInv
<1>10. CASE FanIn
  <2>1. Len(fan.items) \in Nat
    BY <1>0, <1>10, FanDataType DEF FanIn, FanTypes, PoolMatches
  <2>2. /\ UNCHANGED <<fanDisk, kid>> /\ fpc = "pool" /\ fpc' \in {"fail", "complete"}
        /\ fan'.items = fan.items /\ fan'.node = fan.node
    <3> DEFINE keyed == Keyed(Len(fan.items), Succeeded, In("err") \cup In("cancelled"))
    <3>1. keyed.items = fan.items /\ keyed.node = fan.node
      BY <1>0, <2>1, KeyedByFanIn
    <3>2. AttemptFails => fpc' = "fail"
      BY <1>0, OneAttempt
    <3> QED
      BY <1>10, <3>1, <3>2 DEF FanIn
  <2> QED
    BY <1>0, <2>2, BranchesKept DEF FanJournalInv, FanJournal
<1>11. CASE ParentCancelled
  BY <1>0, <1>11, BranchesKept DEF ParentCancelled, FanJournalInv, FanJournal
<1>12. CASE NodeSettles
  <2>1. fpc # "rest" /\ fpc' = "rest" /\ fanDisk'.items = fan.items /\ UNCHANGED kid
    BY <1>12, <1>b DEF NodeSettles
  <2> QED
    BY <1>0, <2>1, BranchesKept DEF FanJournalInv, FanJournal
<1>13. CASE SiblingFlush
  BY <1>0, <1>13, BranchesKept DEF SiblingFlush, FanJournalInv, FanJournal
<1>14. CASE FanCrash
  BY <1>0, <1>14, BranchesKept DEF FanCrash, FanJournalInv, FanJournal
<1>15. CASE UNCHANGED fanVars
  BY <1>0, <1>15, BranchesKept DEF fanVars, FanJournalInv, FanJournal
<1> QED
  BY <1>1, <1>2, <1>3, <1>4, <1>5, <1>7, <1>8, <1>9, <1>10, <1>11, <1>12, <1>13, <1>14, <1>15
     DEF FanNext, FanStep

(* No child run exists before its expansion is in the store, so a resume     *)
(* finds the same items under the same child ids, across crashes,            *)
(* cancellations and failed checkpoints: for a node without retries.         *)
THEOREM ExpansionFirst == NodeRetries = 0 /\ FanSpec => []ExpansionBeforeBranches
<1> SUFFICES ASSUME NodeRetries = 0 PROVE FanSpec => []ExpansionBeforeBranches
  OBVIOUS
<1>1. FanInit => FanJournalInv
  BY DEF FanInit, FanJournalInv, FanJournal, ExpansionBeforeBranches, NoKid
<1>2. FanShape /\ FanJournalInv /\ [FanNext]_fanVars => FanJournalInv'
  BY FanJournalNext
<1>3. FanJournalInv => ExpansionBeforeBranches
  BY DEF FanJournalInv
<1> QED
  BY <1>1, <1>2, <1>3, FanShapeHolds, PTL DEF FanSpec

---------------------------------------------------------------------------
(* The results *)

(* A result is of the item the child was built for, a branch that is ok has *)
(* one, and the data of a node about to complete accounts for every item.    *)
FanResults ==
    /\ \A i \in Index : kid[i].res # NoItems => kid[i].st # "none" /\ kid[i].res = kid[i].item
    /\ fpc = "pool" /\ mode.keyed =>
          \A i \in Index : branch[i] = "ok" => kid[i].res # NoItems
    /\ fpc = "complete" /\ mode.keyed =>
          /\ fan.count = Len(fan.items) /\ fan.count \in 0..MaxWidth
          /\ \A i \in (1..fan.count) \ fan.failed : fan.out[i] = fan.items[i]

FanResultsInv == FanJournalInv /\ FanResults /\ FanOutPartition

(* Away from the store and the child runs nothing of a settled node changes; *)
(* a node under way is not settled.                                          *)
LEMMA PartitionUnderWay ==
  ASSUME fanDisk'.node # "completed"
  PROVE  FanOutPartition'
  BY DEF FanOutPartition

LEMMA FanResultsNext ==
  ASSUME NodeRetries = 0, FanShape, FanResultsInv, [FanNext]_fanVars
  PROVE  FanResultsInv'
<1>0. FanTypes /\ PoolMatches /\ FanJournal /\ ExpansionBeforeBranches /\ FanResults
  BY DEF FanShape, FanResultsInv, FanJournalInv
<1>j. FanJournalInv' /\ FanJournal'
  BY FanJournalNext DEF FanResultsInv, FanJournalInv
<1>p. fpc' # "rest" => FanOutPartition'
  BY <1>j, PartitionUnderWay DEF FanJournal
<1>q. UNCHANGED <<mode, fanDisk, kid>> => FanOutPartition'
  BY DEF FanResultsInv, FanOutPartition
<1> SUFFICES FanResults' /\ (fpc' = "rest" => FanOutPartition')
  BY <1>j, <1>p DEF FanResultsInv
<1>1. CASE fpc' \notin {"pool", "complete"} /\ UNCHANGED <<mode, fanDisk, kid>>
  BY <1>0, <1>q, <1>1 DEF FanResults
<1>2. CASE fpc' \notin {"pool", "complete", "rest"} /\ UNCHANGED kid
  BY <1>0, <1>2 DEF FanResults
<1>3. CASE FanDrive \/ FanCrash
  BY <1>1, <1>2, <1>3 DEF FanDrive, FanCrash
<1>4. CASE ResolveExpansion \/ FlushExpansion
  BY <1>2, <1>4 DEF ResolveExpansion, FlushExpansion
<1>5. CASE ExpanderFails \/ FlushFails \/ ParentCancelled
  BY <1>0, <1>2, <1>5, OneAttempt DEF ExpanderFails, FlushFails, ParentCancelled
<1>6. CASE CheckWidth
  <2> DEFINE n == Len(fan.items)
  <2>0. n \in Nat /\ MaxWidth \in Nat /\ fpc = "check" /\ UNCHANGED <<mode, kid>>
    BY <1>0, <1>6, FanDataType, FanOutAssumption DEF CheckWidth, FanTypes, PoolMatches
  <2>1. \/ AttemptFails
        \/ n = 0 /\ fan' = Keyed(0, {}, {}) /\ fpc' = "complete"
        \/ fpc' = "pool" /\ branch' = [i \in Index |-> IF i <= n THEN "queued" ELSE "out"]
    BY <1>6, <2>0 DEF CheckWidth
  <2>2. CASE AttemptFails
    BY <1>0, <1>2, <2>0, <2>2, OneAttempt
  <2>3. CASE n = 0 /\ fan' = Keyed(0, {}, {}) /\ fpc' = "complete"
    <3>1. fan'.items = fan.items /\ (mode.keyed => fan'.count = 0)
      <4>1. 0 \in Nat /\ {} \in SUBSET Index
        OBVIOUS
      <4> QED
        BY <1>0, <2>3, <4>1, KeyedType, Zenon
    <3> QED
      BY <1>0, <2>0, <2>3, <3>1 DEF FanResults
  <2>4. CASE fpc' = "pool" /\ branch' = [i \in Index |-> IF i <= n THEN "queued" ELSE "out"]
    BY <1>0, <2>0, <2>4 DEF FanResults
  <2> QED
    BY <2>1, <2>2, <2>3, <2>4
<1>7. CASE Feed
  <2>1. /\ fpc = "pool" /\ Quiet /\ UNCHANGED kid
        /\ \A i \in Index : branch'[i] = "ok" => branch[i] = "ok"
    BY <1>0, <1>7 DEF Feed, FanTypes
  <2> QED
    BY <1>0, <2>1 DEF Quiet, FanResults
<1>8. CASE WorkerTakes
  <2>1. /\ fpc = "pool" /\ Quiet /\ UNCHANGED kid
        /\ \A i \in Index : branch'[i] = "ok" => branch[i] = "ok"
    BY <1>0, <1>8 DEF WorkerTakes, FanTypes
  <2> QED
    BY <1>0, <2>1 DEF Quiet, FanResults
<1>9. ASSUME NEW i \in Index, BranchSettledBefore(i)
      PROVE  FanResults' /\ (fpc' = "rest" => FanOutPartition')
  <2>1. fpc = "pool" /\ Quiet /\ UNCHANGED kid /\ branch[i] = "run" /\ kid[i].st # "none"
    BY <1>9 DEF BranchSettledBefore
  <2>2. branch' = [branch EXCEPT ![i] = IF mode.keyed /\ kid[i].res = NoItems THEN "err" ELSE "ok"]
    BY <1>9 DEF BranchSettledBefore, Settles, ReadResult
  <2>3. \A j \in Index : mode.keyed /\ branch'[j] = "ok" => branch[j] = "ok" \/ kid[j].res # NoItems
    BY <1>0, <2>1, <2>2 DEF FanTypes
  <2> QED
    BY <1>0, <2>1, <2>3 DEF Quiet, FanResults
<1>10. ASSUME NEW i \in Index, NEW sets \in BOOLEAN, BranchRuns(i, sets)
      PROVE  FanResults' /\ (fpc' = "rest" => FanOutPartition')
  <2>1. /\ fpc = "pool" /\ branch[i] = "run" /\ Quiet
        /\ kid' = [kid EXCEPT ![i] = Child(i, "done", sets)]
        /\ branch' = [branch EXCEPT ![i] = IF mode.keyed /\ kid'[i].res = NoItems THEN "err" ELSE "ok"]
    BY <1>10 DEF BranchRuns, Settles, ReadResult
  <2>2. /\ kid'[i].st = "done" /\ kid'[i].item = fan.items[i] /\ kid'[i].res \in {fan.items[i], NoItems}
        /\ \A j \in Index \ {i} : kid'[j] = kid[j]
    BY <2>1, ChildType
  <2>3. \A j \in Index : IF j = i THEN mode.keyed /\ branch'[j] = "ok" => kid'[i].res # NoItems
                                  ELSE branch'[j] = branch[j]
    BY <1>0, <2>1 DEF FanTypes
  <2> QED
    BY <1>0, <2>1, <2>2, <2>3 DEF Quiet, FanResults
<1>11. ASSUME NEW i \in Index, NEW sets \in BOOLEAN, BranchFails(i, sets)
      PROVE  FanResults' /\ (fpc' = "rest" => FanOutPartition')
  <2>1. /\ fpc = "pool" /\ branch[i] = "run" /\ Quiet
        /\ \E v \in {"err", "cancelled"} : branch' = [branch EXCEPT ![i] = v]
        /\ kid' = [kid EXCEPT ![i] = Child(i, "failed", sets)]
    BY <1>11 DEF BranchFails, Settles
  <2>2. /\ kid'[i].st = "failed" /\ kid'[i].item = fan.items[i] /\ kid'[i].res \in {fan.items[i], NoItems}
        /\ \A j \in Index \ {i} : kid'[j] = kid[j]
    BY <2>1, ChildType
  <2>3. \A j \in Index : IF j = i THEN branch'[j] # "ok" ELSE branch'[j] = branch[j]
    BY <1>0, <2>1 DEF FanTypes
  <2> QED
    BY <1>0, <2>1, <2>2, <2>3 DEF Quiet, FanResults
<1>12. ASSUME NEW i \in Index, BranchNotDriven(i)
      PROVE  FanResults' /\ (fpc' = "rest" => FanOutPartition')
  <2>1. /\ fpc = "pool" /\ Quiet /\ UNCHANGED kid
        /\ \E v \in {"err", "cancelled"} : branch' = [branch EXCEPT ![i] = v]
    BY <1>12 DEF BranchNotDriven, Settles
  <2>2. \A j \in Index : branch'[j] = "ok" => branch[j] = "ok"
    BY <1>0, <2>1 DEF FanTypes
  <2> QED
    BY <1>0, <2>1, <2>2 DEF Quiet, FanResults
<1>13. CASE FanIn
  <2> DEFINE n == Len(fan.items)
             lost == In("err") \cup In("cancelled")
  <2>0. /\ n \in Nat /\ n <= MaxWidth /\ MaxWidth \in Nat /\ fpc = "pool"
        /\ UNCHANGED <<mode, fanDisk, kid>> /\ fan.items # NoItems /\ fanDisk.items = fan.items
        /\ \A i \in Index : branch[i] \in {"out", "ok", "err", "cancelled"}
    BY <1>0, <1>13, FanDataType, FanOutAssumption DEF FanIn, FanTypes, PoolMatches, FanJournal
  <2>1. CASE AttemptFails
    BY <1>0, <1>2, <2>0, <2>1, OneAttempt
  <2>2. CASE ~AttemptFails
    <3>1. /\ fpc' = "complete" /\ fan' = Keyed(n, Succeeded, lost)
          /\ mode.partial \/ lost = {}
      BY <1>13, <2>2 DEF FanIn
    <3>2. /\ fan'.items = fan.items
          /\ mode.keyed => /\ fan'.count = n
                           /\ mode.partial => fan'.failed = lost
                           /\ \A i \in Succeeded : fan'.out[i] = kid[i].res
      BY <1>0, <2>0, <3>1, KeyedByFanIn
    <3>3. ASSUME mode.keyed, NEW i \in (1..fan'.count) \ fan'.failed
          PROVE  fan'.out[i] = fan'.items[i]
      <4>1. i \in Index /\ i <= n
        BY <2>0, <3>2, <3>3 DEF Index
      <4>2. i \notin lost
        BY <3>1, <3>2, <3>3
      <4>3. branch[i] = "ok"
        BY <1>0, <2>0, <4>1, <4>2 DEF PoolMatches, In
      <4>4. kid[i].st # "none" /\ kid[i].res = kid[i].item
        BY <1>0, <2>0, <3>3, <4>1, <4>3 DEF FanResults
      <4>5. kid[i].item = fanDisk.items[i]
        BY <1>0, <4>1, <4>4 DEF ExpansionBeforeBranches
      <4>6. fan'.out[i] = kid[i].res
        BY <3>2, <3>3, <4>1, <4>3 DEF Succeeded, In
      <4> QED
        BY <2>0, <3>2, <4>4, <4>5, <4>6
    <3>4. mode'.keyed => fan'.count = Len(fan'.items) /\ fan'.count \in 0..MaxWidth
      BY <2>0, <3>2
    <3> QED
      BY <1>0, <2>0, <3>1, <3>3, <3>4 DEF FanResults
  <2> QED
    BY <2>1, <2>2
<1>14. CASE NodeSettles
  <2>1. /\ fpc \in {"complete", "fail"} /\ fpc' = "rest" /\ UNCHANGED <<mode, kid>>
        /\ fanDisk' = [fan EXCEPT !.node = IF fpc = "complete" THEN "completed" ELSE "failed"]
    BY <1>14 DEF NodeSettles
  <2>2. /\ fanDisk'.node = IF fpc = "complete" THEN "completed" ELSE "failed"
        /\ fanDisk'.items = fan.items /\ fanDisk'.count = fan.count
        /\ fanDisk'.failed = fan.failed /\ fanDisk'.out = fan.out
    BY <1>0, <2>1 DEF FanTypes, FanData
  <2> QED
    BY <1>0, <2>1, <2>2 DEF FanResults, FanOutPartition
<1>15. CASE SiblingFlush
  BY <1>0, <1>15 DEF SiblingFlush, FanResults
<1>16. CASE UNCHANGED fanVars
  BY <1>0, <1>16, <1>q DEF fanVars, FanResults
<1> QED
  BY <1>3, <1>4, <1>5, <1>6, <1>7, <1>8, <1>9, <1>10, <1>11, <1>12, <1>13, <1>14, <1>15, <1>16
     DEF FanNext, FanStep

(* A completed fan-out accounts for every item of its expansion, across      *)
(* crashes, cancellations and resumes: the branch is in the failed list or   *)
(* its key holds the result of the run built for that item.                  *)
THEOREM PartitionHolds == NodeRetries = 0 /\ FanSpec => []FanOutPartition
<1> SUFFICES ASSUME NodeRetries = 0 PROVE FanSpec => []FanOutPartition
  OBVIOUS
<1>1. FanInit => FanResultsInv
  BY DEF FanInit, FanResultsInv, FanJournalInv, FanJournal, FanResults, FanOutPartition,
     ExpansionBeforeBranches, NoKid, Fresh
<1>2. FanShape /\ FanResultsInv /\ [FanNext]_fanVars => FanResultsInv'
  BY FanResultsNext
<1>3. FanResultsInv => FanOutPartition
  BY DEF FanResultsInv
<1> QED
  BY <1>1, <1>2, <1>3, FanShapeHolds, PTL DEF FanSpec

---------------------------------------------------------------------------
(* Waits *)

(* WaitTypeOK but for `flag`, and where the drive's values come from. *)
WaitTypes ==
    /\ waitKind \in WaitKinds /\ duration \in Durations
    /\ now \in 0..MaxNow
    /\ box \in SUBSET DOMAIN Letters /\ sent \in SUBSET DOMAIN Letters
    /\ peeked \in SUBSET DOMAIN Letters /\ found \in SUBSET DOMAIN Letters
    /\ box \subseteq sent /\ peeked \subseteq sent
    /\ kept \in WaitRun /\ live \in WaitRun
    /\ wpc \in {"off", "peek", "decide", "save", "ack"}
    /\ pinned \in 0..MaxNow \cup {NoPin} /\ due \in Int /\ hiccups \in 0..MaxHiccups
    /\ pinned # NoPin => pinned <= now

(* What a drive knows: it decides on the stored run, which is not over, and  *)
(* has seen every signal that was there when it began.                       *)
WaitDrive ==
    /\ wpc \in {"peek", "decide", "save"} => ~Over(kept)
    /\ wpc \in {"peek", "decide"} => live = kept
    /\ wpc = "ack" => live = kept /\ live.st = "completed"
    /\ wpc = "peek" => found \subseteq box
    /\ wpc = "decide" /\ waitKind \in {"signal", "timeout", "approval"} => found \subseteq peeked

(* An armed deadline is the true one, or the last instant, which the clock   *)
(* does not reach.                                                           *)
Armed(run) == run.fireAt # Unarmed => run.fireAt = Span - 1 \/ run.fireAt >= due

(* A completed run, stored or about to be, has its cause. *)
Caused(run) ==
    run.st = "completed" =>
        /\ run.out = TimedOut => now >= due
        /\ waitKind = "approval" => Letters[run.out] = "approve"
        /\ waitKind \in {"signal", "approval"} => run.out \in sent

WaitCause ==
    /\ Armed(kept) /\ Armed(live) /\ Caused(kept) /\ Caused(live)
    /\ wpc \in {"save", "ack"} /\ live.st = "completed" =>
          /\ live.out = TimedOut /\ waitKind = "timeout" => Answers(found) = {}
          /\ waitKind = "approval" => live.out = First(Answers(peeked))

WaitInv == WaitTypes /\ WaitDrive /\ WaitCause

---------------------------------------------------------------------------
(* The operators *)

LEMMA WrapInside ==
  ASSUME NEW n \in Nat, n > 0, NEW v \in Int, -n <= v
  PROVE  /\ v < n => ((v + n) % (2 * n)) - n = v
         /\ n <= v /\ v < 3 * n => ((v + n) % (2 * n)) - n = v - 2 * n
<1>1. \A m \in Nat, y \in Int : m > 0 /\ 0 <= y /\ y < m => y % m = y
  OBVIOUS
<1>2. \A m \in Nat, y \in Int : m > 0 /\ m <= y /\ y < 2 * m => y % m = y - m
  OBVIOUS
<1> QED
  BY <1>1, <1>2

(* The clamped deadline is the sum where int64 holds it, and the last        *)
(* instant where it does not.                                                *)
LEMMA ArmAtExact ==
  ASSUME NEW t \in 0..MaxNow, duration \in Durations
  PROVE  ArmAt(t) = IF t + duration < Span THEN t + duration ELSE Span - 1
<1>1. /\ duration \in Int /\ -Span <= duration /\ duration < Span /\ t \in Int /\ 0 <= t
      /\ t <= Span - 2 /\ Span \in Nat /\ Span > 0
  BY WaitsAssumption
<1>2. CASE t + duration < Span
  <2>1. PICK v \in Int : v = t + duration /\ -Span <= v /\ v < Span
    BY <1>1, <1>2
  <2>2. ((v + Span) % (2 * Span)) - Span = v
    BY <1>1, <2>1, WrapInside
  <2> QED
    BY <1>1, <1>2, <2>1, <2>2 DEF ArmAt, Wrap
<1>3. CASE t + duration >= Span
  <2>1. PICK v \in Int : v = t + duration /\ -Span <= v /\ Span <= v /\ v < 3 * Span
    BY <1>1, <1>3
  <2>2. ((v + Span) % (2 * Span)) - Span = v - 2 * Span
    BY <1>1, <2>1, WrapInside
  <2> QED
    BY <1>1, <1>3, <2>1, <2>2 DEF ArmAt, Wrap
<1> QED
  BY <1>1, <1>2, <1>3

LEMMA ClockType == ASSUME WaitTypes PROVE Clock \in 0..MaxNow /\ Clock <= now
  BY WaitsAssumption DEF WaitTypes, Clock

(* A set of ids that is not empty has a first one. *)
LEMMA FirstType ==
  ASSUME NEW ids \in SUBSET DOMAIN Letters, ids # {}
  PROVE  First(ids) \in ids
<1>1. ids \in SUBSET Nat
  BY WaitsAssumption
<1>2. \E k \in ids : \A j \in ids : k <= j
  BY <1>1, LeastExists
<1> QED
  BY <1>2, Zenon DEF First

LEMMA RunEdits ==
  ASSUME NEW run \in WaitRun, NEW s, NEW f, NEW o
  PROVE  /\ [run EXCEPT !.st = s] = [st |-> s, fireAt |-> run.fireAt, out |-> run.out]
         /\ [run EXCEPT !.st = s, !.fireAt = f] = [st |-> s, fireAt |-> f, out |-> run.out]
         /\ [run EXCEPT !.st = s, !.fireAt = f, !.out = o] = [st |-> s, fireAt |-> f, out |-> o]
<1> DEFINE one   == [run EXCEPT !.st = s]
           two   == [one EXCEPT !.fireAt = f]
           three == [two EXCEPT !.out = o]
<1>0. run = [st |-> run.st, fireAt |-> run.fireAt, out |-> run.out]
  BY DEF WaitRun
<1>1. one = [st |-> s, fireAt |-> run.fireAt, out |-> run.out]
  BY <1>0
<1>2. two = [st |-> s, fireAt |-> f, out |-> run.out]
  <2> HIDE DEF one
  <2> QED
    BY <1>1
<1>3. three = [st |-> s, fireAt |-> f, out |-> o]
  <2> HIDE DEF two
  <2> QED
    BY <1>2
<1>4. /\ two = [run EXCEPT !.st = s, !.fireAt = f]
      /\ three = [run EXCEPT !.st = s, !.fireAt = f, !.out = o]
  OBVIOUS
<1> QED
  BY <1>1, <1>2, <1>3, <1>4

(* What the node's Execute makes of the run: it arms, completes for a cause, *)
(* or parks or fails and leaves the deadline alone.                          *)
Arms == /\ live.fireAt = Unarmed
        /\ live' = [st |-> "waiting", fireAt |-> ArmAt(Clock), out |-> live.out]
        /\ due' = Clock + duration

Fulfils(o) ==
    \/ /\ o = TimedOut /\ live.fireAt # Unarmed /\ Clock >= live.fireAt
       /\ waitKind = "timeout" => Answers(peeked) = {}
       /\ waitKind \in {"timer", "timeout"}
    \/ o = Nothing /\ waitKind = "condition"
    \/ /\ Answers(peeked) # {} /\ o = First(Answers(peeked))
       /\ waitKind = "approval" => Letters[o] = "approve"
       /\ waitKind \in {"signal", "timeout", "approval"}

Ends(o) == /\ live' = [st |-> "completed", fireAt |-> Unarmed, out |-> o]
           /\ Fulfils(o) /\ UNCHANGED due

StaysOpen(s) == /\ live' = [st |-> s, fireAt |-> live.fireAt, out |-> live.out]
                /\ s \in {"waiting", "failed"} /\ UNCHANGED due

LEMMA Decision ==
  ASSUME WaitTypes, NodeDecides
  PROVE  Arms \/ (\E o : Ends(o)) \/ (\E s : StaysOpen(s))
<1>0. live \in WaitRun /\ waitKind \in {"timer", "signal", "timeout", "approval", "condition"}
  BY WaitsAssumption DEF WaitTypes
<1>1. \A o : Completes(o) /\ Fulfils(o) => Ends(o)
  BY <1>0, RunEdits DEF Completes, Ends
<1>2. Parks => StaysOpen("waiting")
  BY <1>0, RunEdits DEF Parks, StaysOpen
<1>3. ASSUME ParkUntil, waitKind \in {"timer", "timeout"},
             waitKind = "timeout" => Answers(peeked) = {}
      PROVE  Arms \/ (\E o : Ends(o)) \/ (\E s : StaysOpen(s))
  <2>1. CASE /\ live.fireAt = Unarmed
             /\ live' = [live EXCEPT !.st = "waiting", !.fireAt = ArmAt(Clock)]
             /\ due' = Clock + duration
    BY <1>0, <2>1, RunEdits DEF Arms
  <2>2. CASE live.fireAt # Unarmed /\ Clock >= live.fireAt /\ Completes(TimedOut)
    BY <1>1, <1>3, <2>2 DEF Fulfils
  <2>3. CASE live.fireAt # Unarmed /\ Clock < live.fireAt /\ Parks
    BY <1>2, <2>3
  <2> QED
    BY <1>3, <2>1, <2>2, <2>3 DEF ParkUntil
<1>4. CASE waitKind = "timer"
  <2>1. ParkUntil
    BY <1>4 DEF NodeDecides
  <2> QED
    BY <1>3, <1>4, <2>1
<1>5. CASE waitKind = "condition"
  <2>1. Completes(Nothing) \/ Parks
    BY <1>5 DEF NodeDecides
  <2> QED
    BY <1>1, <1>2, <1>5, <2>1 DEF Fulfils
<1>6. CASE waitKind = "approval"
  <2>1. ApprovalDecides
    BY <1>6 DEF NodeDecides
  <2>2. CASE Answers(peeked) = {} /\ Parks
    BY <1>2, <2>2
  <2>3. CASE Answers(peeked) # {}
    <3>1. CASE Letters[First(Answers(peeked))] = "approve"
      BY <1>1, <1>6, <2>1, <2>3, <3>1 DEF ApprovalDecides, Fulfils
    <3>2. CASE Letters[First(Answers(peeked))] # "approve"
      BY <1>0, <2>1, <2>3, <3>2, RunEdits DEF ApprovalDecides, StaysOpen
    <3> QED
      BY <3>1, <3>2
  <2> QED
    BY <2>1, <2>2, <2>3 DEF ApprovalDecides
<1>7. CASE waitKind \in {"signal", "timeout"} /\ Answers(peeked) # {}
  <2>1. Completes(First(Answers(peeked)))
    BY <1>7 DEF NodeDecides
  <2> QED
    BY <1>1, <1>7, <2>1 DEF Fulfils
<1>8. CASE waitKind = "signal" /\ Answers(peeked) = {}
  <2>1. Parks
    BY <1>8 DEF NodeDecides
  <2> QED
    BY <1>2, <2>1
<1>9. CASE waitKind = "timeout" /\ Answers(peeked) = {}
  <2>1. ParkUntil
    BY <1>9 DEF NodeDecides
  <2> QED
    BY <1>3, <1>9, <2>1
<1> QED
  BY <1>0, <1>4, <1>5, <1>6, <1>7, <1>8, <1>9

---------------------------------------------------------------------------
(* The invariant *)

LEMMA WaitConstants ==
  /\ Span \in Nat /\ Span > 0 /\ MaxNow \in Nat /\ MaxNow < Span - 1 /\ MaxHiccups \in Nat
  /\ Unarmed \notin Instants /\ NoPin \notin 0..MaxNow /\ NoPin \in Int
  /\ TimedOut \notin DOMAIN Letters /\ TimedOut # Nothing /\ Instants \subseteq Int
  BY WaitsAssumption DEF Instants, Unarmed, NoPin, TimedOut, Nothing

LEMMA NewRunType ==
  NewRun \in WaitRun /\ NewRun.st = "pending" /\ NewRun.fireAt = Unarmed
  BY DEF NewRun, WaitRun

LEMMA WaitInitHolds == WaitInit => WaitInv
  BY NewRunType, WaitConstants
     DEF WaitInit, WaitInv, WaitTypes, WaitDrive, WaitCause, Armed, Caused, Over

(* A drive that returns leaves nothing to say about it. *)
LEMMA WaitReturns ==
  ASSUME WaitInv, Returns, kept' \in WaitRun, Armed(kept)', Caused(kept)',
         UNCHANGED <<waitKind, duration, now, sent, due>>,
         box' \subseteq box, hiccups' \in 0..MaxHiccups
  PROVE  WaitInv'
  BY NewRunType, WaitConstants
     DEF Returns, WaitInv, WaitTypes, WaitDrive, WaitCause, Armed, Caused

LEMMA HiccupType == ASSUME WaitTypes, Hiccup PROVE hiccups' \in 0..MaxHiccups
  BY WaitConstants DEF WaitTypes, Hiccup

LEMMA WaitDecides ==
  ASSUME WaitInv, NodeDecides
  PROVE  WaitInv'
<1>0. /\ wpc = "decide" /\ wpc' = "save" /\ live = kept /\ ~Over(kept)
      /\ UNCHANGED <<waitKind, duration, now, box, sent, flag, kept, pinned, peeked, found, hiccups>>
      /\ WaitTypes /\ WaitDrive /\ WaitCause
  BY DEF NodeDecides, WaitInv, WaitDrive
<1>1. Clock \in 0..MaxNow /\ Clock <= now /\ now \in Nat /\ duration \in Int /\ due \in Int
  BY <1>0, ClockType, WaitConstants, WaitsAssumption DEF WaitTypes
<1>2. CASE Arms
  <2>1. ArmAt(Clock) = IF Clock + duration < Span THEN Clock + duration ELSE Span - 1
    BY <1>0, <1>1, ArmAtExact DEF WaitTypes
  <2>2. ArmAt(Clock) \in Instants /\ due' \in Int /\ (ArmAt(Clock) = Span - 1 \/ ArmAt(Clock) >= due')
    BY <1>0, <1>1, <1>2, <2>1, WaitConstants, WaitsAssumption DEF WaitTypes, Arms, Instants
  <2>3. live' \in WaitRun /\ live'.st = "waiting" /\ live'.fireAt = ArmAt(Clock) /\ kept.fireAt = Unarmed
    BY <1>0, <1>2, <2>2 DEF Arms, WaitRun, WaitTypes
  <2> QED
    BY <1>0, <2>2, <2>3 DEF WaitInv, WaitTypes, WaitDrive, WaitCause, Armed, Caused, Over
<1>3. ASSUME NEW o, Ends(o) PROVE WaitInv'
  <2>1. Answers(peeked) # {} => First(Answers(peeked)) \in peeked /\ First(Answers(peeked)) \in DOMAIN Letters
    <3>1. Answers(peeked) \in SUBSET DOMAIN Letters /\ Answers(peeked) \subseteq peeked
      BY <1>0 DEF WaitTypes, Answers
    <3> QED
      BY <3>1, FirstType
  <2>2. o \in DOMAIN Letters \cup {Nothing, TimedOut}
    BY <1>3, <2>1 DEF Ends, Fulfils
  <2>3. live' \in WaitRun /\ live'.st = "completed" /\ live'.fireAt = Unarmed /\ live'.out = o /\ due' = due
    BY <1>3, <2>2 DEF Ends, WaitRun
  <2>4. o = TimedOut => now >= due
    <3>1. o = TimedOut => live.fireAt # Unarmed /\ Clock >= live.fireAt
      BY <1>3, <2>1, WaitConstants DEF Ends, Fulfils
    <3>2. live.fireAt # Unarmed => live.fireAt \in Int /\ (live.fireAt = Span - 1 \/ live.fireAt >= due)
      BY <1>0, WaitConstants DEF WaitTypes, WaitRun, WaitCause, Armed
    <3> QED
      BY <1>1, <3>1, <3>2, WaitConstants
  <2>5. /\ waitKind = "approval" => Letters[o] = "approve" /\ o = First(Answers(peeked)) /\ o \in sent
        /\ waitKind = "signal" => o \in sent
    BY <1>0, <1>3, <2>1 DEF Ends, Fulfils, WaitTypes
  <2>6. o = TimedOut /\ waitKind = "timeout" => Answers(found) = {}
    <3>1. o = TimedOut /\ waitKind = "timeout" => Answers(peeked) = {}
      BY <1>3, <2>1, WaitConstants DEF Ends, Fulfils
    <3>2. waitKind = "timeout" => found \subseteq peeked
      BY <1>0 DEF WaitDrive
    <3> QED
      BY <3>1, <3>2 DEF Answers
  <2>7. WaitTypes' /\ WaitDrive'
    BY <1>0, <2>3 DEF WaitTypes, WaitDrive, Over
  <2>8. Armed(kept)' /\ Armed(live)' /\ Caused(kept)'
    BY <1>0, <2>3 DEF WaitCause, Armed, Caused
  <2>9. Caused(live)'
    BY <1>0, <2>3, <2>4, <2>5 DEF Caused
  <2>10. WaitCause'
    BY <1>0, <2>3, <2>5, <2>6, <2>8, <2>9 DEF WaitCause, Answers, First
  <2> QED
    BY <2>7, <2>10 DEF WaitInv
<1>4. ASSUME NEW s, StaysOpen(s) PROVE WaitInv'
  <2>1. /\ live' \in WaitRun /\ live'.st # "completed" /\ live'.fireAt = live.fireAt
        /\ due' = due
    BY <1>0, <1>4 DEF StaysOpen, WaitRun, WaitTypes
  <2> QED
    BY <1>0, <2>1 DEF WaitInv, WaitTypes, WaitDrive, WaitCause, Armed, Caused, Over
<1> QED
  BY <1>0, <1>2, <1>3, <1>4, Decision

LEMMA WaitNextHolds == WaitInv /\ [WaitNext]_waitVars => WaitInv'
<1> SUFFICES ASSUME WaitInv, [WaitNext]_waitVars PROVE WaitInv'
  OBVIOUS
<1>0. WaitTypes /\ WaitDrive /\ WaitCause
  BY DEF WaitInv
<1>1. ASSUME NEW id \in DOMAIN Letters, SendSignal(id) PROVE WaitInv'
  <2>1. WaitTypes'
    BY <1>0, <1>1 DEF SendSignal, WaitTypes
  <2>2. WaitDrive'
    BY <1>0, <1>1 DEF SendSignal, WaitDrive, Over
  <2>3. WaitCause'
    BY <1>0, <1>1 DEF SendSignal, WaitCause, Armed, Caused, Answers, First
  <2> QED
    BY <2>1, <2>2, <2>3 DEF WaitInv
<1>2. ASSUME NEW pin \in 0..MaxNow \cup {NoPin}, pin # NoPin => pin <= now, Enter(pin) PROVE WaitInv'
  <2>1. WaitTypes'
    BY <1>0, <1>2 DEF Enter, WaitTypes
  <2>2. WaitDrive' /\ WaitCause'
    BY <1>0, <1>2 DEF Enter, WaitDrive, Over, WaitCause, Armed, Caused
  <2> QED
    BY <2>1, <2>2 DEF WaitInv
<1>3. CASE DriveRun \/ TickRun
  <2>1. now \in 0..MaxNow /\ now <= now
    BY <1>0, WaitConstants DEF WaitTypes
  <2> QED
    BY <1>2, <1>3, <2>1 DEF DriveRun, TickRun
<1>4. CASE ClockTicks
  <2>1. WaitTypes' /\ now' >= now /\ now \in Int /\ now' \in Int /\ due \in Int
    BY <1>0, <1>4, WaitConstants DEF ClockTicks, WaitTypes
  <2>2. WaitDrive'
    BY <1>0, <1>4 DEF ClockTicks, WaitDrive, Over
  <2>3. WaitCause'
    BY <1>0, <1>4, <2>1 DEF ClockTicks, WaitCause, Armed, Caused, Answers, First
  <2> QED
    BY <2>1, <2>2, <2>3 DEF WaitInv
<1>5. CASE PeekMailbox
  <2>1. WaitTypes'
    BY <1>0, <1>5 DEF PeekMailbox, WaitTypes
  <2>2. WaitDrive' /\ WaitCause'
    BY <1>0, <1>5 DEF PeekMailbox, WaitDrive, Over, WaitCause, Armed, Caused
  <2> QED
    BY <2>1, <2>2 DEF WaitInv
<1>6. CASE PeekFails
  <2>1. hiccups' \in 0..MaxHiccups /\ live' \in WaitRun /\ live'.st = "failed" /\ live'.fireAt = live.fireAt
    BY <1>0, <1>6, HiccupType DEF PeekFails, WaitTypes, WaitRun
  <2> QED
    BY <1>0, <1>6, <2>1 DEF PeekFails, WaitInv, WaitTypes, WaitDrive, Over, WaitCause, Armed, Caused
<1>7. CASE NodeDecides
  BY <1>7, WaitDecides
<1>8. CASE PersistRun
  <2>1. /\ wpc = "save" /\ kept' = live
        /\ UNCHANGED <<waitKind, duration, now, box, sent, flag, due, hiccups>>
    BY <1>8 DEF PersistRun
  <2>2. CASE live.st = "completed" /\ wpc' = "ack" /\ UNCHANGED <<live, pinned, peeked, found>>
    BY <1>0, <2>1, <2>2 DEF WaitInv, WaitTypes, WaitDrive, Over, WaitCause, Armed, Caused, Answers, First
  <2>3. CASE Returns
    <3>1. kept' \in WaitRun /\ Armed(kept)' /\ Caused(kept)' /\ box' \subseteq box /\ hiccups' \in 0..MaxHiccups
      BY <1>0, <2>1 DEF WaitTypes, WaitCause, Armed, Caused
    <3> QED
      BY <2>1, <2>3, <3>1, WaitReturns
  <2> QED
    BY <1>8, <2>2, <2>3 DEF PersistRun
<1>9. CASE RunCancelled
  <2>1. /\ kept' \in WaitRun /\ Armed(kept)' /\ Caused(kept)' /\ box' \subseteq box
        /\ hiccups' \in 0..MaxHiccups
    BY <1>0, <1>9, HiccupType DEF RunCancelled, WaitTypes, WaitRun, WaitCause, Armed, Caused
  <2> QED
    BY <1>9, <2>1, WaitReturns DEF RunCancelled
<1>10. CASE AckConsumed \/ WaitCrash
  <2>1. /\ kept' \in WaitRun /\ Armed(kept)' /\ Caused(kept)' /\ box' \subseteq box
        /\ hiccups' \in 0..MaxHiccups
    BY <1>0, <1>10, HiccupType DEF AckConsumed, WaitCrash, WaitTypes, WaitCause, Armed, Caused
  <2> QED
    BY <1>10, <2>1, WaitReturns DEF AckConsumed, WaitCrash
<1>11. CASE ConditionFlips \/ UNCHANGED waitVars
  BY <1>0, <1>11
     DEF ConditionFlips, waitVars, WaitInv, WaitTypes, WaitDrive, Over, WaitCause, Armed, Caused, Answers, First
<1> QED
  BY <1>1, <1>3, <1>4, <1>5, <1>6, <1>7, <1>8, <1>9, <1>10, <1>11 DEF WaitNext, DriveGoesOn

LEMMA WaitInvHolds == WaitSpec => []WaitInv
  BY WaitInitHolds, WaitNextHolds, PTL DEF WaitSpec

LEMMA WaitFlagType == WaitSpec => [](flag \in BOOLEAN)
<1>1. WaitInit => flag \in BOOLEAN
  BY DEF WaitInit
<1>2. flag \in BOOLEAN /\ [WaitNext]_waitVars => (flag \in BOOLEAN)'
  <2> SUFFICES ASSUME flag \in BOOLEAN, [WaitNext]_waitVars PROVE flag' \in BOOLEAN
    OBVIOUS
  <2>1. CASE ConditionFlips
    BY <2>1, Zenon DEF ConditionFlips
  <2>2. CASE UNCHANGED flag
    BY <2>2, Zenon
  <2>3. ~ConditionFlips => UNCHANGED flag
    BY DEF WaitNext, waitVars, SendSignal, DriveRun, TickRun, Enter, ClockTicks, DriveGoesOn,
       PeekMailbox, NodeDecides, PersistRun, AckConsumed, PeekFails, RunCancelled, WaitCrash
  <2> QED
    BY <2>1, <2>2, <2>3
<1> QED
  BY <1>1, <1>2, PTL DEF WaitSpec

(* WaitTypeOK holds in every reachable state of a declared wait. *)
THEOREM WaitTypeCorrect == WaitSpec => []WaitTypeOK
<1>1. WaitInv /\ flag \in BOOLEAN => WaitTypeOK
  <2> SUFFICES ASSUME WaitInv, flag \in BOOLEAN PROVE WaitTypeOK
    OBVIOUS
  <2>1. /\ waitKind \in WaitKinds /\ duration \in Durations
        /\ now \in 0..MaxNow
        /\ {box, sent, peeked, found} \subseteq SUBSET DOMAIN Letters
        /\ kept \in WaitRun /\ live \in WaitRun
        /\ wpc \in {"off", "peek", "decide", "save", "ack"}
        /\ pinned \in 0..MaxNow \cup {NoPin} /\ due \in Int /\ hiccups \in 0..MaxHiccups
    BY DEF WaitInv, WaitTypes
  <2> QED
    BY <2>1, Zenon DEF WaitTypeOK
<1> QED
  BY <1>1, WaitInvHolds, WaitFlagType, PTL

(* A wait ends for the cause it waited for, for every duration int64 holds   *)
(* and every interleaving of drives, deliveries, Ticks, crashes and          *)
(* cancellations.                                                            *)
THEOREM CauseHolds == WaitSpec => []WaitEndsForCause
<1>1. WaitInv => WaitEndsForCause
  BY DEF WaitInv, WaitDrive, WaitCause, Caused, WaitEndsForCause
<1> QED
  BY <1>1, WaitInvHolds, PTL

---------------------------------------------------------------------------
(* SubWorkflow *)

SubShape ==
    /\ style \in Styles
    /\ row \in {"none", "pending", "claimed"} \cup TerminalRow
    /\ journal \in Journals /\ seen \in Journals /\ got \in ResultValues
    /\ worker \in {"idle", "run", "ok", "failed", "signal"}
    /\ parent \in {"pending", "waiting", "completed", "failed"}
    /\ ruling \in {"pending", "waiting", "completed", "failed"}
    /\ ppc \in {"off", "load", "row", "child", "save"}
    /\ stumbles \in 0..MaxStumbles

(* The child is over, and `answer` is what CompletedOverResult asks of the   *)
(* result the parent takes from it.                                          *)
ChildOver(answer) ==
    /\ journal.run \in {"ok", "failed"}
    /\ style = "parked" => journal.run = "ok"
    /\ declares => answer # "none" /\ (style # "queue" => answer = journal.answer)

(* Only a queue child has a row, and an inline child no other driver; what   *)
(* was read of a child that is over is so still; a row is done, and a driver *)
(* through, after the journal; a ruling is about what was read.              *)
SubInv ==
    /\ SubShape
    /\ style # "queue" => row = "none"
    /\ style = "inline" => worker = "idle"
    /\ ppc = "child" => style = "inline" /\ (seen = journal \/ (seen.run = "none" /\ journal.run = "mid"))
    /\ seen.run \in {"ok", "failed"} => journal = seen
    /\ worker \in {"ok", "failed"} => journal.run \in {"ok", "failed"}
    /\ row = "done" => journal.run \in {"ok", "failed"}
    /\ ppc # "save" => ruling = "pending"
    /\ ruling = "completed" => ChildOver(seen.answer)
    /\ parent = "completed" => ChildOver(got)

(* A step that leaves the parent and the terminal journal alone.             *)
LEMMA JournalGrows ==
  ASSUME SubInv, UNCHANGED <<style, declares, parent, ppc, seen, ruling, got>>,
         journal' = journal \/ (journal.run \in {"none", "mid"} /\ journal' \in Journals)
  PROVE  /\ seen'.run \in {"ok", "failed"} => journal' = seen'
         /\ ruling' = "completed" => ChildOver(seen.answer)'
         /\ parent' = "completed" => ChildOver(got)'
  BY DEF SubInv, ChildOver

LEMMA SubInitHolds == SubInit => SubInv
  BY SubWorkflowAssumption DEF SubInit, SubInv, SubShape, NoRun, Journals, ResultValues

LEMMA SubInvNext == SubInv /\ [SubNext]_subVars => SubInv'
<1> SUFFICES ASSUME SubInv, [SubNext]_subVars PROVE SubInv'
  OBVIOUS
<1> USE SubWorkflowAssumption DEF SubInv, SubShape, ChildOver, TerminalRow
<1>0. journal \in Journals /\ seen \in Journals /\ NoRun \in Journals /\ NoRun.run = "none"
  BY DEF NoRun, Journals, ResultValues
<1>a. /\ journal.run \in {"none", "mid", "ok", "failed"} /\ seen.run \in {"none", "mid", "ok", "failed"}
      /\ seen.answer \in ResultValues
  BY <1>0 DEF Journals
<1>b. \A end, j : j \in RunEnds(end) => j \in Journals /\ j.run = end
  BY DEF RunEnds
<1>1. CASE ParentEnters \/ SpawnRefused \/ ParentLoads
  BY <1>0, <1>1 DEF ParentEnters, SpawnRefused, ParentLoads, Stumble, Rules
<1>2. CASE ParentJudges
  BY <1>a, <1>2 DEF ParentJudges, Rules, QueueVerdict, JournalVerdict, ApplyResult
<1>3. CASE InlineChild
  <2>1. CASE seen.run \in {"ok", "failed"}
    BY <1>3, <2>1 DEF InlineChild, Rules, ApplyResult
  <2>2. CASE journal' \in RunEnds("ok") /\ seen' = journal' /\ Rules(ApplyResult(journal')) /\ UNCHANGED stumbles
    BY <1>b, <1>3, <2>2 DEF InlineChild, Rules, ApplyResult
  <2>3. CASE journal' \in RunEnds("failed") /\ Rules("failed") /\ UNCHANGED seen /\ Stumble
    BY <1>b, <1>3, <2>3 DEF InlineChild, Rules, Stumble
  <2> QED
    BY <1>3, <2>1, <2>2, <2>3 DEF InlineChild
<1>4. CASE InlineCheckpoint
  <2>1. journal' \in Journals /\ journal'.run = "mid"
    BY <1>b, <1>4 DEF InlineCheckpoint
  <2> QED
    BY <1>4, <2>1 DEF InlineCheckpoint
<1>5. CASE ParentSaves \/ ParentCrash
  BY <1>0, <1>a, <1>5 DEF ParentSaves, ParentCrash, Stumble
<1>6. CASE ChildCheckpoints
  <2>1. journal' \in Journals /\ journal'.run = "mid"
    BY <1>b, <1>6 DEF ChildCheckpoints
  <2> QED
    BY <1>6, <2>1 DEF ChildCheckpoints
<1>7. ASSUME NEW end \in {"ok", "failed"}, ChildSaves(end) PROVE SubInv'
  <2>1. CASE journal.run \in {"none", "mid"} /\ journal' \in RunEnds(end) /\ worker' = end
    BY <1>b, <1>7, <2>1, JournalGrows DEF ChildSaves
  <2>2. CASE journal.run \in {"ok", "failed"} /\ worker' = "ok" /\ UNCHANGED journal
    BY <1>7, <2>2 DEF ChildSaves
  <2> QED
    BY <1>7, <2>1, <2>2 DEF ChildSaves
<1>9. CASE ChildClaimed \/ ConstructionFails
  BY <1>9 DEF ChildClaimed, ConstructionFails, Stumble
<1>10. CASE ChildMarks \/ CompletionSignalled \/ ChildDriverDies \/ OperatorCancels
  BY <1>10 DEF ChildMarks, CompletionSignalled, ChildDriverDies, OperatorCancels, Stumble
<1>8. CASE UNCHANGED subVars
  BY <1>8 DEF subVars
<1> QED
  BY <1>1, <1>2, <1>3, <1>4, <1>5, <1>6, <1>7, <1>8, <1>9, <1>10 DEF SubNext, ParentStep

LEMMA SubFlagsType == SubSpec => [](declares \in BOOLEAN /\ signal \in BOOLEAN)
<1> DEFINE Flags == declares \in BOOLEAN /\ signal \in BOOLEAN
<1>1. SubInit => Flags
  <2>1. SubInit => declares \in BOOLEAN /\ signal = FALSE
    BY DEF SubInit
  <2>2. signal = FALSE => signal \in BOOLEAN
    BY Zenon
  <2> QED
    BY <2>1, <2>2
<1>2. Flags /\ [SubNext]_subVars => Flags'
  <2> SUFFICES ASSUME declares \in BOOLEAN, signal \in BOOLEAN, [SubNext]_subVars
               PROVE  declares' \in BOOLEAN /\ signal' \in BOOLEAN
    OBVIOUS
  <2>1. CASE UNCHANGED <<declares, signal>>
    BY <2>1, Zenon
  <2>2. CASE ParentSaves \/ CompletionSignalled \/ OperatorCancels
    BY <2>2, Zenon DEF ParentSaves, CompletionSignalled, OperatorCancels
  <2>3. ~(ParentSaves \/ CompletionSignalled \/ OperatorCancels) => UNCHANGED <<declares, signal>>
    BY DEF SubNext, subVars, ParentStep, ParentEnters, SpawnRefused, ParentLoads, ParentJudges, InlineChild,
       InlineCheckpoint, ParentCrash, ChildClaimed, ConstructionFails, ChildCheckpoints, ChildSaves,
       ChildMarks, ChildDriverDies
  <2> QED
    BY <2>1, <2>2, <2>3
<1>3. SubSpec => []Flags
  <2> HIDE DEF Flags
  <2> QED
    BY <1>1, <1>2, PTL DEF SubSpec
<1> QED
  BY <1>3

(* SubTypeOK holds in every reachable state of a sub-workflow node. *)
THEOREM SubTypeCorrect == SubSpec => []SubTypeOK
<1>1. SubInv /\ declares \in BOOLEAN /\ signal \in BOOLEAN => SubTypeOK
  <2> SUFFICES ASSUME SubInv, declares \in BOOLEAN, signal \in BOOLEAN PROVE SubTypeOK
    OBVIOUS
  <2>1. /\ style \in Styles
        /\ row \in {"none", "pending", "claimed"} \cup TerminalRow
        /\ {journal, seen} \subseteq Journals /\ got \in ResultValues
        /\ worker \in {"idle", "run", "ok", "failed", "signal"}
        /\ {parent, ruling} \subseteq {"pending", "waiting", "completed", "failed"}
        /\ ppc \in {"off", "load", "row", "child", "save"}
        /\ stumbles \in 0..MaxStumbles
    BY DEF SubInv, SubShape
  <2> QED
    BY <2>1, Zenon DEF SubTypeOK
<1> QED
  BY <1>1, SubInitHolds, SubInvNext, SubFlagsType, PTL DEF SubSpec

(* A parent completes only over a child that is over, and when it declares a *)
(* result only with one, the child's last where the journal is the           *)
(* authority, wherever the child's driver is between the parent's two reads  *)
(* and whoever crashes (subworkflow.go, subworkflow_parked.go).              *)
THEOREM ResultHolds == SubSpec => []CompletedOverResult
<1>1. SubInv => CompletedOverResult
  BY DEF SubInv, CompletedOverResult, ChildOver
<1> QED
  BY <1>1, SubInitHolds, SubInvNext, PTL DEF SubSpec
=============================================================================

----------------------------- MODULE MCExecutor -----------------------------
(***************************************************************************)
(* Two small graphs for Executor.                                           *)
(*                                                                          *)
(* Branches: a choice between two branches joined by a merge, next to a     *)
(* tolerated failure; the last node needs both.  Levels 0..3.               *)
(*                                                                          *)
(* Saga: two compensable steps, a wait for a signal on the first of them    *)
(* with a plain sibling, and a compensable node after both.                 *)
(***************************************************************************)
EXTENDS Executor, FiniteSetsExt, Sequences

CONSTANTS pick, left, right, join, tol, last,
          pay, book, wait, ship, done,
          sig

(* The graph at hand is told by its nodes. *)
BranchDeps ==
    [n \in Nodes |-> CASE n \in {left, right} -> {pick}
                       [] n = join -> {pick, left, right}
                       [] n = last -> {join, tol}
                       [] OTHER -> {}]
(* A branch whose head also depends on a plain node outside the branch. *)
ExtraDeps ==
    [n \in Nodes |-> CASE n = left -> {pick, book}
                       [] n = right -> {pick}
                       [] n = join -> {pick, left, right}
                       [] OTHER -> {}]
SagaDeps ==
    [n \in Nodes |-> CASE n \in {wait, ship} -> {pay}
                       [] n = done -> {wait, ship, book}
                       [] OTHER -> {}]

(* GetLevels: the longest path to a node. *)
LongestPath ==
    LET depth[n \in Nodes] ==
          IF Deps[n] = {} THEN 0 ELSE 1 + Max({depth[d] : d \in Deps[n]})
    IN  depth

NameOrder ==
    LET names == <<book, done, join, last, left, pay, pick, right, ship, tol, wait>>
    IN  [n \in Nodes |-> CHOOSE i \in 1..11 : names[i] = n]

Heads     == [c \in ChoiceNodes |-> {left, right}]
JoinTails == [m \in MergeNodes |-> {left, right}]
OneSignal == [n \in WaitNodes |-> sig]
=============================================================================

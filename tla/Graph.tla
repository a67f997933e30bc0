------------------------------- MODULE Graph -------------------------------
(***************************************************************************)
(* From a WorkflowBuilder to a graph that runs (builder.go, dag.go,         *)
(* reconvergence.go, boundary.go, boundary_action_kind.go, mediation.go):   *)
(* Build folds the generated edges, looks for cycles, refuses unstructured  *)
(* joins, adds the edge from a merge to its choice, checks the declared     *)
(* boundaries and stamps the graph; the executor cuts it in levels and runs *)
(* them.                                                                    *)
(*                                                                          *)
(* An action is the set of the kinds it is composed of, wrappers            *)
(* flattened; {} is an empty composite.  A run is cut to which nodes were   *)
(* invoked and how they settled; module Executor has the rest of it.        *)
(***************************************************************************)
EXTENDS Integers, Sequences, FiniteSets

CONSTANTS GraphNode,   \* node names
          Builders,    \* what the host may have declared
          BudgetWidth  \* DefinitionBudget.MaxWidth; 0 is no limit

(* Kinds that complete without an act of their own: on the clock, on the     *)
(* structure of a join, in a child.  "func" stands for those that complete   *)
(* by somebody's act: functions, maps, validations, conditions, approvals.   *)
OpaqueKinds == {"merge", "timer", "fanout", "sub", "dag", "nil"}
Kinds == OpaqueKinds \cup {"func", "choice"}

(* deps: DependsOn; routes: the choices that route to a node by When and     *)
(* Otherwise; joins: the tails a merge takes by From; act: the kinds an      *)
(* action is composed of; composite: nodes whose action the host can still   *)
(* add to.                                                                   *)
BuilderType ==
    [names     : Seq(GraphNode),
     deps      : [GraphNode -> Seq(GraphNode)],
     routes    : [GraphNode -> Seq(GraphNode)],
     joins     : [GraphNode -> Seq(GraphNode)],
     act       : [GraphNode -> SUBSET Kinds],
     tolerant  : SUBSET GraphNode,
     composite : SUBSET GraphNode,
     bounds    : SUBSET [doer : GraphNode, verifier : GraphNode, sink : GraphNode]]

ASSUME GraphBuildersAssumption ==
    IsFiniteSet(GraphNode) /\ BudgetWidth \in Nat /\ Builders \subseteq BuilderType

VARIABLES builder,    \* the WorkflowBuilder
          gpc,        \* where Build, or the run, is
          edges,      \* node -> dependsOn of the graph under construction
          visited, trail,       \* detectCycle: visited, and the call stack
          degree, ready, rank,  \* GetLevels: inDegree, queue, nodeLevels
          held,       \* the snapshots of the boundary nodes' actions
          settled,    \* node -> status
          invoked     \* history: nodes whose action was run

grVars == <<builder, gpc, edges, visited, trail, degree, ready, rank, held, settled, invoked>>

Values(s) == {s[i] : i \in DOMAIN s}

Declared   == Values(builder.names)
Chooses(n) == "choice" \in builder.act[n]
Merges(n)  == "merge" \in builder.act[n]
HeadsOf(c) == {n \in GraphNode : c \in Values(builder.routes[n])}
TailsOf(m) == Values(builder.joins[m])
Roles      == UNION {{b.verifier, b.sink} : b \in builder.bounds}

GrTypeOK ==
    /\ gpc \in {"wire", "cycle", "converge", "bound", "levels", "run", "over", "refused"}
    /\ edges \in [GraphNode -> Seq(GraphNode)] /\ visited \subseteq GraphNode
    /\ degree \in [GraphNode -> Nat] /\ rank \in [GraphNode -> Nat] /\ ready \subseteq GraphNode
    /\ settled \in [GraphNode -> {"pending", "ok", "failed", "skipped", "bypassed"}]
    /\ invoked \subseteq GraphNode

GrInit ==
    /\ builder \in Builders
    /\ gpc = "wire"
    /\ edges = [n \in GraphNode |-> <<>>]
    /\ visited = {} /\ trail = <<>>
    /\ degree = [n \in GraphNode |-> 0] /\ ready = {} /\ rank = [n \in GraphNode |-> 0]
    /\ held = [n \in GraphNode |-> {}]
    /\ settled = [n \in GraphNode |-> "pending"] /\ invoked = {}

---------------------------------------------------------------------------
(* build *)

(* A nil operand would kill the host; a compiled graph evades the guards of  *)
(* AddSubWorkflow.  A boundary node is left to the boundary's own check.     *)
CannotRun(n) == n \notin Roles /\ builder.act[n] \cap {"nil", "dag"} # {}

(* effectiveDeps: the choice and merge edges folded into a copy of the       *)
(* declared dependencies.                                                    *)
Wired(n) == builder.deps[n] \o builder.routes[n] \o builder.joins[n]

WellDeclared ==
    /\ \A i, j \in DOMAIN builder.names : builder.names[i] = builder.names[j] => i = j
    /\ \A n \in GraphNode \ Declared : Wired(n) = <<>>
    /\ \A n \in Declared : Values(Wired(n)) \subseteq Declared /\ ~CannotRun(n)

WireGraph ==
    /\ gpc = "wire"
    /\ IF WellDeclared
       THEN gpc' = "cycle" /\ edges' = [n \in GraphNode |-> Wired(n)]
       ELSE gpc' = "refused" /\ UNCHANGED edges
    /\ UNCHANGED <<builder, visited, trail, degree, ready, rank, held, settled, invoked>>

(* Validate and detectCycle: depth first from every node, in the order the   *)
(* map gives them; inProgress is what is on the trail.                       *)
DetectCycle ==
    /\ gpc = "cycle"
    /\ IF trail = <<>>
       THEN \/ /\ visited # Declared
               /\ \E n \in Declared \ visited :
                     visited' = visited \cup {n} /\ trail' = <<[node |-> n, left |-> edges[n]]>>
               /\ UNCHANGED gpc
            \/ /\ visited = Declared
               /\ gpc' = "converge" /\ UNCHANGED <<visited, trail>>
       ELSE LET top == Head(trail)
                below == Tail(trail)
                dep == Head(top.left)
                advanced == <<[top EXCEPT !.left = Tail(@)]>> \o below
            IN  CASE top.left = <<>> -> trail' = below /\ UNCHANGED <<visited, gpc>>
                  [] top.left # <<>> /\ dep \notin visited ->
                        /\ visited' = visited \cup {dep}
                        /\ trail' = <<[node |-> dep, left |-> edges[dep]]>> \o advanced
                        /\ UNCHANGED gpc
                  [] top.left # <<>> /\ dep \in {f.node : f \in Values(trail)} ->
                        gpc' = "refused" /\ trail' = <<>> /\ UNCHANGED visited
                  [] OTHER -> trail' = advanced /\ UNCHANGED <<visited, gpc>>
    /\ UNCHANGED <<builder, edges, degree, ready, rank, held, settled, invoked>>

NoBranch == [choice |-> "none", entry |-> "none"]

(* nearestBranch: breadth first up the dependencies to the first node that   *)
(* depends on a choice; the search is its queue and what it has visited.     *)
Search == [queue : Seq(GraphNode), seen : SUBSET GraphNode]

ChoicesAt(n) == {i \in DOMAIN edges[n] : Chooses(edges[n][i])}

Ended(s) == s.queue = <<>> \/ (Head(s.queue) \notin s.seen /\ ChoicesAt(Head(s.queue)) # {})

Found(s) ==
    IF s.queue = <<>> THEN NoBranch
    ELSE LET n == Head(s.queue)
         IN  [choice |-> edges[n][CHOOSE i \in ChoicesAt(n) : \A j \in ChoicesAt(n) : i <= j],
              entry  |-> n]

Climbed(s) ==
    LET n == Head(s.queue)
    IN  [queue |-> IF n \in s.seen THEN Tail(s.queue) ELSE Tail(s.queue) \o edges[n],
         seen  |-> s.seen \cup {n}]

NearestBranch(n) ==
    LET climb[s \in Search] == IF Ended(s) THEN Found(s) ELSE climb[Climbed(s)]
    IN  climb[[queue |-> <<n>>, seen |-> {}]]

SourceChoices(m) == {NearestBranch(t).choice : t \in TailsOf(m)}

(* A shared branch, a merge over no choice or over several, an implicit      *)
(* OR-join.                                                                  *)
Unstructured(n) ==
    \/ Cardinality({c \in Values(edges[n]) : Chooses(c)}) > 1
    \/ /\ Merges(n)
       /\ \/ \E t \in TailsOf(n) : Chooses(t) \/ NearestBranch(t) = NoBranch
          \/ Cardinality(SourceChoices(n)) > 1
    \/ /\ ~Merges(n) /\ ~Chooses(n)
       /\ \E d, e \in Values(edges[n]) :
             /\ NearestBranch(d).choice = NearestBranch(e).choice
             /\ NearestBranch(d).entry # NearestBranch(e).entry

(* validateReconvergence: every node is judged before the first edge from a  *)
(* merge to its choice is added.                                             *)
ValidateReconvergence ==
    /\ gpc = "converge"
    /\ IF \E n \in Declared : Unstructured(n)
       THEN gpc' = "refused" /\ UNCHANGED edges
       ELSE /\ gpc' = "bound"
            /\ edges' = [n \in GraphNode |->
                  IF Merges(n) /\ TailsOf(n) # {} /\ SourceChoices(n) \cap Values(edges[n]) = {}
                  THEN edges[n] \o <<CHOOSE c \in SourceChoices(n) : TRUE>>
                  ELSE edges[n]]
    /\ UNCHANGED <<builder, visited, trail, degree, ready, rank, held, settled, invoked>>

---------------------------------------------------------------------------
(* Boundaries *)

Opaque(action) == action = {} \/ action \cap OpaqueKinds # {}

(* reachAvoiding: a path of at least one edge that never enters `avoid`. *)
Spread(seen, avoid) == seen \cup {n \in Declared \ avoid : Values(edges[n]) \cap seen # {}}

Reaches(from, to, avoid) ==
    LET grow[seen \in SUBSET GraphNode] ==
          IF Spread(seen, avoid) = seen THEN seen ELSE grow[Spread(seen, avoid)]
    IN  from \notin avoid /\ to # from /\ to \in grow[{from}]

Roots == {n \in Declared : edges[n] = <<>>}

(* Mutant of BoundaryRefused: the paths are followed from the doer.          *)
BoundaryRefusedFromDoer(b) ==
    \/ ~({b.doer, b.verifier, b.sink} \subseteq Declared)
    \/ b.verifier \in builder.tolerant
    \/ Opaque(builder.act[b.verifier]) \/ Opaque(builder.act[b.sink])
    \/ b.verifier = b.sink
    \/ edges[b.sink] = <<>>
    \/ ~Reaches(b.doer, b.sink, {})
    \/ Reaches(b.doer, b.sink, {b.verifier})

(* validateBoundary, in its order: the names, the verifier's                 *)
(* ContinueOnError, the two actions, a verifier that is the sink, a sink     *)
(* that is a root, a doer without a path, a root that gets past the verifier.*)
BoundaryRefused(b) ==
    \/ ~({b.doer, b.verifier, b.sink} \subseteq Declared)
    \/ b.verifier \in builder.tolerant
    \/ Opaque(builder.act[b.verifier]) \/ Opaque(builder.act[b.sink])
    \/ b.verifier = b.sink
    \/ edges[b.sink] = <<>>
    \/ ~Reaches(b.doer, b.sink, {})
    \/ \E r \in Roots : Reaches(r, b.sink, {b.verifier})

(* The actions that were judged are copied; the queue of GetLevels is set up.*)
ValidateBoundaries ==
    /\ gpc = "bound"
    /\ IF \E b \in builder.bounds : BoundaryRefused(b)
       THEN gpc' = "refused" /\ UNCHANGED <<held, degree, ready>>
       ELSE /\ gpc' = "levels"
            /\ held' = [n \in GraphNode |-> IF n \in Roles THEN builder.act[n] ELSE {}]
            /\ degree' = [n \in GraphNode |-> Len(edges[n])]
            /\ ready' = Roots
    /\ UNCHANGED <<builder, edges, visited, trail, rank, settled, invoked>>

(* CompositeAction.Add on an action the host has kept. *)
HostAdds(n) ==
    /\ gpc \in {"levels", "run"} /\ n \in builder.composite \ {m \in Declared : "timer" \in builder.act[m]}
    /\ builder' = [builder EXCEPT !.act[n] = @ \cup {"timer"}]
    /\ UNCHANGED <<gpc, edges, visited, trail, degree, ready, rank, held, settled, invoked>>

---------------------------------------------------------------------------
(* GetLevels *)

Times(n, m) == Cardinality({i \in DOMAIN edges[m] : edges[m][i] = n})

PlaceNode(n) ==
    /\ gpc = "levels" /\ n \in ready
    /\ degree' = [m \in GraphNode |-> degree[m] - Times(n, m)]
    /\ rank' = [m \in GraphNode |->
                   IF Times(n, m) > 0 /\ rank[n] + 1 > rank[m] THEN rank[n] + 1 ELSE rank[m]]
    /\ ready' = (ready \ {n}) \cup {m \in Declared : Times(n, m) > 0 /\ degree'[m] = 0}
    /\ UNCHANGED <<builder, gpc, edges, visited, trail, held, settled, invoked>>

(* validateDefinitionBudget, and the built token. *)
Stamp ==
    /\ gpc = "levels" /\ ready = {}
    /\ gpc' = IF BudgetWidth > 0 /\ \E k \in Values(rank) :
                    Cardinality({n \in Declared : rank[n] = k}) > BudgetWidth
              THEN "refused" ELSE "run"
    /\ UNCHANGED <<builder, edges, visited, trail, degree, ready, rank, held, settled, invoked>>

---------------------------------------------------------------------------
(* The run *)

TakenNode(d) == settled[d] = "ok" \/ (settled[d] = "failed" /\ d \in builder.tolerant)

LevelReached(n) == /\ gpc = "run" /\ n \in Declared /\ settled[n] = "pending"
                   /\ \A m \in Declared : rank[m] < rank[n] => settled[m] # "pending"

Launches(n) ==
    IF Merges(n)
    THEN /\ \A d \in Values(edges[n]) : TakenNode(d) \/ settled[d] = "bypassed"
         /\ \E t \in TailsOf(n) : TakenNode(t)
    ELSE \A d \in Values(edges[n]) : TakenNode(d)

(* A node that does not run: all its dependencies were bypassed, it is a     *)
(* merge with nothing taken, or it is skipped.                               *)
PassOver(n) ==
    /\ LevelReached(n) /\ ~Launches(n)
    /\ settled' = [settled EXCEPT ![n] =
          IF \/ \A d \in Values(edges[n]) : settled[d] = "bypassed"
             \/ Merges(n) /\ \A d \in Values(edges[n]) : TakenNode(d) \/ settled[d] = "bypassed"
          THEN "bypassed" ELSE "skipped"]
    /\ UNCHANGED <<builder, gpc, edges, visited, trail, degree, ready, rank, held, invoked>>

(* A choice bypasses the targets it does not take. *)
NodeSucceeds(n) ==
    /\ LevelReached(n) /\ Launches(n)
    /\ invoked' = invoked \cup {n}
    /\ \E untaken \in IF HeadsOf(n) = {} THEN {{}} ELSE {HeadsOf(n) \ {t} : t \in HeadsOf(n)} :
          settled' = [m \in GraphNode |-> IF m = n THEN "ok"
                                          ELSE IF m \in untaken THEN "bypassed" ELSE settled[m]]
    /\ UNCHANGED <<builder, gpc, edges, visited, trail, degree, ready, rank, held>>

(* The action fails, or tries to settle another node through its sealed view *)
(* and fails for that; without ContinueOnError the run is over.              *)
NodeFails(n) ==
    /\ LevelReached(n) /\ Launches(n)
    /\ invoked' = invoked \cup {n}
    /\ settled' = [settled EXCEPT ![n] = "failed"]
    /\ gpc' = IF n \in builder.tolerant THEN gpc ELSE "over"
    /\ UNCHANGED <<builder, edges, visited, trail, degree, ready, rank, held>>

GrNext ==
    \/ WireGraph \/ DetectCycle \/ ValidateReconvergence \/ ValidateBoundaries \/ Stamp
    \/ \E n \in GraphNode : HostAdds(n) \/ PlaceNode(n) \/ PassOver(n) \/ NodeSucceeds(n) \/ NodeFails(n)

GrSpec == GrInit /\ [][GrNext]_grVars

---------------------------------------------------------------------------
(* Properties *)

(* What Build certifies holds in the run, for every graph it accepts and     *)
(* with the edges it adds after the cycle check: GetLevels puts every node   *)
(* after its dependencies, as Executor assumes of it; a node is invoked      *)
(* after all its dependencies have settled; a boundary's sink only after its *)
(* verifier was invoked and succeeded (through choices, merges and tolerated *)
(* failures), and the two actions are still the ones that were judged        *)
(* eligible, whatever the host has added since (boundary.go: "along every    *)
(* route the executor can take through the built graph, S does not occur     *)
(* before V").                                                               *)
BuiltGraphHolds ==
    gpc \in {"run", "over"} =>
        /\ \A n \in Declared : \A d \in Values(edges[n]) : rank[d] < rank[n]
        /\ \A n \in invoked : \A d \in Values(edges[n]) : settled[d] # "pending"
        /\ \A b \in builder.bounds :
              /\ b.sink \in invoked => b.verifier \in invoked /\ settled[b.verifier] = "ok"
              /\ ~Opaque(held[b.verifier]) /\ ~Opaque(held[b.sink])
=============================================================================

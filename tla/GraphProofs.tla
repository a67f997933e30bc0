---------------------------- MODULE GraphProofs ----------------------------
(***************************************************************************)
(* Proofs about Graph, for any finite set of nodes and any builders: what   *)
(* Build certifies of a graph holds in its run.                             *)
(***************************************************************************)
EXTENDS Graph, FiniteSetTheorems, WellFoundedInduction, TLAPS

---------------------------------------------------------------------------
(* Searches: recursion that goes on to one next state until it halts.  The   *)
(* two searches of Build, nearestBranch and reachAvoiding, are of this form. *)

(* A set of natural numbers has a least one. *)
LEMMA LowestExists ==
  ASSUME NEW S \in SUBSET Nat, S # {}
  PROVE  \E i \in S : \A j \in S : i <= j
<1>1. IsWellFoundedOn(OpToRel(<, Nat), Nat)
  BY NatLessThanWellFounded
<1>2. PICK i \in S : \A j \in S : ~ (<<j, i>> \in OpToRel(<, Nat))
  BY <1>1, WFMin, Zenon
<1>3. \A j \in S : ~ (j < i)
  BY <1>2 DEF OpToRel
<1> QED
  BY <1>3, SMT

(* r goes from s, step by step, to a state that halts. *)
Goes(S, halt, step, s, k, r) ==
    /\ r \in [0..k -> S] /\ r[0] = s /\ r[k] \in halt
    /\ \A i \in 0..k - 1 : r[i] \notin halt /\ r[i + 1] = step[r[i]]

EndsOf(S, halt, step, s) ==
    {t \in halt : \E k \in Nat : \E r \in [0..k -> S] : Goes(S, halt, step, s, k, r) /\ r[k] = t}

LEMMA EndsAtOnce ==
  ASSUME NEW S, NEW halt \in SUBSET S, NEW step \in [S -> S], NEW s \in halt
  PROVE  EndsOf(S, halt, step, s) = {s}
<1>1. s \in EndsOf(S, halt, step, s)
  <2> DEFINE r == [i \in 0..0 |-> s]
  <2>1. r \in [0..0 -> S] /\ r[0] = s
    OBVIOUS
  <2>2. Goes(S, halt, step, s, 0, r)
    BY <2>1 DEF Goes
  <2> QED
    BY <2>1, <2>2 DEF EndsOf
<1>2. ASSUME NEW t \in EndsOf(S, halt, step, s) PROVE t = s
  <2>1. PICK k \in Nat : \E r \in [0..k -> S] : Goes(S, halt, step, s, k, r) /\ r[k] = t
    BY DEF EndsOf
  <2>2. PICK r \in [0..k -> S] : Goes(S, halt, step, s, k, r) /\ r[k] = t
    BY <2>1
  <2>3. k = 0
    BY <2>2 DEF Goes
  <2> QED
    BY <2>2, <2>3 DEF Goes
<1> QED
  BY <1>1, <1>2

LEMMA EndsLater ==
  ASSUME NEW S, NEW halt \in SUBSET S, NEW step \in [S -> S], NEW s \in S \ halt
  PROVE  EndsOf(S, halt, step, s) = EndsOf(S, halt, step, step[s])
<1>1. ASSUME NEW t \in EndsOf(S, halt, step, s) PROVE t \in EndsOf(S, halt, step, step[s])
  <2>1. PICK k \in Nat : \E r \in [0..k -> S] : Goes(S, halt, step, s, k, r) /\ r[k] = t
    BY <1>1 DEF EndsOf
  <2>2. PICK r \in [0..k -> S] : Goes(S, halt, step, s, k, r) /\ r[k] = t
    BY <2>1
  <2>3. k - 1 \in Nat
    BY <2>2 DEF Goes
  <2> DEFINE q == [i \in 0..(k - 1) |-> r[i + 1]]
  <2>4. q \in [0..(k - 1) -> S]
    BY <2>3
  <2>5. \A i \in 0..(k - 1) : q[i] = r[i + 1]
    OBVIOUS
  <2>6. q[0] = step[s] /\ q[k - 1] = t
    BY <2>2, <2>3, <2>5 DEF Goes
  <2>7. ASSUME NEW i \in 0..((k - 1) - 1) PROVE q[i] \notin halt /\ q[i + 1] = step[q[i]]
    <3>1. i + 1 \in 0..k - 1 /\ i \in 0..(k - 1) /\ i + 1 \in 0..(k - 1)
      BY <2>3
    <3>2. r[i + 1] \notin halt /\ r[(i + 1) + 1] = step[r[i + 1]]
      BY <2>2, <3>1 DEF Goes
    <3> QED
      BY <2>5, <3>1, <3>2
  <2> HIDE DEF q
  <2>8. Goes(S, halt, step, step[s], k - 1, q)
    BY <2>2, <2>4, <2>6, <2>7 DEF Goes
  <2>9. t \in halt
    BY <1>1 DEF EndsOf
  <2> QED
    BY <2>3, <2>4, <2>6, <2>8, <2>9 DEF EndsOf
<1>2. ASSUME NEW t \in EndsOf(S, halt, step, step[s]) PROVE t \in EndsOf(S, halt, step, s)
  <2>1. PICK k \in Nat : \E r \in [0..k -> S] : Goes(S, halt, step, step[s], k, r) /\ r[k] = t
    BY <1>2 DEF EndsOf
  <2>2. PICK r \in [0..k -> S] : Goes(S, halt, step, step[s], k, r) /\ r[k] = t
    BY <2>1
  <2> DEFINE q == [i \in 0..(k + 1) |-> IF i = 0 THEN s ELSE r[i - 1]]
  <2>3. q \in [0..(k + 1) -> S]
    BY <2>2
  <2>4. \A i \in 0..(k + 1) : q[i] = IF i = 0 THEN s ELSE r[i - 1]
    OBVIOUS
  <2>5. q[0] = s /\ q[k + 1] = t
    BY <2>2, <2>4
  <2>6. ASSUME NEW i \in 0..((k + 1) - 1) PROVE q[i] \notin halt /\ q[i + 1] = step[q[i]]
    <3>1. CASE i = 0
      BY <2>2, <2>4, <3>1 DEF Goes
    <3>2. CASE i # 0
      <4>1. i - 1 \in 0..k - 1 /\ i \in 0..(k + 1) /\ i + 1 \in 0..(k + 1) /\ i + 1 # 0 /\ (i + 1) - 1 = (i - 1) + 1
        BY <3>2
      <4>2. r[i - 1] \notin halt /\ r[(i - 1) + 1] = step[r[i - 1]]
        BY <2>2, <4>1 DEF Goes
      <4> QED
        BY <2>4, <3>2, <4>1, <4>2
    <3> QED
      BY <3>1, <3>2
  <2> HIDE DEF q
  <2>8. Goes(S, halt, step, s, k + 1, q)
    BY <2>2, <2>3, <2>5, <2>6 DEF Goes
  <2>9. t \in halt
    BY <1>2 DEF EndsOf
  <2> QED
    BY <2>3, <2>5, <2>8, <2>9 DEF EndsOf
<1> QED
  BY <1>1, <1>2

(* g is the function the recursion defines. *)
Recursive(S, halt, step, val, g) == g = [s \in S |-> IF s \in halt THEN val[s] ELSE g[step[s]]]

(* Such a recursion defines a function, whether or not it always halts. *)
LEMMA TailRecursion ==
  ASSUME NEW S, NEW halt \in SUBSET S, NEW step \in [S -> S], NEW val
  PROVE  \E g : Recursive(S, halt, step, val, g)
<1> DEFINE end(s) == CHOOSE t : t \in EndsOf(S, halt, step, s)
           g == [s \in S |-> val[end(s)]]
<1>1. ASSUME NEW s \in halt PROVE end(s) = s
  <2>1. EndsOf(S, halt, step, s) = {s}
    BY EndsAtOnce
  <2> QED
    BY <2>1
<1>2. ASSUME NEW s \in S \ halt PROVE end(s) = end(step[s])
  <2>1. EndsOf(S, halt, step, s) = EndsOf(S, halt, step, step[s])
    BY EndsLater
  <2> QED
    BY <2>1
<1> HIDE DEF end
<1>3. Recursive(S, halt, step, val, g)
  BY <1>1, <1>2 DEF Recursive
<1> QED
  BY <1>3

(* Where it halts on every state of I, and stays in I, its value is that of  *)
(* a halting state of I.                                                     *)
LEMMA SearchEnds ==
  ASSUME NEW S, NEW halt \in SUBSET S, NEW step \in [S -> S], NEW val, NEW g,
         Recursive(S, halt, step, val, g),
         NEW I \in SUBSET S, \A s \in I \ halt : step[s] \in I,
         NEW m1 \in [S -> Nat], NEW m2 \in [S -> Nat],
         \A s \in I \ halt : \/ m1[step[s]] < m1[s]
                             \/ m1[step[s]] = m1[s] /\ m2[step[s]] < m2[s]
  PROVE  \A s \in I : \E t \in I \cap halt : g[s] = val[t]
<1> DEFINE Good(s) == \E t \in I \cap halt : g[s] = val[t]
           Bad == {s \in I : ~Good(s)}
           A == {m1[s] : s \in Bad}
<1> SUFFICES ASSUME Bad # {} PROVE FALSE
  OBVIOUS
<1>1. A \in SUBSET Nat /\ A # {}
  OBVIOUS
<1>2. PICK a \in A : \A i \in A : a <= i
  BY <1>1, LowestExists
<1> DEFINE C == {s \in Bad : m1[s] = a}
           B == {m2[s] : s \in C}
<1>3. C # {} /\ C \in SUBSET S
  OBVIOUS
<1>31. B \in SUBSET Nat /\ B # {}
  <2> HIDE DEF C
  <2> QED
    BY <1>3
<1>4. PICK b \in B : \A i \in B : b <= i
  BY <1>31, LowestExists
<1>5. PICK s \in C : m2[s] = b
  OBVIOUS
<1>6. s \in I /\ s \notin halt /\ ~Good(s)
  <2>1. s \in halt => g[s] = val[s]
    BY DEF Recursive
  <2> QED
    BY <2>1
<1> DEFINE u == step[s]
<1>7. u \in I /\ g[s] = g[u]
  BY <1>6 DEF Recursive
<1>8. m1[s] \in Nat /\ m1[u] \in Nat /\ m2[s] \in Nat /\ m2[u] \in Nat /\ m1[s] = a
  OBVIOUS
<1>9. \/ m1[u] < m1[s]
      \/ m1[u] = m1[s] /\ m2[u] < m2[s]
  BY <1>6
<1>10. ~Good(u)
  BY <1>6, <1>7
<1>11. m1[u] \in A
  BY <1>7, <1>10
<1>12. m1[u] = a
  <2> HIDE DEF A, u, C
  <2> QED
    BY <1>1, <1>2, <1>8, <1>9, <1>11
<1>13. m2[u] \in B
  <2>1. u \in C
    BY <1>7, <1>10, <1>12
  <2> HIDE DEF C, u
  <2> QED
    BY <2>1
<1> HIDE DEF B, u, C
<1> QED
  BY <1>31, <1>4, <1>5, <1>8, <1>9, <1>12, <1>13
(* The values of a sequence. *)

LEMMA ValuesType ==
  ASSUME NEW X, NEW s \in Seq(X)
  PROVE  /\ Values(s) \subseteq X /\ DOMAIN s = 1..Len(s) /\ Len(s) \in Nat
         /\ (s = <<>> <=> Values(s) = {}) /\ (s = <<>> <=> Len(s) = 0)
<1>1. DOMAIN s = 1..Len(s) /\ Len(s) \in Nat /\ (s = <<>> <=> Len(s) = 0)
  OBVIOUS
<1>2. Values(s) \subseteq X
  BY DEF Values
<1>3. Len(s) # 0 => s[1] \in Values(s)
  BY <1>1 DEF Values
<1>4. Len(s) = 0 => Values(s) = {}
  BY <1>1 DEF Values
<1> QED
  BY <1>1, <1>2, <1>3, <1>4

LEMMA ValuesConcat ==
  ASSUME NEW X, NEW s \in Seq(X), NEW t \in Seq(X)
  PROVE  s \o t \in Seq(X) /\ Values(s \o t) = Values(s) \cup Values(t)
<1>1. /\ s \o t \in Seq(X) /\ Len(s \o t) = Len(s) + Len(t)
      /\ \A i \in 1..Len(s) + Len(t) : (s \o t)[i] = IF i <= Len(s) THEN s[i] ELSE t[i - Len(s)]
  OBVIOUS
<1>2. DOMAIN s = 1..Len(s) /\ DOMAIN t = 1..Len(t) /\ DOMAIN (s \o t) = 1..Len(s) + Len(t)
      /\ Len(s) \in Nat /\ Len(t) \in Nat
  BY <1>1
<1> DEFINE c == s \o t
<1> HIDE DEF c
<1>3. Values(c) \subseteq Values(s) \cup Values(t)
  BY <1>1, <1>2 DEF Values, c
<1>4. Values(s) \subseteq Values(c)
  BY <1>1, <1>2 DEF Values, c
<1>5. ASSUME NEW i \in DOMAIN t PROVE t[i] \in Values(c)
  <2>1. i + Len(s) \in 1..Len(s) + Len(t) /\ (i + Len(s)) - Len(s) = i /\ ~(i + Len(s) <= Len(s))
    BY <1>2
  <2>2. c[i + Len(s)] = t[i]
    BY <1>1, <2>1 DEF c
  <2> QED
    BY <1>2, <2>1, <2>2 DEF Values, c
<1> QED
  BY <1>1, <1>3, <1>4, <1>5 DEF Values, c

LEMMA ValuesHeadTail ==
  ASSUME NEW X, NEW s \in Seq(X), s # <<>>
  PROVE  /\ Tail(s) \in Seq(X) /\ Head(s) \in X /\ Len(Tail(s)) = Len(s) - 1 /\ Len(s) \in Nat
         /\ Values(s) = {Head(s)} \cup Values(Tail(s))
<1>1. /\ Tail(s) \in Seq(X) /\ Head(s) = s[1] /\ Len(Tail(s)) = Len(s) - 1 /\ Len(s) \in Nat \ {0}
      /\ \A i \in 1..Len(s) - 1 : Tail(s)[i] = s[i + 1]
  OBVIOUS
<1>2. DOMAIN s = 1..Len(s) /\ DOMAIN Tail(s) = 1..Len(s) - 1
  BY <1>1
<1> DEFINE q == Tail(s)
<1> HIDE DEF q
<1>3. Values(q) \subseteq Values(s)
  BY <1>1, <1>2 DEF Values, q
<1>4. ASSUME NEW i \in DOMAIN s, i # 1 PROVE s[i] \in Values(q)
  <2>1. i - 1 \in 1..Len(s) - 1 /\ (i - 1) + 1 = i
    BY <1>1, <1>2, <1>4
  <2> QED
    BY <1>1, <1>2, <2>1 DEF Values, q
<1>5. s[1] \in Values(s) /\ Head(s) \in X
  BY <1>1, <1>2 DEF Values
<1>6. Values(s) \subseteq {Head(s)} \cup Values(q)
  BY <1>1, <1>4 DEF Values
<1> QED
  BY <1>1, <1>3, <1>5, <1>6 DEF q

LEMMA ValuesSingle == ASSUME NEW x PROVE Values(<<x>>) = {x}
  BY DEF Values

LEMMA ValuesNone == Values(<<>>) = {}
  BY DEF Values

---------------------------------------------------------------------------
(* reachAvoiding and nearestBranch *)

GraphTyped == builder \in BuilderType /\ edges \in [GraphNode -> Seq(GraphNode)]

LEMMA DeclaredType == ASSUME GraphTyped PROVE Declared \subseteq GraphNode
  BY ValuesType DEF GraphTyped, BuilderType, Declared

LEMMA SmallerRest ==
  ASSUME NEW seen \in SUBSET GraphNode, NEW more \in SUBSET GraphNode, seen \subseteq more
  PROVE  /\ Cardinality(GraphNode \ more) \in Nat /\ Cardinality(GraphNode \ seen) \in Nat
         /\ seen # more => Cardinality(GraphNode \ more) < Cardinality(GraphNode \ seen)
<1> DEFINE a == GraphNode \ more
           b == GraphNode \ seen
<1>1. IsFiniteSet(b)
  BY FS_Difference, GraphBuildersAssumption
<1>2. a \in SUBSET b /\ (seen # more => a # b)
  OBVIOUS
<1> HIDE DEF a, b
<1>3. IsFiniteSet(a) /\ Cardinality(a) <= Cardinality(b) /\ (Cardinality(b) = Cardinality(a) => b = a)
  BY <1>1, <1>2, FS_Subset
<1>4. Cardinality(a) \in Nat /\ Cardinality(b) \in Nat
  BY <1>1, <1>3, FS_CardinalityType
<1> QED
  BY <1>2, <1>3, <1>4 DEF a, b

(* What the paths from a node do not reach is cut off from it: a set that    *)
(* contains the node, not the target, and every node that depends on it      *)
(* except those avoided.                                                     *)
LEMMA CutOff ==
  ASSUME GraphTyped, NEW from \in GraphNode, NEW to, NEW avoid,
         from \notin avoid, to # from, ~Reaches(from, to, avoid)
  PROVE  \E t \in SUBSET GraphNode : from \in t /\ to \notin t /\ Spread(t, avoid) = t
<1> DEFINE S == SUBSET GraphNode
           halt == {s \in S : Spread(s, avoid) = s}
           step == [s \in S |-> Spread(s, avoid)]
           val == [s \in S |-> s]
           grow[seen \in SUBSET GraphNode] ==
             IF Spread(seen, avoid) = seen THEN seen ELSE grow[Spread(seen, avoid)]
           I == {s \in S : from \in s}
           m1 == [s \in S |-> Cardinality(GraphNode \ s)]
           m2 == [s \in S |-> 0]
<1>1. \A s \in S : Spread(s, avoid) \in S /\ s \subseteq Spread(s, avoid)
  BY DeclaredType DEF Spread
<1>2. halt \in SUBSET S /\ step \in [S -> S] /\ \A s \in S : step[s] = Spread(s, avoid)
  BY <1>1
<1>3. \E g : Recursive(S, halt, step, val, g)
  <2> HIDE DEF halt, step, val, S
  <2> QED
    BY <1>2, TailRecursion
<1>4. \A g : Recursive(S, halt, step, val, g)
           <=> g = [s \in S |-> IF Spread(s, avoid) = s THEN s ELSE g[Spread(s, avoid)]]
  BY DEF Recursive
<1>5. \E g : g = [s \in S |-> IF Spread(s, avoid) = s THEN s ELSE g[Spread(s, avoid)]]
  BY <1>3, <1>4
<1>6. grow = [s \in S |-> IF Spread(s, avoid) = s THEN s ELSE grow[Spread(s, avoid)]]
  BY <1>5
<1>7. to \notin grow[{from}]
  BY DEF Reaches
<1> HIDE DEF grow
<1>8. Recursive(S, halt, step, val, grow)
  BY <1>4, <1>6
<1>9. I \in SUBSET S /\ {from} \in I /\ \A s \in I \ halt : step[s] \in I
  BY <1>1
<1>10. m1 \in [S -> Nat] /\ m2 \in [S -> Nat]
  BY SmallerRest
<1>11. ASSUME NEW s \in I \ halt PROVE m1[step[s]] < m1[s]
  <2>1. s \in S /\ step[s] \in S /\ step[s] # s /\ s \subseteq step[s]
    BY <1>1
  <2>2. m1[step[s]] = Cardinality(GraphNode \ step[s]) /\ m1[s] = Cardinality(GraphNode \ s)
    BY <2>1
  <2> QED
    BY <2>1, <2>2, SmallerRest
<1>12. \A s \in I : \E t \in I \cap halt : grow[s] = val[t]
  <2> HIDE DEF halt, step, val, S, m1, m2, I
  <2> QED
    BY <1>2, <1>8, <1>9, <1>10, <1>11, SearchEnds
<1>13. PICK t \in I \cap halt : grow[{from}] = val[t]
  BY <1>9, <1>12
<1> QED
  BY <1>7, <1>13

(* ord is a topological order of the graph. *)
Orders(ord) ==
    /\ ord \in [GraphNode -> Nat]
    /\ \A n \in Declared : \A d \in Values(edges[n]) : d \in Declared /\ ord[d] < ord[n]

LEMMA ClimbType ==
  ASSUME GraphTyped, NEW s \in Search, ~Ended(s)
  PROVE  /\ s.queue # <<>> /\ Climbed(s) \in Search
         /\ s.seen \subseteq Climbed(s).seen
         /\ Climbed(s).seen = s.seen => Len(Climbed(s).queue) < Len(s.queue)
         /\ Len(Climbed(s).queue) \in Nat /\ Len(s.queue) \in Nat
         /\ Values(Climbed(s).queue) \subseteq Values(s.queue) \cup Values(edges[Head(s.queue)])
<1> DEFINE q == s.queue
           n == Head(q)
<1>1. q \in Seq(GraphNode) /\ s.seen \in SUBSET GraphNode /\ q # <<>>
  BY DEF Search, Ended
<1>2. /\ Tail(q) \in Seq(GraphNode) /\ n \in GraphNode /\ Len(Tail(q)) = Len(q) - 1
      /\ Len(q) \in Nat /\ Values(Tail(q)) \subseteq Values(q)
  BY <1>1, ValuesHeadTail
<1>3. edges[n] \in Seq(GraphNode)
  BY <1>2 DEF GraphTyped
<1> DEFINE long == Tail(q) \o edges[n]
           new == IF n \in s.seen THEN Tail(q) ELSE long
<1>4. long \in Seq(GraphNode) /\ Values(long) \subseteq Values(q) \cup Values(edges[n])
  <2> HIDE DEF q, n
  <2>1. Values(Tail(q) \o edges[n]) = Values(Tail(q)) \cup Values(edges[n])
        /\ Tail(q) \o edges[n] \in Seq(GraphNode)
    BY <1>2, <1>3, ValuesConcat
  <2> QED
    BY <1>2, <2>1
<1>51. Climbed(s) = [queue |-> new, seen |-> s.seen \cup {n}]
  BY Zenon DEF Climbed
<1>5. Climbed(s).queue = new /\ Climbed(s).seen = s.seen \cup {n}
  <2> HIDE DEF new, n
  <2> QED
    BY <1>51
<1> HIDE DEF q, n, long
<1>6. Len(Tail(q)) \in Nat /\ Len(long) \in Nat
  BY <1>2, <1>4, ValuesType
<1>7. Climbed(s) \in Search
  BY <1>1, <1>2, <1>4, <1>51 DEF Search
<1> QED
  BY <1>1, <1>2, <1>4, <1>5, <1>6, <1>7 DEF q, n

LEMMA FoundType ==
  ASSUME GraphTyped, NEW s \in Search, Ended(s), s.queue # <<>>
  PROVE  Found(s).choice \in Values(edges[Head(s.queue)]) /\ Head(s.queue) \in Values(s.queue)
<1> DEFINE n == Head(s.queue)
           C == ChoicesAt(n)
           i == CHOOSE k \in C : \A j \in C : k <= j
<1>1. s.queue \in Seq(GraphNode) /\ C # {}
  BY DEF Search, Ended
<1>2. n \in GraphNode /\ n \in Values(s.queue)
  BY <1>1, ValuesHeadTail
<1>3. edges[n] \in Seq(GraphNode) /\ DOMAIN edges[n] = 1..Len(edges[n]) /\ Len(edges[n]) \in Nat
  BY <1>2, ValuesType DEF GraphTyped
<1>4. C \in SUBSET Nat
  BY <1>3 DEF ChoicesAt
<1>5. \E k \in C : \A j \in C : k <= j
  BY <1>1, <1>4, LowestExists
<1>6. Found(s).choice = edges[n][i]
  BY DEF Found
<1> HIDE DEF i
<1>7. i \in C
  <2> HIDE DEF C
  <2> QED
    BY <1>5, Zenon DEF i
<1>8. edges[n][i] \in Values(edges[n])
  BY <1>7 DEF ChoicesAt, Values
<1> QED
  BY <1>2, <1>6, <1>8

(* The choice that nearestBranch finds above a node comes before it in every *)
(* topological order: an edge to it closes no cycle.                         *)
LEMMA BranchAbove ==
  ASSUME GraphTyped, NEW ord, Orders(ord), NEW n \in Declared, NearestBranch(n) # NoBranch
  PROVE  NearestBranch(n).choice \in Declared /\ ord[NearestBranch(n).choice] < ord[n]
<1> DEFINE halt == {s \in Search : Ended(s)}
           step == [s \in Search |-> IF Ended(s) THEN s ELSE Climbed(s)]
           val == [s \in Search |-> Found(s)]
           climb[s \in Search] == IF Ended(s) THEN Found(s) ELSE climb[Climbed(s)]
           I == {s \in Search : \A x \in Values(s.queue) : x \in Declared /\ ord[x] <= ord[n]}
           m1 == [s \in Search |-> Cardinality(GraphNode \ s.seen)]
           m2 == [s \in Search |-> Len(s.queue)]
           start == [queue |-> <<n>>, seen |-> {}]
<1>1. Declared \subseteq GraphNode /\ n \in GraphNode
  BY DeclaredType
<1>2. halt \in SUBSET Search /\ step \in [Search -> Search]
  BY ClimbType
<1>3. \E g : Recursive(Search, halt, step, val, g)
  <2> HIDE DEF halt, step, val
  <2> QED
    BY <1>2, TailRecursion
<1>4. \A g : Recursive(Search, halt, step, val, g)
           <=> g = [s \in Search |-> IF Ended(s) THEN Found(s) ELSE g[Climbed(s)]]
  BY DEF Recursive
<1>5. \E g : g = [s \in Search |-> IF Ended(s) THEN Found(s) ELSE g[Climbed(s)]]
  BY <1>3, <1>4
<1>6. climb = [s \in Search |-> IF Ended(s) THEN Found(s) ELSE climb[Climbed(s)]]
  BY <1>5
<1>7. NearestBranch(n) = climb[start]
  BY DEF NearestBranch
<1> HIDE DEF climb
<1>8. Recursive(Search, halt, step, val, climb)
  BY <1>4, <1>6
<1>9. start \in I
  <2>1. start \in Search /\ Values(start.queue) = {n}
    BY <1>1, ValuesSingle DEF Search
  <2>2. ord[n] \in Nat
    BY <1>1 DEF Orders
  <2> QED
    BY <2>1, <2>2
<1>10. ASSUME NEW s \in I \ halt PROVE step[s] \in I
  <2>1. s \in Search /\ ~Ended(s) /\ step[s] = Climbed(s)
    OBVIOUS
  <2>2. /\ Climbed(s) \in Search /\ s.queue # <<>>
        /\ Values(Climbed(s).queue) \subseteq Values(s.queue) \cup Values(edges[Head(s.queue)])
    BY <2>1, ClimbType
  <2> DEFINE h == Head(s.queue)
  <2>3. s.queue \in Seq(GraphNode)
    BY <2>1 DEF Search
  <2>4. h \in Values(s.queue)
    BY <2>2, <2>3, ValuesHeadTail
  <2>5. h \in Declared /\ ord[h] <= ord[n]
    BY <2>4
  <2> HIDE DEF h
  <2>6. ASSUME NEW x \in Values(edges[h]) PROVE x \in Declared /\ ord[x] <= ord[n]
    <3>1. x \in Declared /\ ord[x] < ord[h]
      BY <2>5 DEF Orders
    <3>2. ord[x] \in Nat /\ ord[h] \in Nat /\ ord[n] \in Nat
      BY <1>1, <2>5, <3>1 DEF Orders
    <3> QED
      BY <2>5, <3>1, <3>2
  <2> QED
    BY <2>1, <2>2, <2>6 DEF h
<1>11. m1 \in [Search -> Nat] /\ m2 \in [Search -> Nat]
  <2>1. \A s \in Search : s.seen \in SUBSET GraphNode /\ s.queue \in Seq(GraphNode)
    BY DEF Search
  <2>2. \A s \in Search : Cardinality(GraphNode \ s.seen) \in Nat /\ Len(s.queue) \in Nat
    BY <2>1, SmallerRest, ValuesType
  <2> QED
    BY <2>2
<1>12. ASSUME NEW s \in I \ halt
       PROVE  m1[step[s]] < m1[s] \/ (m1[step[s]] = m1[s] /\ m2[step[s]] < m2[s])
  <2>1. s \in Search /\ ~Ended(s) /\ step[s] = Climbed(s)
    OBVIOUS
  <2> DEFINE u == Climbed(s)
  <2>2. /\ u \in Search /\ s.seen \subseteq u.seen
        /\ u.seen = s.seen => Len(u.queue) < Len(s.queue)
    BY <2>1, ClimbType
  <2>3. u.seen \in SUBSET GraphNode /\ s.seen \in SUBSET GraphNode
    BY <2>1, <2>2 DEF Search
  <2> HIDE DEF u
  <2>4. u.seen # s.seen => Cardinality(GraphNode \ u.seen) < Cardinality(GraphNode \ s.seen)
    BY <2>2, <2>3, SmallerRest
  <2>5. /\ m1[u] = Cardinality(GraphNode \ u.seen) /\ m1[s] = Cardinality(GraphNode \ s.seen)
        /\ m2[u] = Len(u.queue) /\ m2[s] = Len(s.queue)
    BY <2>1, <2>2
  <2> HIDE DEF m1, m2, step
  <2>6. step[s] = u
    BY <2>1 DEF u
  <2> QED
    BY <2>2, <2>4, <2>5, <2>6
<1>13. \A s \in I : \E t \in I \cap halt : climb[s] = val[t]
  <2>1. I \in SUBSET Search
    OBVIOUS
  <2> HIDE DEF halt, step, val, m1, m2, I
  <2> QED
    BY <1>2, <1>8, <1>10, <1>11, <1>12, <2>1, SearchEnds
<1>14. PICK t \in I \cap halt : climb[start] = val[t]
  BY <1>9, <1>13
<1>15. t \in Search /\ Ended(t) /\ NearestBranch(n) = Found(t)
  BY <1>7, <1>14
<1>16. t.queue # <<>>
  BY <1>15 DEF Found
<1> DEFINE h == Head(t.queue)
           c == Found(t).choice
<1>17. c \in Values(edges[h]) /\ h \in Values(t.queue)
  BY <1>15, <1>16, FoundType
<1>18. h \in Declared /\ ord[h] <= ord[n]
  BY <1>17
<1> HIDE DEF h, c
<1>19. c \in Declared /\ ord[c] < ord[h]
  BY <1>17, <1>18 DEF Orders
<1>20. ord[c] \in Nat /\ ord[h] \in Nat /\ ord[n] \in Nat
  BY <1>1, <1>18, <1>19 DEF Orders
<1> QED
  BY <1>15, <1>18, <1>19, <1>20 DEF c


---------------------------------------------------------------------------
(* The inductive invariant *)

Frame == [node : GraphNode, left : Seq(GraphNode)]

(* GrTypeOK, with the builder and the trail. *)
GrShape ==
    /\ GrTypeOK /\ builder \in BuilderType
    /\ trail \in Seq(Frame)

(* Past the fold every dependency is a node of the graph, and the choices    *)
(* and the tails of a node are among its dependencies.                       *)
EdgesCover ==
    gpc \notin {"wire", "refused"} =>
        /\ \A n \in GraphNode : Values(builder.routes[n]) \cup TailsOf(n) \subseteq Values(edges[n])
        /\ \A n \in Declared : Values(edges[n]) \subseteq Declared
        /\ \A n \in GraphNode \ Declared : edges[n] = <<>>

OnTrail == {trail[i].node : i \in DOMAIN trail}

(* detectCycle has ordered what it is through with, below K: a dependency of *)
(* a node on the trail is still to be visited, is in that order, or is the   *)
(* node next on the trail.                                                   *)
Explored(ord, K) ==
    /\ OnTrail \subseteq visited /\ visited \subseteq Declared
    /\ \A i, j \in DOMAIN trail : trail[i].node = trail[j].node => i = j
    /\ \A n \in visited \ OnTrail : /\ ord[n] < K
                                    /\ \A d \in Values(edges[n]) : d \in visited \ OnTrail /\ ord[d] < ord[n]
    /\ \A i \in DOMAIN trail :
          /\ Values(trail[i].left) \subseteq Values(edges[trail[i].node])
          /\ \A d \in Values(edges[trail[i].node]) :
                \/ d \in Values(trail[i].left) \/ d \in visited \ OnTrail
                \/ i > 1 /\ d = trail[i - 1].node

Exploring ==
    /\ gpc = "wire" => visited = {} /\ trail = <<>>
    /\ gpc = "cycle" => \E ord \in [GraphNode -> Nat] : \E K \in Nat : Explored(ord, K)

(* There is a topological order, the edges from merges to choices included.  *)
Acyclic == gpc \in {"converge", "bound", "levels"} => \E ord : Orders(ord)

Awaits(m, P) == {i \in DOMAIN edges[m] : edges[m][i] \notin P}

(* GetLevels has placed P: a node's in-degree counts its dependencies        *)
(* outside P, and P is ranked.                                               *)
Placed(P) ==
    /\ ready \cap P = {} /\ ready \subseteq Declared
    /\ \A m \in GraphNode : degree[m] = Cardinality(Awaits(m, P))
    /\ \A m \in Declared : degree[m] = 0 <=> m \in P \cup ready
    /\ \A m \in Declared : \A d \in P \cap Values(edges[m]) : rank[d] < rank[m]

Placing == gpc = "levels" => \E P \in SUBSET Declared : Placed(P)

Ranked == gpc \in {"run", "over"} => \A n \in Declared : \A d \in Values(edges[n]) : rank[d] < rank[n]

(* What was invoked has settled, after its dependencies. *)
RunSettles ==
    /\ gpc \notin {"run", "over"} => invoked = {} /\ \A n \in GraphNode : settled[n] = "pending"
    /\ invoked \subseteq Declared
    /\ \A n \in GraphNode : n \in invoked <=> settled[n] \in {"ok", "failed"}
    /\ \A n \in invoked : \A d \in Values(edges[n]) : settled[d] # "pending"

(* S is what a run can reach without the verifier of b; nothing else of the  *)
(* graph but the verifier is invoked before the verifier has succeeded.      *)
Separates(b, S) ==
    /\ b.sink \notin S /\ Roots \ {b.verifier} \subseteq S
    /\ \A n \in Declared \ {b.verifier} : Values(edges[n]) \cap S # {} => n \in S

Guarded(b) ==
    /\ {b.verifier, b.sink} \subseteq Declared /\ b.verifier \notin builder.tolerant /\ b.verifier # b.sink
    /\ ~Opaque(held[b.verifier]) /\ ~Opaque(held[b.sink])
    /\ \E S \in SUBSET GraphNode :
          /\ Separates(b, S)
          /\ \A n \in invoked \ (S \cup {b.verifier}) : settled[b.verifier] = "ok"

BoundariesGuarded == gpc \in {"levels", "run", "over"} => \A b \in builder.bounds : Guarded(b)

GrInv == GrShape /\ EdgesCover /\ Exploring /\ Acyclic /\ Placing /\ Ranked /\ RunSettles /\ BoundariesGuarded

LEMMA GrInvTyped == ASSUME GrShape PROVE GraphTyped /\ Declared \subseteq GraphNode
<1>1. GraphTyped
  BY DEF GrShape, GrTypeOK, GraphTyped
<1> QED
  BY <1>1, DeclaredType

LEMMA GrInvInit == GrInit => GrInv
<1> SUFFICES ASSUME GrInit PROVE GrInv
  OBVIOUS
<1>1. GrShape
  BY GraphBuildersAssumption DEF GrInit, GrShape, GrTypeOK, Frame
<1> QED
  BY <1>1 DEF GrInit, GrInv, EdgesCover, Exploring, Acyclic, Placing, Ranked, RunSettles, BoundariesGuarded

---------------------------------------------------------------------------
(* The steps of Build *)

LEMMA WireKeeps == ASSUME GrInv, WireGraph PROVE GrInv'
<1> USE DEF GrInv
<1>0. GraphTyped /\ Declared \subseteq GraphNode
  BY GrInvTyped
<1>1. CASE ~WellDeclared
  BY <1>1 DEF WireGraph, GrShape, GrTypeOK, EdgesCover, Exploring, Acyclic, Placing, Ranked, RunSettles,
     BoundariesGuarded
<1>2. CASE WellDeclared
  <2>1. /\ gpc = "wire" /\ gpc' = "cycle" /\ edges' = [n \in GraphNode |-> Wired(n)]
        /\ UNCHANGED <<builder, visited, trail, degree, ready, rank, held, settled, invoked>>
    BY <1>2 DEF WireGraph
  <2>2. \A n \in GraphNode : /\ Wired(n) \in Seq(GraphNode)
                            /\ Values(builder.routes[n]) \cup TailsOf(n) \subseteq Values(Wired(n))
    <3> SUFFICES ASSUME NEW n \in GraphNode
                 PROVE  /\ Wired(n) \in Seq(GraphNode)
                        /\ Values(builder.routes[n]) \cup TailsOf(n) \subseteq Values(Wired(n))
      OBVIOUS
    <3>1. builder.deps[n] \in Seq(GraphNode) /\ builder.routes[n] \in Seq(GraphNode)
          /\ builder.joins[n] \in Seq(GraphNode)
      BY DEF GrShape, BuilderType
    <3> DEFINE a == builder.deps[n]
               b == builder.routes[n]
               c == builder.joins[n]
    <3>2. Wired(n) = (a \o b) \o c /\ TailsOf(n) = Values(c)
      BY DEF Wired, TailsOf
    <3> HIDE DEF a, b, c
    <3>3. a \o b \in Seq(GraphNode) /\ Values(a \o b) = Values(a) \cup Values(b)
      BY <3>1, ValuesConcat DEF a, b
    <3>4. (a \o b) \o c \in Seq(GraphNode) /\ Values((a \o b) \o c) = Values(a \o b) \cup Values(c)
      <4>1. c \in Seq(GraphNode)
        BY <3>1 DEF c
      <4> DEFINE ab == a \o b
      <4>2. ab \in Seq(GraphNode)
        BY <3>3
      <4> HIDE DEF ab
      <4>3. ab \o c \in Seq(GraphNode) /\ Values(ab \o c) = Values(ab) \cup Values(c)
        BY <4>1, <4>2, ValuesConcat
      <4> QED
        BY <4>3 DEF ab
    <3> QED
      BY <3>2, <3>3, <3>4 DEF b
  <2>3. GrShape'
    BY <2>1, <2>2 DEF GrShape, GrTypeOK
  <2>4. EdgesCover'
    <3>1. \A n \in GraphNode : edges'[n] = Wired(n)
      BY <2>1
    <3>2. ASSUME NEW n \in GraphNode \ Declared PROVE Wired(n) = <<>>
      BY <1>2 DEF WellDeclared
    <3>3. ASSUME NEW n \in Declared PROVE Values(Wired(n)) \subseteq Declared
      BY <1>2 DEF WellDeclared
    <3> QED
      BY <1>0, <2>1, <2>2, <3>1, <3>2, <3>3 DEF EdgesCover, TailsOf, Declared
  <2>5. Exploring'
    <3>1. visited' = {} /\ trail' = <<>>
      BY <2>1 DEF Exploring
    <3>2. OnTrail' = {}
      BY <3>1 DEF OnTrail
    <3> DEFINE ord == [n \in GraphNode |-> 0]
    <3>3. ord \in [GraphNode -> Nat] /\ 0 \in Nat
      OBVIOUS
    <3>4. Explored(ord, 0)'
      BY <3>1, <3>2 DEF Explored
    <3> HIDE DEF ord
    <3> QED
      BY <2>1, <3>3, <3>4 DEF Exploring
  <2>6. RunSettles'
    BY <2>1 DEF RunSettles
  <2> QED
    BY <2>1, <2>3, <2>4, <2>5, <2>6 DEF Acyclic, Placing, Ranked, BoundariesGuarded
<1> QED
  BY <1>1, <1>2


LEMMA ConsSeq ==
  ASSUME NEW X, NEW x \in X, NEW s \in Seq(X)
  PROVE  /\ <<x>> \o s \in Seq(X) /\ DOMAIN (<<x>> \o s) = 1..Len(s) + 1 /\ Len(s) \in Nat
         /\ Len(<<x>> \o s) = Len(s) + 1
         /\ (<<x>> \o s)[1] = x /\ \A i \in 2..Len(s) + 1 : (<<x>> \o s)[i] = s[i - 1]
<1>1. <<x>> \in Seq(X) /\ Len(<<x>>) = 1 /\ <<x>>[1] = x
  OBVIOUS
<1>2. /\ <<x>> \o s \in Seq(X) /\ Len(<<x>> \o s) = 1 + Len(s) /\ Len(s) \in Nat
      /\ \A i \in 1..1 + Len(s) : (<<x>> \o s)[i] = IF i <= 1 THEN <<x>>[i] ELSE s[i - 1]
  BY <1>1
<1> DEFINE c == <<x>> \o s
<1> HIDE DEF c
<1>3. c \in Seq(X) /\ Len(c) = 1 + Len(s) /\ Len(s) \in Nat
  BY <1>2 DEF c
<1>4. DOMAIN c = 1..Len(s) + 1
  BY <1>3
<1> QED
  BY <1>1, <1>2, <1>3, <1>4 DEF c

(* The trail of a search that goes on: its frames by their place. *)
LEMMA TrailTyped ==
  ASSUME GrShape, trail # <<>>
  PROVE  /\ DOMAIN trail = 1..Len(trail) /\ Len(trail) \in Nat \ {0}
         /\ Head(trail) = trail[1] /\ trail[1] \in Frame
         /\ Tail(trail) \in Seq(Frame) /\ Len(Tail(trail)) = Len(trail) - 1
         /\ DOMAIN Tail(trail) = 1..Len(trail) - 1
         /\ \A i \in 1..Len(trail) - 1 : Tail(trail)[i] = trail[i + 1]
         /\ \A i \in 1..Len(trail) : trail[i].node \in GraphNode /\ trail[i].left \in Seq(GraphNode)
<1>1. trail \in Seq(Frame)
  BY DEF GrShape
<1>2. /\ Len(trail) \in Nat \ {0} /\ Head(trail) = trail[1] /\ Len(Tail(trail)) = Len(trail) - 1
      /\ Tail(trail) \in Seq(Frame)
      /\ \A i \in 1..Len(trail) - 1 : Tail(trail)[i] = trail[i + 1]
  BY <1>1
<1>3. DOMAIN trail = 1..Len(trail) /\ DOMAIN Tail(trail) = 1..Len(trail) - 1
  BY <1>1, <1>2
<1>4. \A i \in 1..Len(trail) : trail[i] \in Frame
  BY <1>1
<1> QED
  BY <1>2, <1>3, <1>4 DEF Frame

Advanced == <<[Head(trail) EXCEPT !.left = Tail(@)]>> \o Tail(trail)

LEMMA AdvancedTyped ==
  ASSUME GrShape, trail # <<>>, Head(trail).left # <<>>
  PROVE  /\ Advanced \in Seq(Frame) /\ Len(Advanced) = Len(trail) /\ DOMAIN Advanced = 1..Len(trail)
         /\ Advanced[1].node = trail[1].node
         /\ Values(trail[1].left) = {Head(trail[1].left)} \cup Values(Advanced[1].left)
         /\ \A i \in 2..Len(trail) : Advanced[i] = trail[i]
         /\ Head(trail[1].left) \in GraphNode
<1> DEFINE top == trail[1]
           adv == [top EXCEPT !.left = Tail(top.left)]
<1>1. /\ Head(trail) = top /\ top \in Frame /\ Tail(trail) \in Seq(Frame) /\ Len(trail) \in Nat \ {0}
      /\ Len(Tail(trail)) = Len(trail) - 1
      /\ \A i \in 1..Len(trail) - 1 : Tail(trail)[i] = trail[i + 1]
  BY TrailTyped
<1>2. top.left \in Seq(GraphNode) /\ top.left # <<>> /\ top.node \in GraphNode
  BY <1>1 DEF Frame
<1>3. /\ Tail(top.left) \in Seq(GraphNode) /\ Head(top.left) \in GraphNode
      /\ Values(top.left) = {Head(top.left)} \cup Values(Tail(top.left))
  BY <1>2, ValuesHeadTail
<1>5. adv \in Frame /\ adv.node = top.node /\ adv.left = Tail(top.left)
  <2> HIDE DEF top
  <2> QED
    BY <1>1, <1>2, <1>3 DEF Frame
<1>6. Advanced = <<adv>> \o Tail(trail)
  BY <1>1 DEF Advanced
<1> DEFINE t == Tail(trail)
<1>7. t \in Seq(Frame) /\ Len(t) = Len(trail) - 1 /\ \A i \in 1..Len(trail) - 1 : t[i] = trail[i + 1]
  BY <1>1
<1> HIDE DEF adv, t, top
<1>8. /\ Advanced \in Seq(Frame) /\ DOMAIN Advanced = 1..Len(t) + 1 /\ Len(Advanced) = Len(t) + 1
      /\ Advanced[1] = adv /\ \A i \in 2..Len(t) + 1 : Advanced[i] = t[i - 1]
  BY <1>5, <1>6, <1>7, ConsSeq DEF t
<1>9. ASSUME NEW i \in 2..Len(trail) PROVE Advanced[i] = trail[i]
  <2>1. i \in 2..Len(t) + 1 /\ i - 1 \in 1..Len(trail) - 1 /\ (i - 1) + 1 = i
    BY <1>1, <1>7
  <2> QED
    BY <1>7, <1>8, <2>1
<1> QED
  BY <1>1, <1>3, <1>5, <1>7, <1>8, <1>9 DEF top

(* A node whose dependencies are all in the order is put on top of it. *)
LEMMA TrailPops ==
  ASSUME GrShape, trail # <<>>, Head(trail).left = <<>>, trail' = Tail(trail),
         UNCHANGED <<builder, edges, visited>>,
         NEW ord \in [GraphNode -> Nat], NEW K \in Nat, Explored(ord, K)
  PROVE  \E o \in [GraphNode -> Nat] : \E L \in Nat : Explored(o, L)'
<1>0. PICK x : x = trail[1].node
  OBVIOUS
<1>00. PICK o : o = [ord EXCEPT ![x] = K]
  OBVIOUS
<1> DEFINE n == Len(trail)
           done == visited \ OnTrail
<1>1. /\ DOMAIN trail = 1..n /\ n \in Nat \ {0} /\ trail[1].left = <<>> /\ x \in GraphNode
      /\ DOMAIN trail' = 1..n - 1 /\ \A i \in 1..n - 1 : trail'[i] = trail[i + 1]
  BY <1>0, TrailTyped
<1>2. o \in [GraphNode -> Nat] /\ K + 1 \in Nat /\ o[x] = K
  BY <1>00, <1>1
<1> HIDE DEF n
<1>3. \A i \in 1..n : trail[i].node = x => i = 1
  BY <1>0, <1>1 DEF Explored
<1>4. OnTrail' = OnTrail \ {x} /\ x \in OnTrail
  <2>1. OnTrail = {trail[i].node : i \in 1..n}
    BY <1>1 DEF OnTrail
  <2>2. OnTrail' = {trail[i + 1].node : i \in 1..n - 1}
    BY <1>1 DEF OnTrail
  <2>3. ASSUME NEW i \in 1..n - 1 PROVE trail[i + 1].node \in OnTrail \ {x}
    BY <1>1, <1>3, <2>1
  <2>4. ASSUME NEW i \in 1..n, i # 1 PROVE trail[i].node \in OnTrail'
    <3>1. i - 1 \in 1..n - 1 /\ (i - 1) + 1 = i
      BY <1>1, <2>4
    <3> QED
      BY <2>2, <3>1
  <2>5. 1 \in 1..n
    BY <1>1
  <2> QED
    BY <1>0, <2>1, <2>2, <2>3, <2>4, <2>5
<1>5. x \in visited /\ (visited \ OnTrail)' = done \cup {x} /\ x \notin done
  <2>1. x \in visited
    BY <1>4 DEF Explored
  <2> QED
    BY <1>4, <2>1
<1>6. \A d \in Values(edges[x]) : d \in done
  <2>1. 1 \in DOMAIN trail /\ Values(trail[1].left) = {} /\ ~(1 > 1)
    BY <1>1, ValuesNone
  <2>2. \A d \in Values(edges[trail[1].node]) :
           d \in Values(trail[1].left) \/ d \in visited \ OnTrail \/ (1 > 1 /\ d = trail[1 - 1].node)
    BY <2>1 DEF Explored
  <2> QED
    BY <1>0, <2>1, <2>2
<1>7. done \subseteq GraphNode
  BY GrInvTyped DEF Explored
<1>8. \A d \in done : o[d] = ord[d] /\ ord[d] < K /\ ord[d] \in Nat
  BY <1>00, <1>5, <1>7 DEF Explored
<1>9. ASSUME NEW m \in done \cup {x}
      PROVE  o[m] < K + 1 /\ \A d \in Values(edges[m]) : d \in done \cup {x} /\ o[d] < o[m]
  <2>1. CASE m = x
    BY <1>2, <1>6, <1>8, <2>1
  <2>2. CASE m \in done
    <3>1. \A d \in Values(edges[m]) : d \in done /\ ord[d] < ord[m]
      BY <2>2 DEF Explored
    <3> QED
      BY <1>8, <2>2, <3>1
  <2> QED
    BY <2>1, <2>2
<1>10. ASSUME NEW i \in 1..n - 1
       PROVE  /\ Values(trail'[i].left) \subseteq Values(edges[trail'[i].node])
              /\ \A d \in Values(edges[trail'[i].node]) :
                    \/ d \in Values(trail'[i].left) \/ d \in done \cup {x}
                    \/ i > 1 /\ d = trail'[i - 1].node
  <2>1. i + 1 \in 1..n /\ trail'[i] = trail[i + 1] /\ (i + 1) - 1 = i
    BY <1>1
  <2>2. /\ Values(trail[i + 1].left) \subseteq Values(edges[trail[i + 1].node])
        /\ \A d \in Values(edges[trail[i + 1].node]) :
              d \in Values(trail[i + 1].left) \/ d \in done \/ d = trail[i].node
    BY <1>1, <2>1 DEF Explored
  <2>3. i > 1 => trail'[i - 1] = trail[i]
    <3>1. i > 1 => i - 1 \in 1..n - 1 /\ (i - 1) + 1 = i
      BY <1>1
    <3> QED
      BY <1>1, <3>1
  <2>4. i > 1 \/ i = 1
    BY <1>1
  <2> QED
    BY <1>0, <2>1, <2>2, <2>3, <2>4
<1>11. ASSUME NEW i \in 1..n - 1, NEW j \in 1..n - 1, trail'[i].node = trail'[j].node PROVE i = j
  <2>1. i + 1 \in 1..n /\ j + 1 \in 1..n
    BY <1>1
  <2>2. i + 1 = j + 1
    BY <1>1, <1>11, <2>1 DEF Explored
  <2> QED
    BY <2>2
<1>12. OnTrail' \subseteq visited' /\ visited' \subseteq Declared'
  BY <1>4 DEF Explored, Declared
<1> HIDE DEF done
<1>13. Explored(o, K + 1)'
  BY <1>1, <1>5, <1>9, <1>10, <1>11, <1>12 DEF Explored
<1> QED
  BY <1>2, <1>13

(* The next dependency is in the order already. *)
LEMMA TrailAdvances ==
  ASSUME GrShape, trail # <<>>, Head(trail).left # <<>>, trail' = Advanced,
         Head(Head(trail).left) \in visited \ OnTrail,
         UNCHANGED <<builder, edges, visited>>,
         NEW ord \in [GraphNode -> Nat], NEW K \in Nat, Explored(ord, K)
  PROVE  Explored(ord, K)'
<1> DEFINE n == Len(trail)
           done == visited \ OnTrail
<1>1. /\ DOMAIN trail = 1..n /\ n \in Nat \ {0} /\ Head(trail) = trail[1]
      /\ DOMAIN trail' = 1..n /\ trail'[1].node = trail[1].node
      /\ Values(trail[1].left) = {Head(trail[1].left)} \cup Values(trail'[1].left)
      /\ \A i \in 2..n : trail'[i] = trail[i]
  BY TrailTyped, AdvancedTyped
<1> HIDE DEF n
<1>2. \A i \in 1..n : trail'[i].node = trail[i].node
  BY <1>1
<1>3. OnTrail' = OnTrail /\ (visited \ OnTrail)' = done
  BY <1>1, <1>2 DEF OnTrail
<1>4. ASSUME NEW i \in 1..n
      PROVE  /\ Values(trail'[i].left) \subseteq Values(trail[i].left)
             /\ \A d \in Values(trail[i].left) : d \in Values(trail'[i].left) \/ d \in done
  BY <1>1
<1>5. \A i \in 1..n : i > 1 => trail'[i - 1].node = trail[i - 1].node
  BY <1>1, <1>2
<1>6. /\ OnTrail \subseteq visited /\ visited \subseteq Declared
      /\ \A i, j \in 1..n : trail[i].node = trail[j].node => i = j
      /\ \A m \in done : ord[m] < K /\ \A d \in Values(edges[m]) : d \in done /\ ord[d] < ord[m]
      /\ \A i \in 1..n : /\ Values(trail[i].left) \subseteq Values(edges[trail[i].node])
                         /\ \A d \in Values(edges[trail[i].node]) :
                               \/ d \in Values(trail[i].left) \/ d \in done
                               \/ i > 1 /\ d = trail[i - 1].node
  BY <1>1 DEF Explored
<1>7. visited' \subseteq Declared' /\ OnTrail' \subseteq visited'
  BY <1>3, <1>6 DEF Declared
<1> HIDE DEF done
<1>8. ASSUME NEW i \in 1..n
      PROVE  /\ Values(trail'[i].left) \subseteq Values(edges'[trail'[i].node])
             /\ \A d \in Values(edges'[trail'[i].node]) :
                   \/ d \in Values(trail'[i].left) \/ d \in done
                   \/ i > 1 /\ d = trail'[i - 1].node
  BY <1>2, <1>4, <1>5, <1>6
<1>9. \A i, j \in 1..n : trail'[i].node = trail'[j].node => i = j
  BY <1>2, <1>6
<1>10. \A m \in done : ord[m] < K /\ \A d \in Values(edges'[m]) : d \in done /\ ord[d] < ord[m]
  BY <1>6
<1> QED
  BY <1>1, <1>3, <1>7, <1>8, <1>9, <1>10 DEF Explored

(* The next dependency is new: it is visited before the search goes on. *)
LEMMA TrailPushes ==
  ASSUME GrShape, EdgesCover, gpc = "cycle", trail # <<>>, Head(trail).left # <<>>,
         Head(Head(trail).left) \notin visited,
         visited' = visited \cup {Head(Head(trail).left)},
         trail' = <<[node |-> Head(Head(trail).left), left |-> edges[Head(Head(trail).left)]]>> \o Advanced,
         UNCHANGED <<builder, edges>>,
         NEW ord \in [GraphNode -> Nat], NEW K \in Nat, Explored(ord, K)
  PROVE  Explored(ord, K)' /\ trail' \in Seq(Frame)
<1>0. PICK x : x = Head(Head(trail).left)
  OBVIOUS
<1> DEFINE n == Len(trail)
           done == visited \ OnTrail
           f == [node |-> x, left |-> edges[x]]
<1>1. /\ DOMAIN trail = 1..n /\ n \in Nat \ {0} /\ Head(trail) = trail[1] /\ x \in GraphNode
      /\ Advanced \in Seq(Frame) /\ Len(Advanced) = n /\ Advanced[1].node = trail[1].node
      /\ Values(trail[1].left) = {x} \cup Values(Advanced[1].left)
      /\ \A i \in 2..n : Advanced[i] = trail[i]
  BY <1>0, TrailTyped, AdvancedTyped
<1>2. f \in Frame /\ trail' = <<f>> \o Advanced /\ f.node = x /\ f.left = edges[x]
  BY <1>0, <1>1, GrInvTyped DEF GraphTyped, Frame
<1> HIDE DEF n, f
<1>3. /\ trail' \in Seq(Frame) /\ DOMAIN trail' = 1..n + 1 /\ trail'[1] = f
      /\ \A i \in 2..n + 1 : trail'[i] = Advanced[i - 1]
  BY <1>1, <1>2, ConsSeq
<1>4. ASSUME NEW i \in 1..n
      PROVE  /\ i + 1 \in 1..n + 1 /\ trail'[i + 1].node = trail[i].node
             /\ i > 1 => trail'[i + 1] = trail[i]
             /\ i = 1 => Values(trail[i].left) = {x} \cup Values(trail'[i + 1].left)
  <2>1. trail'[i + 1] = Advanced[i]
    BY <1>1, <1>3
  <2>2. i + 1 \in 1..n + 1 /\ (i = 1 \/ i \in 2..n) /\ (i > 1 => i \in 2..n)
    BY <1>1
  <2>3. Advanced[i].node = trail[i].node
    BY <1>1, <2>2
  <2> QED
    BY <1>1, <2>1, <2>2, <2>3
<1>5. \A j \in 1..n + 1 : j = 1 \/ \E i \in 1..n : j = i + 1
  <2>1. \A j \in 1..n + 1 : j = 1 \/ (j - 1 \in 1..n /\ j = (j - 1) + 1)
    BY <1>1
  <2> QED
    BY <2>1
<1>6. OnTrail' = OnTrail \cup {x}
  <2>1. OnTrail = {trail[i].node : i \in 1..n} /\ OnTrail' = {trail'[j].node : j \in 1..n + 1}
    BY <1>1, <1>3 DEF OnTrail
  <2>2. \A i \in 1..n : trail[i].node \in OnTrail'
    BY <1>4, <2>1
  <2>3. \A j \in 1..n + 1 : trail'[j].node \in OnTrail \cup {x}
    <3>1. \A i \in 1..n : trail'[i + 1].node \in OnTrail
      BY <1>4, <2>1
    <3>2. trail'[1].node = x
      BY <1>2, <1>3
    <3> QED
      BY <1>5, <3>1, <3>2
  <2>4. x \in OnTrail'
    BY <1>1, <1>2, <1>3, <2>1
  <2> QED
    BY <2>1, <2>2, <2>3, <2>4
<1>7. (visited \ OnTrail)' = done /\ x \notin OnTrail
  BY <1>0, <1>6 DEF Explored
<1>8. /\ OnTrail \subseteq visited /\ visited \subseteq Declared
      /\ \A i, j \in 1..n : trail[i].node = trail[j].node => i = j
      /\ \A m \in done : ord[m] < K /\ \A d \in Values(edges[m]) : d \in done /\ ord[d] < ord[m]
      /\ \A i \in 1..n : /\ Values(trail[i].left) \subseteq Values(edges[trail[i].node])
                         /\ \A d \in Values(edges[trail[i].node]) :
                               \/ d \in Values(trail[i].left) \/ d \in done
                               \/ i > 1 /\ d = trail[i - 1].node
  BY <1>1 DEF Explored
<1>9. \A i \in 1..n : trail[i].node \in OnTrail
  BY <1>1 DEF OnTrail
<1>10. visited' \subseteq Declared' /\ OnTrail' \subseteq visited'
  <2>1. 1 \in 1..n /\ trail[1].node \in Declared
    BY <1>1, <1>8, <1>9
  <2>2. x \in Values(edges[trail[1].node])
    BY <1>1, <1>8, <2>1
  <2>3. x \in Declared
    BY <2>1, <2>2 DEF EdgesCover
  <2> QED
    BY <1>0, <1>6, <1>8, <2>3 DEF Declared
<1> HIDE DEF done
<1>11. ASSUME NEW i \in 1..n + 1, NEW j \in 1..n + 1, trail'[i].node = trail'[j].node PROVE i = j
  <2>1. ASSUME NEW k \in 1..n PROVE trail'[k + 1].node # trail'[1].node
    BY <1>2, <1>3, <1>4, <1>7, <1>9
  <2>2. ASSUME NEW k \in 1..n, NEW l \in 1..n, trail'[k + 1].node = trail'[l + 1].node PROVE k = l
    BY <1>4, <1>8, <2>2
  <2> QED
    BY <1>5, <1>11, <2>1, <2>2
<1>12. ASSUME NEW j \in 1..n + 1
       PROVE  /\ Values(trail'[j].left) \subseteq Values(edges[trail'[j].node])
              /\ \A d \in Values(edges[trail'[j].node]) :
                    \/ d \in Values(trail'[j].left) \/ d \in done
                    \/ j > 1 /\ d = trail'[j - 1].node
  <2>1. CASE j = 1
    BY <1>2, <1>3, <2>1
  <2>2. ASSUME NEW i \in 1..n, j = i + 1
        PROVE  /\ Values(trail'[j].left) \subseteq Values(edges[trail'[j].node])
               /\ \A d \in Values(edges[trail'[j].node]) :
                     \/ d \in Values(trail'[j].left) \/ d \in done
                     \/ d = trail'[i].node
    <3>1. CASE i = 1
      <4>1. Values(trail[1].left) = {x} \cup Values(trail'[j].left) /\ trail'[j].node = trail[1].node
        BY <1>4, <2>2, <3>1
      <4>2. /\ Values(trail[1].left) \subseteq Values(edges[trail[1].node])
            /\ \A d \in Values(edges[trail[1].node]) : d \in Values(trail[1].left) \/ d \in done
        <5>1. ~(i > 1) /\ i = 1
          BY <3>1
        <5>2. /\ Values(trail[i].left) \subseteq Values(edges[trail[i].node])
              /\ \A d \in Values(edges[trail[i].node]) :
                    d \in Values(trail[i].left) \/ d \in done \/ (i > 1 /\ d = trail[i - 1].node)
          BY <1>8
        <5> QED
          BY <5>1, <5>2
      <4>3. trail'[i].node = x
        BY <1>2, <1>3, <3>1
      <4> QED
        BY <4>1, <4>2, <4>3
    <3>2. CASE i > 1
      <4>1. trail'[j] = trail[i]
        BY <1>4, <2>2, <3>2
      <4>2. i - 1 \in 1..n /\ (i - 1) + 1 = i
        BY <1>1, <3>2
      <4>3. trail'[i].node = trail[i - 1].node
        BY <1>4, <4>2
      <4> QED
        BY <1>8, <4>1, <4>3
    <3>3. i = 1 \/ i > 1
      BY <1>1
    <3> QED
      BY <3>1, <3>2, <3>3
  <2>3. \A i \in 1..n : j = i + 1 => j > 1 /\ j - 1 = i
    BY <1>1
  <2> QED
    BY <1>5, <2>1, <2>2, <2>3
<1>13. Explored(ord, K)'
  BY <1>3, <1>7, <1>8, <1>10, <1>11, <1>12 DEF Explored
<1> QED
  BY <1>3, <1>13

LEMMA DetectKeeps == ASSUME GrInv, DetectCycle PROVE GrInv'
<1>0. /\ GrShape /\ EdgesCover /\ Exploring /\ RunSettles /\ gpc = "cycle"
      /\ UNCHANGED <<builder, edges, degree, ready, rank, held, settled, invoked>>
      /\ GraphTyped /\ Declared \subseteq GraphNode
  BY GrInvTyped DEF GrInv, DetectCycle
<1>1. PICK ord \in [GraphNode -> Nat], K \in Nat : Explored(ord, K)
  BY <1>0 DEF Exploring
(* What follows from the new trail alone. *)
<1>2. ASSUME gpc' = "cycle", visited' \subseteq GraphNode, trail' \in Seq(Frame),
             \E o \in [GraphNode -> Nat] : \E L \in Nat : Explored(o, L)'
      PROVE  GrInv'
  <2>1. GrShape'
    BY <1>0, <1>2 DEF GrShape, GrTypeOK
  <2>2. EdgesCover' /\ RunSettles'
    BY <1>0, <1>2 DEF EdgesCover, RunSettles, Declared, TailsOf
  <2>3. Exploring'
    BY <1>2 DEF Exploring
  <2> QED
    BY <1>2, <2>1, <2>2, <2>3 DEF GrInv, Acyclic, Placing, Ranked, BoundariesGuarded
<1>3. CASE trail = <<>>
  <2>0. OnTrail = {}
    BY <1>3 DEF OnTrail
  <2>1. ASSUME NEW n \in Declared \ visited, visited' = visited \cup {n},
               trail' = <<[node |-> n, left |-> edges[n]]>>, UNCHANGED gpc
        PROVE  GrInv'
    <3>1. [node |-> n, left |-> edges[n]] \in Frame
      BY <1>0, <2>1 DEF GraphTyped, Frame
    <3>2. trail' \in Seq(Frame) /\ DOMAIN trail' = {1} /\ trail'[1] = [node |-> n, left |-> edges[n]]
      BY <2>1, <3>1
    <3>3. OnTrail' = {n} /\ (visited \ OnTrail)' = visited
      BY <2>0, <2>1, <3>2 DEF OnTrail
    <3>4. /\ visited' \subseteq Declared' /\ OnTrail' \subseteq visited'
      BY <1>0, <1>1, <2>1, <3>3 DEF Explored, Declared
    <3>5. \A m \in visited : ord[m] < K /\ \A d \in Values(edges[m]) : d \in visited /\ ord[d] < ord[m]
      BY <1>1, <2>0 DEF Explored
    <3>6. trail'[1].node = n /\ trail'[1].left = edges[n] /\ edges' = edges
      BY <1>0, <3>2
    <3>7. Explored(ord, K)'
      BY <3>2, <3>3, <3>4, <3>5, <3>6 DEF Explored
    <3>8. visited' \subseteq GraphNode
      BY <1>0, <2>1 DEF GrShape, GrTypeOK
    <3> QED
      BY <1>0, <1>2, <2>1, <3>2, <3>7, <3>8
  <2>2. CASE visited = Declared /\ gpc' = "converge" /\ UNCHANGED <<visited, trail>>
    <3>1. GrShape' /\ EdgesCover' /\ RunSettles'
      BY <1>0, <2>2 DEF GrShape, GrTypeOK, EdgesCover, RunSettles, Declared, TailsOf
    <3>2. Orders(ord)
      BY <1>1, <2>0, <2>2 DEF Explored, Orders
    <3>3. Orders(ord)'
      BY <1>0, <3>2 DEF Orders, Declared
    <3>4. Exploring' /\ Acyclic'
      BY <2>2, <3>3 DEF Exploring, Acyclic
    <3> QED
      BY <2>2, <3>1, <3>4 DEF GrInv, Placing, Ranked, BoundariesGuarded
  <2> QED
    BY <1>0, <1>3, <2>1, <2>2 DEF DetectCycle
<1>4. CASE trail # <<>>
  <2> DEFINE top == Head(trail)
             dep == Head(top.left)
  <2>1. \/ top.left = <<>> /\ trail' = Tail(trail) /\ UNCHANGED <<visited, gpc>>
        \/ /\ top.left # <<>> /\ dep \notin visited /\ visited' = visited \cup {dep} /\ UNCHANGED gpc
           /\ trail' = <<[node |-> dep, left |-> edges[dep]]>> \o Advanced
        \/ gpc' = "refused" /\ trail' = <<>> /\ UNCHANGED visited
        \/ /\ top.left # <<>> /\ dep \in visited /\ dep \notin {f.node : f \in Values(trail)}
           /\ trail' = Advanced /\ UNCHANGED <<visited, gpc>>
    BY <1>4, Zenon DEF DetectCycle, Advanced
  <2>2. CASE top.left = <<>> /\ trail' = Tail(trail) /\ UNCHANGED <<visited, gpc>>
    <3>1. \E o \in [GraphNode -> Nat] : \E L \in Nat : Explored(o, L)'
      BY <1>0, <1>1, <1>4, <2>2, TrailPops
    <3>2. visited' \subseteq GraphNode /\ trail' \in Seq(Frame)
      BY <1>0, <1>4, <2>2, TrailTyped DEF GrShape, GrTypeOK
    <3> QED
      BY <1>0, <1>2, <2>2, <3>1, <3>2
  <2>3. CASE /\ top.left # <<>> /\ dep \notin visited /\ visited' = visited \cup {dep} /\ UNCHANGED gpc
             /\ trail' = <<[node |-> dep, left |-> edges[dep]]>> \o Advanced
    <3>1. Explored(ord, K)' /\ trail' \in Seq(Frame)
      BY <1>0, <1>1, <1>4, <2>3, TrailPushes
    <3>2. dep \in GraphNode
      BY <1>0, <1>4, <2>3, TrailTyped, AdvancedTyped
    <3>3. visited' \subseteq GraphNode
      BY <1>0, <2>3, <3>2 DEF GrShape, GrTypeOK
    <3> QED
      BY <1>0, <1>2, <2>3, <3>1, <3>3
  <2>4. CASE gpc' = "refused" /\ trail' = <<>> /\ UNCHANGED visited
    BY <1>0, <2>4 DEF GrInv, GrShape, GrTypeOK, EdgesCover, Exploring, Acyclic, Placing, Ranked, RunSettles,
       BoundariesGuarded, Declared
  <2>5. CASE /\ top.left # <<>> /\ dep \in visited /\ dep \notin {f.node : f \in Values(trail)}
             /\ trail' = Advanced /\ UNCHANGED <<visited, gpc>>
    <3>1. OnTrail = {f.node : f \in Values(trail)}
      BY DEF OnTrail, Values
    <3>2. Explored(ord, K)'
      BY <1>0, <1>1, <1>4, <2>5, <3>1, TrailAdvances
    <3>3. visited' \subseteq GraphNode /\ trail' \in Seq(Frame)
      BY <1>0, <1>4, <2>5, AdvancedTyped DEF GrShape, GrTypeOK
    <3> QED
      BY <1>0, <1>2, <2>5, <3>2, <3>3
  <2> QED
    BY <2>1, <2>2, <2>3, <2>4, <2>5
<1> QED
  BY <1>3, <1>4

(* The edge a merge is given goes to a choice above its tails. *)
LEMMA ReconvergeKeeps == ASSUME GrInv, ValidateReconvergence PROVE GrInv'
<1>0. /\ GrShape /\ EdgesCover /\ Acyclic /\ RunSettles /\ gpc = "converge"
      /\ UNCHANGED <<builder, visited, trail, degree, ready, rank, held, settled, invoked>>
      /\ GraphTyped /\ Declared \subseteq GraphNode
  BY GrInvTyped DEF GrInv, ValidateReconvergence
<1>1. CASE gpc' = "refused" /\ UNCHANGED edges
  BY <1>0, <1>1 DEF GrInv, GrShape, GrTypeOK, EdgesCover, Exploring, Acyclic, Placing, Ranked, RunSettles,
     BoundariesGuarded, Declared
<1>2. CASE ~ (gpc' = "refused" /\ UNCHANGED edges)
  <2> DEFINE c(n) == CHOOSE x \in SourceChoices(n) : TRUE
             Joined(n) == Merges(n) /\ TailsOf(n) # {} /\ SourceChoices(n) \cap Values(edges[n]) = {}
  <2>1. /\ gpc' = "bound" /\ \A n \in Declared : ~Unstructured(n)
        /\ edges' = [n \in GraphNode |-> IF Joined(n) THEN edges[n] \o <<c(n)>> ELSE edges[n]]
    BY <1>2, Zenon DEF ValidateReconvergence
  <2>2. PICK ord : Orders(ord)
    BY <1>0 DEF Acyclic
  <2>3. \A n \in GraphNode : /\ Values(builder.routes[n]) \cup TailsOf(n) \subseteq Values(edges[n])
                             /\ edges[n] \in Seq(GraphNode)
                             /\ n \notin Declared => edges[n] = <<>>
    BY <1>0 DEF EdgesCover, GraphTyped
  <2>4. ASSUME NEW n \in GraphNode, Joined(n)
        PROVE  n \in Declared /\ c(n) \in Declared /\ ord[c(n)] < ord[n]
    <3>1. n \in Declared
      BY <2>3, <2>4, ValuesNone
    <3>2. SourceChoices(n) # {}
      BY <2>4 DEF SourceChoices
    <3>3. c(n) \in SourceChoices(n)
      BY <3>2
    <3>4. PICK t \in TailsOf(n) : c(n) = NearestBranch(t).choice
      BY <3>3 DEF SourceChoices
    <3>5. t \in Declared /\ ord[t] < ord[n]
      BY <2>2, <2>3, <3>1, <3>4 DEF Orders
    <3>6. NearestBranch(t) # NoBranch
      BY <2>1, <2>4, <3>1, <3>4 DEF Unstructured
    <3>7. c(n) \in Declared /\ ord[c(n)] < ord[t]
      BY <1>0, <2>2, <3>4, <3>5, <3>6, BranchAbove
    <3>8. ord[c(n)] \in Nat /\ ord[t] \in Nat /\ ord[n] \in Nat
      BY <1>0, <2>2, <3>1, <3>5, <3>7 DEF Orders
    <3> HIDE DEF c
    <3> QED
      BY <3>1, <3>5, <3>7, <3>8
  <2> HIDE DEF c, Joined
  <2>5. ASSUME NEW n \in GraphNode
        PROVE  /\ edges'[n] \in Seq(GraphNode) /\ Values(edges[n]) \subseteq Values(edges'[n])
               /\ n \notin Declared => edges'[n] = <<>>
               /\ n \in Declared => \A d \in Values(edges'[n]) : d \in Declared /\ ord[d] < ord[n]
    <3>1. n \in Declared => \A d \in Values(edges[n]) : d \in Declared /\ ord[d] < ord[n]
      BY <2>2 DEF Orders
    <3>2. CASE Joined(n)
      <4>1. n \in Declared /\ c(n) \in Declared /\ ord[c(n)] < ord[n] /\ c(n) \in GraphNode
        BY <1>0, <2>4, <3>2
      <4>2. <<c(n)>> \in Seq(GraphNode) /\ Values(<<c(n)>>) = {c(n)}
        BY <4>1, ValuesSingle
      <4>3. edges'[n] = edges[n] \o <<c(n)>>
        BY <2>1, <3>2
      <4>4. edges'[n] \in Seq(GraphNode) /\ Values(edges'[n]) = Values(edges[n]) \cup {c(n)}
        <5> DEFINE one == <<c(n)>>
        <5> HIDE DEF one
        <5>1. one \in Seq(GraphNode) /\ edges[n] \in Seq(GraphNode) /\ Values(one) = {c(n)}
              /\ edges'[n] = edges[n] \o one
          BY <2>3, <4>2, <4>3 DEF one
        <5> QED
          BY <5>1, ValuesConcat
      <4> QED
        BY <3>1, <4>1, <4>4
    <3>3. CASE ~Joined(n)
      <4>1. edges'[n] = edges[n]
        BY <2>1, <3>3
      <4> QED
        BY <2>3, <3>1, <4>1
    <3> QED
      BY <3>2, <3>3
  <2>6. edges' \in [GraphNode -> Seq(GraphNode)]
    <3>1. edges' = [n \in GraphNode |-> edges'[n]]
      BY <2>1
    <3> QED
      BY <2>5, <3>1
  <2>7. Declared' = Declared /\ \A n \in GraphNode : TailsOf(n)' = TailsOf(n)
    BY <1>0 DEF Declared, TailsOf
  <2>8. GrShape'
    BY <1>0, <2>1, <2>6 DEF GrShape, GrTypeOK
  <2>9. EdgesCover'
    BY <1>0, <2>3, <2>5, <2>7 DEF EdgesCover
  <2>10. Acyclic'
    <3>1. Orders(ord)'
      BY <1>0, <2>2, <2>5, <2>7 DEF Orders
    <3> QED
      BY <3>1 DEF Acyclic
  <2>11. RunSettles'
    BY <1>0, <2>1, <2>7 DEF RunSettles
  <2> QED
    BY <2>1, <2>8, <2>9, <2>10, <2>11 DEF GrInv, Exploring, Placing, Ranked, BoundariesGuarded
<1> QED
  BY <1>1, <1>2

(* What a boundary that is not refused leaves unreached without its verifier.*)
LEMMA SeparationExists ==
  ASSUME GraphTyped, NEW b \in builder.bounds, ~BoundaryRefused(b)
  PROVE  /\ {b.verifier, b.sink} \subseteq Declared /\ b.verifier \notin builder.tolerant
         /\ b.verifier # b.sink
         /\ ~Opaque(builder.act[b.verifier]) /\ ~Opaque(builder.act[b.sink])
         /\ \E S \in SUBSET GraphNode : Separates(b, S)
<1>0. /\ {b.verifier, b.sink} \subseteq Declared /\ b.verifier \notin builder.tolerant
      /\ b.verifier # b.sink /\ edges[b.sink] # <<>>
      /\ ~Opaque(builder.act[b.verifier]) /\ ~Opaque(builder.act[b.sink])
      /\ \A r \in Roots : ~Reaches(r, b.sink, {b.verifier})
  BY DEF BoundaryRefused
<1> DEFINE C == {t \in SUBSET GraphNode : b.sink \notin t /\ Spread(t, {b.verifier}) = t}
           S == UNION C
<1>1. S \in SUBSET GraphNode /\ b.sink \notin S
  OBVIOUS
<1>2. ASSUME NEW r \in Roots, r # b.verifier PROVE r \in S
  <2>1. r \in GraphNode /\ r # b.sink
    BY <1>0, DeclaredType DEF Roots
  <2>2. PICK t \in SUBSET GraphNode : r \in t /\ b.sink \notin t /\ Spread(t, {b.verifier}) = t
    BY <1>0, <1>2, <2>1, CutOff
  <2> QED
    BY <2>2
<1>3. ASSUME NEW n \in Declared, n # b.verifier, Values(edges[n]) \cap S # {} PROVE n \in S
  <2>1. PICK t \in C : Values(edges[n]) \cap t # {}
    BY <1>3
  <2>2. n \in Spread(t, {b.verifier})
    BY <1>3, <2>1 DEF Spread
  <2> QED
    BY <2>1, <2>2
<1> HIDE DEF S
<1>4. Separates(b, S)
  BY <1>1, <1>2, <1>3 DEF Separates
<1> QED
  BY <1>0, <1>1, <1>4

LEMMA AwaitsTyped ==
  ASSUME GraphTyped, NEW m \in GraphNode, NEW P
  PROVE  /\ IsFiniteSet(Awaits(m, P)) /\ Cardinality(Awaits(m, P)) \in Nat
         /\ DOMAIN edges[m] = 1..Len(edges[m])
<1>1. DOMAIN edges[m] = 1..Len(edges[m]) /\ Len(edges[m]) \in Nat
  BY ValuesType DEF GraphTyped
<1>2. IsFiniteSet(DOMAIN edges[m])
  BY <1>1, FS_Interval
<1>3. Awaits(m, P) \in SUBSET DOMAIN edges[m]
  BY DEF Awaits
<1>4. IsFiniteSet(Awaits(m, P))
  BY <1>2, <1>3, FS_Subset
<1> QED
  BY <1>1, <1>4, FS_CardinalityType

LEMMA BoundariesKeep == ASSUME GrInv, ValidateBoundaries PROVE GrInv'
<1>0. /\ GrShape /\ EdgesCover /\ Acyclic /\ RunSettles /\ gpc = "bound"
      /\ UNCHANGED <<builder, edges, visited, trail, rank, settled, invoked>>
      /\ GraphTyped /\ Declared \subseteq GraphNode
  BY GrInvTyped DEF GrInv, ValidateBoundaries
<1>1. CASE gpc' = "refused" /\ UNCHANGED <<held, degree, ready>>
  BY <1>0, <1>1 DEF GrInv, GrShape, GrTypeOK, EdgesCover, Exploring, Acyclic, Placing, Ranked, RunSettles,
     BoundariesGuarded, Declared
<1>2. CASE ~ (gpc' = "refused" /\ UNCHANGED <<held, degree, ready>>)
  <2>1. /\ gpc' = "levels" /\ \A b \in builder.bounds : ~BoundaryRefused(b)
        /\ held' = [n \in GraphNode |-> IF n \in Roles THEN builder.act[n] ELSE {}]
        /\ degree' = [n \in GraphNode |-> Len(edges[n])]
        /\ ready' = Roots
    BY <1>2 DEF ValidateBoundaries
  <2>2. Declared' = Declared /\ Roots' = Roots /\ Roots \subseteq Declared
    BY <1>0 DEF Declared, Roots
  <2>3. \A n \in GraphNode : /\ DOMAIN edges[n] = 1..Len(edges[n]) /\ Len(edges[n]) \in Nat
                             /\ (edges[n] = <<>> <=> Len(edges[n]) = 0)
    BY <1>0, ValuesType DEF GraphTyped
  <2>4. GrShape'
    BY <1>0, <2>1, <2>2, <2>3 DEF GrShape, GrTypeOK
  <2>5. EdgesCover' /\ RunSettles'
    BY <1>0, <2>1 DEF EdgesCover, RunSettles, Declared, TailsOf
  <2>6. Acyclic'
    <3>1. PICK ord : Orders(ord)
      BY <1>0 DEF Acyclic
    <3>2. Orders(ord)'
      BY <1>0, <2>2, <3>1 DEF Orders
    <3> QED
      BY <3>2 DEF Acyclic
  <2>7. Placing'
    <3>1. ASSUME NEW m \in GraphNode PROVE degree'[m] = Cardinality(Awaits(m, {}))
      <4>1. Awaits(m, {}) = 1..Len(edges[m])
        BY <2>3 DEF Awaits
      <4>2. Cardinality(1..Len(edges[m])) = Len(edges[m])
        BY <2>3, FS_Interval
      <4> QED
        BY <2>1, <4>1, <4>2
    <3>2. ASSUME NEW m \in GraphNode PROVE Awaits(m, {})' = Awaits(m, {})
      BY <1>0 DEF Awaits
    <3>3. \A m \in Declared : degree'[m] = 0 <=> m \in Roots
      BY <1>0, <2>1, <2>3 DEF Roots
    <3>4. Placed({})'
      BY <2>1, <2>2, <3>1, <3>2, <3>3 DEF Placed
    <3>5. {} \in SUBSET Declared'
      OBVIOUS
    <3> QED
      BY <3>4, <3>5 DEF Placing
  <2>8. ASSUME NEW b \in builder.bounds PROVE Guarded(b)'
    <3>1. /\ {b.verifier, b.sink} \subseteq Declared /\ b.verifier \notin builder.tolerant
          /\ b.verifier # b.sink
          /\ ~Opaque(builder.act[b.verifier]) /\ ~Opaque(builder.act[b.sink])
          /\ \E S \in SUBSET GraphNode : Separates(b, S)
      BY <1>0, <2>1, SeparationExists
    <3>2. PICK S \in SUBSET GraphNode : Separates(b, S)
      BY <3>1
    <3>3. b.verifier \in Roles /\ b.sink \in Roles /\ b.verifier \in GraphNode /\ b.sink \in GraphNode
      BY <1>0, <3>1 DEF Roles
    <3>4. held'[b.verifier] = builder.act[b.verifier] /\ held'[b.sink] = builder.act[b.sink]
      BY <2>1, <3>3
    <3>5. Separates(b, S)'
      BY <1>0, <2>2, <3>2 DEF Separates
    <3>6. invoked' = {}
      BY <1>0 DEF RunSettles
    <3> QED
      BY <1>0, <2>2, <3>1, <3>4, <3>5, <3>6 DEF Guarded, Opaque
  <2>9. BoundariesGuarded'
    BY <1>0, <2>8 DEF BoundariesGuarded
  <2> QED
    BY <2>1, <2>4, <2>5, <2>6, <2>7, <2>9 DEF GrInv, Exploring, Ranked
<1> QED
  BY <1>1, <1>2

(* Placing a node takes its edges off the in-degrees. *)
LEMMA AwaitsFewer ==
  ASSUME GraphTyped, NEW P, NEW n, n \notin P, NEW m \in GraphNode
  PROVE  /\ Cardinality(Awaits(m, P \cup {n})) = Cardinality(Awaits(m, P)) - Times(n, m)
         /\ Times(n, m) \in Nat /\ Times(n, m) <= Cardinality(Awaits(m, P))
         /\ (Times(n, m) > 0 <=> n \in Values(edges[m]))
<1> DEFINE T == {i \in DOMAIN edges[m] : edges[m][i] = n}
           A == Awaits(m, P)
<1>1. IsFiniteSet(A) /\ Cardinality(A) \in Nat
  BY AwaitsTyped
<1>2. T \in SUBSET A /\ Awaits(m, P \cup {n}) = A \ T /\ A \cap T = T
  BY DEF Awaits
<1>3. Times(n, m) = Cardinality(T)
  BY DEF Times
<1>4. T = {} <=> n \notin Values(edges[m])
  BY DEF Values
<1> HIDE DEF T, A
<1>5. IsFiniteSet(T) /\ Cardinality(T) <= Cardinality(A) /\ Cardinality(T) \in Nat
  BY <1>1, <1>2, FS_Subset, FS_CardinalityType
<1>6. Cardinality(A \ T) = Cardinality(A) - Cardinality(T)
  BY <1>1, <1>2, FS_Difference
<1>7. Cardinality(T) = 0 <=> T = {}
  BY <1>5, FS_EmptySet
<1>8. A = Awaits(m, P)
  BY DEF A
<1>9. Times(n, m) > 0 <=> n \in Values(edges[m])
  BY <1>3, <1>4, <1>5, <1>7
<1>10. /\ Cardinality(Awaits(m, P \cup {n})) = Cardinality(A) - Times(n, m)
       /\ Times(n, m) \in Nat /\ Times(n, m) <= Cardinality(A)
  BY <1>2, <1>3, <1>5, <1>6
<1> QED
  BY <1>8, <1>9, <1>10

LEMMA PlaceKeeps == ASSUME GrInv, NEW n \in GraphNode, PlaceNode(n) PROVE GrInv'
<1>0. /\ GrShape /\ EdgesCover /\ Acyclic /\ Placing /\ RunSettles /\ BoundariesGuarded /\ gpc = "levels" /\ n \in ready
      /\ UNCHANGED <<builder, gpc, edges, visited, trail, held, settled, invoked>>
      /\ GraphTyped /\ Declared \subseteq GraphNode
  BY GrInvTyped DEF GrInv, PlaceNode
<1>1. PICK P \in SUBSET Declared : Placed(P)
  BY <1>0 DEF Placing
<1>2. /\ ready \cap P = {} /\ ready \subseteq Declared
      /\ \A m \in GraphNode : degree[m] = Cardinality(Awaits(m, P))
      /\ \A m \in Declared : degree[m] = 0 <=> m \in P \cup ready
      /\ \A m \in Declared : \A d \in P \cap Values(edges[m]) : rank[d] < rank[m]
  BY <1>1 DEF Placed
<1>3. n \in Declared /\ n \notin P
  BY <1>0, <1>2
<1>4. /\ degree' = [m \in GraphNode |-> degree[m] - Times(n, m)]
      /\ rank' = [m \in GraphNode |->
                     IF Times(n, m) > 0 /\ rank[n] + 1 > rank[m] THEN rank[n] + 1 ELSE rank[m]]
      /\ ready' = (ready \ {n}) \cup {m \in Declared : Times(n, m) > 0 /\ degree'[m] = 0}
  BY Zenon DEF PlaceNode
<1>5. ASSUME NEW m \in GraphNode
      PROVE  /\ Cardinality(Awaits(m, P \cup {n})) = degree[m] - Times(n, m)
             /\ degree[m] \in Nat /\ Times(n, m) \in Nat /\ Times(n, m) <= degree[m]
             /\ (Times(n, m) > 0 <=> n \in Values(edges[m]))
             /\ rank[m] \in Nat
  <2>1. /\ Cardinality(Awaits(m, P \cup {n})) = Cardinality(Awaits(m, P)) - Times(n, m)
        /\ Times(n, m) \in Nat /\ Times(n, m) <= Cardinality(Awaits(m, P))
        /\ (Times(n, m) > 0 <=> n \in Values(edges[m]))
    BY <1>0, <1>3, AwaitsFewer
  <2>2. degree[m] \in Nat /\ rank[m] \in Nat /\ degree[m] = Cardinality(Awaits(m, P))
    BY <1>0, <1>2 DEF GrShape, GrTypeOK
  <2> QED
    BY <2>1, <2>2
<1>6. \A m \in GraphNode : /\ degree'[m] = degree[m] - Times(n, m) /\ degree'[m] \in Nat
                           /\ rank'[m] = IF n \in Values(edges[m]) /\ rank[n] + 1 > rank[m] THEN rank[n] + 1 ELSE rank[m]
                           /\ rank'[m] \in Nat
  BY <1>4, <1>5
<1>7. GrShape'
  <2>1. degree' \in [GraphNode -> Nat] /\ rank' \in [GraphNode -> Nat] /\ ready' \subseteq GraphNode
    BY <1>0, <1>2, <1>4, <1>6
  <2> QED
    BY <1>0, <2>1 DEF GrShape, GrTypeOK
<1>8. Declared' = Declared
  BY <1>0 DEF Declared
<1>9. Placed(P \cup {n})'
  <2>1. \A m \in GraphNode : degree'[m] = Cardinality(Awaits(m, P \cup {n})')
    <3>1. \A m \in GraphNode : Awaits(m, P \cup {n})' = Awaits(m, P \cup {n})
      BY <1>0 DEF Awaits
    <3> QED
      BY <1>5, <1>6, <3>1
  <2>2. ASSUME NEW m \in Declared PROVE degree'[m] = 0 <=> m \in P \cup {n} \cup ready'
    <3>1. degree[m] = 0 => Times(n, m) = 0
      BY <1>0, <1>5
    <3>2. CASE Times(n, m) > 0
      BY <1>0, <1>2, <1>4, <1>5, <1>6, <3>1, <3>2
    <3>3. CASE Times(n, m) = 0
      <4>1. degree'[m] = degree[m] /\ ~(Times(n, m) > 0)
        BY <1>0, <1>5, <1>6, <3>3
      <4>2. m \in ready' <=> m \in ready \ {n}
        BY <1>4, <4>1
      <4> QED
        BY <1>0, <1>2, <4>1, <4>2
    <3> QED
      BY <1>0, <1>5, <3>2, <3>3
  <2>3. ASSUME NEW m \in Declared, NEW d \in (P \cup {n}) \cap Values(edges[m]) PROVE rank'[d] < rank'[m]
    <3>1. d \in Declared /\ degree[d] = 0
      BY <1>0, <1>2, <1>3, <2>3
    <3>2. n \notin Values(edges[d])
      BY <1>0, <1>5, <3>1
    <3>3. rank'[d] = rank[d]
      BY <1>0, <1>6, <3>1, <3>2
    <3>4. rank[m] \in Nat /\ rank[n] \in Nat /\ rank[d] \in Nat /\ rank'[m] \in Nat
      BY <1>0, <1>5, <1>6, <3>1
    <3>5. rank'[m] = IF n \in Values(edges[m]) /\ rank[n] + 1 > rank[m] THEN rank[n] + 1 ELSE rank[m]
      BY <1>0, <1>6
    <3>6. CASE d = n
      BY <2>3, <3>3, <3>4, <3>5, <3>6
    <3>7. CASE d \in P
      <4>1. rank[d] < rank[m]
        BY <1>2, <2>3, <3>7
      <4> QED
        BY <3>3, <3>4, <3>5, <4>1
    <3> QED
      BY <2>3, <3>6, <3>7
  <2>4. ready' \cap (P \cup {n}) = {} /\ ready' \subseteq Declared
    <3>1. ASSUME NEW m \in Declared, Times(n, m) > 0 PROVE m \notin P \cup ready
      BY <1>0, <1>2, <1>5, <3>1
    <3> QED
      BY <1>0, <1>2, <1>4, <3>1
  <2> QED
    BY <1>0, <1>8, <2>1, <2>2, <2>3, <2>4 DEF Placed
<1>10. Placing'
  BY <1>1, <1>3, <1>8, <1>9 DEF Placing
<1>11. EdgesCover' /\ RunSettles'
  BY <1>0 DEF EdgesCover, RunSettles, Declared, TailsOf
<1>12. Acyclic'
  BY <1>0, <1>8 DEF Acyclic, Orders
<1>13. BoundariesGuarded'
  BY <1>0, <1>8 DEF BoundariesGuarded, Guarded, Separates, Roots
<1> QED
  BY <1>0, <1>7, <1>10, <1>11, <1>12, <1>13 DEF GrInv, Exploring, Ranked

(* When the queue of GetLevels is empty every node of an acyclic graph has   *)
(* been placed.                                                              *)
LEMMA AllPlaced ==
  ASSUME GrInv, gpc = "levels", ready = {}
  PROVE  \A n \in Declared : \A d \in Values(edges[n]) : rank[d] < rank[n]
<1>0. /\ GrShape /\ EdgesCover /\ Acyclic /\ Placing /\ GraphTyped /\ Declared \subseteq GraphNode
  BY GrInvTyped DEF GrInv
<1>1. PICK P \in SUBSET Declared : Placed(P)
  BY <1>0 DEF Placing
<1>2. PICK ord : Orders(ord)
  BY <1>0 DEF Acyclic
<1>3. P = Declared
  <2> SUFFICES ASSUME Declared \ P # {} PROVE FALSE
    OBVIOUS
  <2> DEFINE A == {ord[m] : m \in Declared \ P}
  <2>1. A \in SUBSET Nat /\ A # {}
    BY <1>0, <1>2 DEF Orders
  <2>2. PICK a \in A : \A i \in A : a <= i
    BY <2>1, LowestExists
  <2>3. PICK m \in Declared \ P : ord[m] = a
    BY <2>2
  <2>4. ASSUME NEW d \in Values(edges[m]) PROVE d \in P
    <3>1. d \in Declared /\ ord[d] < ord[m] /\ ord[d] \in Nat /\ ord[m] \in Nat
      BY <1>0, <1>2, <2>3 DEF Orders
    <3>2. d \notin P => ord[d] \in A
      BY <3>1
    <3> HIDE DEF A
    <3> QED
      BY <2>1, <2>2, <2>3, <3>1, <3>2
  <2>5. Awaits(m, P) = {}
    BY <2>4 DEF Awaits, Values
  <2>6. degree[m] = 0
    BY <1>0, <1>1, <2>3, <2>5, FS_EmptySet DEF Placed
  <2> QED
    BY <1>1, <2>3, <2>6 DEF Placed
<1> QED
  BY <1>0, <1>1, <1>3 DEF Placed, EdgesCover

LEMMA StampKeeps == ASSUME GrInv, Stamp PROVE GrInv'
<1>0. /\ GrShape /\ EdgesCover /\ RunSettles /\ BoundariesGuarded /\ gpc = "levels" /\ ready = {}
      /\ UNCHANGED <<builder, edges, visited, trail, degree, ready, rank, held, settled, invoked>>
      /\ gpc' \in {"refused", "run"}
  BY DEF GrInv, Stamp
<1>1. \A n \in Declared : \A d \in Values(edges[n]) : rank[d] < rank[n]
  BY <1>0, AllPlaced
<1>2. GrShape' /\ EdgesCover' /\ RunSettles' /\ Ranked'
  BY <1>0, <1>1 DEF GrShape, GrTypeOK, EdgesCover, RunSettles, Ranked, Declared, TailsOf
<1>3. BoundariesGuarded'
  BY <1>0 DEF BoundariesGuarded, Guarded, Separates, Roots, Declared
<1> QED
  BY <1>0, <1>2, <1>3 DEF GrInv, Exploring, Acyclic, Placing

LEMMA PlacingStays ==
  ASSUME Placing, UNCHANGED <<gpc, edges, degree, ready, rank>>, Declared' = Declared
  PROVE  Placing'
<1>1. ASSUME NEW P, Placed(P) PROVE Placed(P)'
  <2>1. \A m : Awaits(m, P)' = Awaits(m, P)
    BY DEF Awaits
  <2> QED
    BY <1>1, <2>1 DEF Placed
<1> QED
  BY <1>1 DEF Placing

LEMMA HostKeeps == ASSUME GrInv, NEW n \in GraphNode, HostAdds(n) PROVE GrInv'
<1>0. /\ GrShape /\ EdgesCover /\ Acyclic /\ Placing /\ Ranked /\ RunSettles /\ BoundariesGuarded
      /\ gpc \in {"levels", "run"}
      /\ builder' = [builder EXCEPT !.act[n] = @ \cup {"timer"}] /\ builder \in BuilderType
      /\ UNCHANGED <<gpc, edges, visited, trail, degree, ready, rank, held, settled, invoked>>
  BY DEF GrInv, HostAdds, GrShape
<1>1. /\ builder' \in BuilderType /\ builder'.names = builder.names /\ builder'.routes = builder.routes
      /\ builder'.joins = builder.joins /\ builder'.tolerant = builder.tolerant
      /\ builder'.bounds = builder.bounds
  <2> DEFINE a == [builder.act EXCEPT ![n] = @ \cup {"timer"}]
  <2>1. a \in [GraphNode -> SUBSET Kinds]
    BY <1>0 DEF BuilderType, Kinds, OpaqueKinds
  <2>2. builder' = [builder EXCEPT !.act = a]
    BY <1>0
  <2> HIDE DEF a
  <2> QED
    BY <1>0, <2>1, <2>2 DEF BuilderType
<1>2. Declared' = Declared /\ \A m \in GraphNode : TailsOf(m)' = TailsOf(m)
  BY <1>1 DEF Declared, TailsOf
<1>3. GrShape'
  BY <1>0, <1>1 DEF GrShape, GrTypeOK
<1>4. EdgesCover' /\ RunSettles' /\ Ranked'
  BY <1>0, <1>1, <1>2 DEF EdgesCover, RunSettles, Ranked
<1>5. Acyclic'
  BY <1>0, <1>2 DEF Acyclic, Orders
<1>6. Placing'
  BY <1>0, <1>2, PlacingStays
<1>7. BoundariesGuarded'
  BY <1>0, <1>1, <1>2 DEF BoundariesGuarded, Guarded, Separates, Roots
<1> QED
  BY <1>0, <1>3, <1>4, <1>5, <1>6, <1>7 DEF GrInv, Exploring

---------------------------------------------------------------------------
(* The steps of the run *)

(* A node that starts was let through by a dependency that did: the way back *)
(* leads to the verifier before it leads to a root.                          *)
LEMMA LaunchNeedsVerifier ==
  ASSUME GrInv, gpc = "run", NEW b \in builder.bounds, Guarded(b),
         NEW S \in SUBSET GraphNode, Separates(b, S),
         \A m \in invoked \ (S \cup {b.verifier}) : settled[b.verifier] = "ok",
         NEW n \in Declared, n \notin S, n # b.verifier, Launches(n)
  PROVE  settled[b.verifier] = "ok"
<1>0. GrShape /\ EdgesCover /\ RunSettles /\ GraphTyped /\ Declared \subseteq GraphNode
  BY GrInvTyped DEF GrInv
<1>1. Values(edges[n]) # {}
  <2>1. n \notin Roots
    BY DEF Separates
  <2>2. edges[n] # <<>> /\ edges[n] \in Seq(GraphNode)
    BY <1>0, <2>1 DEF Roots, GraphTyped
  <2> QED
    BY <2>2, ValuesType
<1>2. \E d \in Values(edges[n]) : TakenNode(d)
  <2>1. TailsOf(n) \subseteq Values(edges[n])
    BY <1>0 DEF EdgesCover
  <2> QED
    BY <1>1, <2>1 DEF Launches
<1>3. PICK d \in Values(edges[n]) : TakenNode(d)
  BY <1>2
<1>4. d \in Declared /\ d \notin S
  BY <1>0, <1>3 DEF EdgesCover, Separates
<1>5. CASE d = b.verifier
  BY <1>3, <1>5 DEF TakenNode, Guarded
<1>6. CASE d # b.verifier
  <2>1. d \in invoked
    BY <1>0, <1>3, <1>4 DEF TakenNode, RunSettles
  <2> QED
    BY <1>4, <1>6, <2>1
<1> QED
  BY <1>5, <1>6

(* A node settles after its dependencies; what else settles was bypassed and *)
(* had not been invoked.                                                     *)
LEMMA SettleKeeps ==
  ASSUME GrInv, gpc = "run", gpc' \in {"run", "over"},
         UNCHANGED <<builder, edges, visited, trail, degree, ready, rank, held>>,
         NEW n \in Declared, LevelReached(n),
         settled' \in [GraphNode -> {"pending", "ok", "failed", "skipped", "bypassed"}],
         settled'[n] # "pending", n \in invoked' => Launches(n),
         n \in invoked' <=> settled'[n] \in {"ok", "failed"},
         \A m \in GraphNode \ {n} : settled'[m] = settled[m] \/ (m \notin invoked /\ settled'[m] = "bypassed"),
         invoked' \subseteq invoked \cup {n}, invoked \subseteq invoked'
  PROVE  GrInv'
<1>0. /\ GrShape /\ EdgesCover /\ Ranked /\ RunSettles /\ BoundariesGuarded
      /\ GraphTyped /\ Declared \subseteq GraphNode
  BY GrInvTyped DEF GrInv
<1>1. settled[n] = "pending" /\ n \notin invoked
  BY <1>0 DEF LevelReached, RunSettles
<1>2. \A d \in Values(edges[n]) : settled[d] # "pending"
  BY <1>0 DEF LevelReached, Ranked, EdgesCover
<1>3. Declared' = Declared
  BY DEF Declared
<1>4. GrShape'
  BY <1>0, <1>3 DEF GrShape, GrTypeOK
<1>5. EdgesCover' /\ Ranked'
  BY <1>0, <1>3 DEF EdgesCover, Ranked, TailsOf
<1>6. ASSUME NEW m \in GraphNode, settled[m] # "pending"
      PROVE  settled'[m] # "pending" /\ (settled[m] = "ok" => settled'[m] = "ok")
  <2>1. m # n
    BY <1>1, <1>6
  <2>2. settled[m] = "ok" => m \in invoked
    BY <1>0 DEF RunSettles
  <2>3. settled'[m] = settled[m] \/ (m \notin invoked /\ settled'[m] = "bypassed")
    BY <2>1
  <2> QED
    BY <1>6, <2>2, <2>3
<1>7. RunSettles'
  <2>1. \A m \in GraphNode : m \in invoked' <=> settled'[m] \in {"ok", "failed"}
    BY <1>0, <1>1 DEF RunSettles
  <2>2. ASSUME NEW m \in invoked', NEW d \in Values(edges[m]) PROVE settled'[d] # "pending"
    <3>1. m \in Declared /\ d \in GraphNode
      BY <1>0, <2>2 DEF RunSettles, EdgesCover
    <3>2. settled[d] # "pending"
      BY <1>0, <1>2, <2>2 DEF RunSettles
    <3> QED
      BY <1>6, <3>1, <3>2
  <2>3. invoked' \subseteq Declared'
    BY <1>0, <1>3 DEF RunSettles
  <2> QED
    BY <2>1, <2>2, <2>3 DEF RunSettles
<1>8. ASSUME NEW b \in builder.bounds PROVE Guarded(b)'
  <2>1. Guarded(b)
    BY <1>0 DEF BoundariesGuarded
  <2>2. PICK S \in SUBSET GraphNode :
          Separates(b, S) /\ \A m \in invoked \ (S \cup {b.verifier}) : settled[b.verifier] = "ok"
    BY <2>1 DEF Guarded
  <2>3. ASSUME NEW m \in invoked' \ (S \cup {b.verifier}) PROVE settled'[b.verifier] = "ok"
    <3>1. settled[b.verifier] = "ok"
      <4>1. CASE m \in invoked
        BY <2>2, <2>3, <4>1
      <4>2. CASE m = n
        BY <2>1, <2>2, <2>3, <4>2, LaunchNeedsVerifier
      <4> QED
        BY <2>3, <4>1, <4>2
    <3>2. b.verifier \in GraphNode
      BY <1>0, <2>1 DEF Guarded
    <3> QED
      BY <1>6, <3>1, <3>2
  <2>4. Separates(b, S)'
    BY <1>3, <2>2 DEF Separates, Roots
  <2> QED
    BY <1>3, <2>1, <2>3, <2>4 DEF Guarded, Opaque
<1>9. BoundariesGuarded'
  BY <1>8 DEF BoundariesGuarded
<1> QED
  BY <1>4, <1>5, <1>7, <1>9 DEF GrInv, Exploring, Acyclic, Placing

LEMMA PassOverKeeps == ASSUME GrInv, NEW n \in GraphNode, PassOver(n) PROVE GrInv'
<1>1. gpc = "run" /\ n \in Declared /\ settled[n] = "pending" /\ LevelReached(n)
  BY DEF PassOver, LevelReached
<1>2. PICK v \in {"bypassed", "skipped"} : settled' = [settled EXCEPT ![n] = v]
  BY DEF PassOver
<1>3. settled \in [GraphNode -> {"pending", "ok", "failed", "skipped", "bypassed"}]
  BY DEF GrInv, GrShape, GrTypeOK
<1>4. n \notin invoked
  BY <1>1 DEF GrInv, RunSettles
<1>5. /\ settled' \in [GraphNode -> {"pending", "ok", "failed", "skipped", "bypassed"}]
      /\ settled'[n] = v /\ \A m \in GraphNode \ {n} : settled'[m] = settled[m]
  BY <1>2, <1>3
<1>6. UNCHANGED <<builder, gpc, edges, visited, trail, degree, ready, rank, held, invoked>>
  BY DEF PassOver
<1> QED
  BY <1>1, <1>4, <1>5, <1>6, SettleKeeps

LEMMA FailsKeeps == ASSUME GrInv, NEW n \in GraphNode, NodeFails(n) PROVE GrInv'
<1>1. gpc = "run" /\ n \in Declared /\ LevelReached(n) /\ Launches(n)
  BY DEF NodeFails, LevelReached
<1>2. settled' = [settled EXCEPT ![n] = "failed"] /\ invoked' = invoked \cup {n} /\ gpc' \in {"run", "over"}
  BY <1>1 DEF NodeFails
<1>3. settled \in [GraphNode -> {"pending", "ok", "failed", "skipped", "bypassed"}]
  BY DEF GrInv, GrShape, GrTypeOK
<1>5. /\ settled' \in [GraphNode -> {"pending", "ok", "failed", "skipped", "bypassed"}]
      /\ settled'[n] = "failed" /\ \A m \in GraphNode \ {n} : settled'[m] = settled[m]
  BY <1>2, <1>3
<1>6. UNCHANGED <<builder, edges, visited, trail, degree, ready, rank, held>>
  BY DEF NodeFails
<1> QED
  BY <1>1, <1>2, <1>5, <1>6, SettleKeeps

(* The targets a choice bypasses depend on it: none has been invoked. *)
LEMMA SucceedsKeeps == ASSUME GrInv, NEW n \in GraphNode, NodeSucceeds(n) PROVE GrInv'
<1>1. gpc = "run" /\ n \in Declared /\ settled[n] = "pending" /\ LevelReached(n) /\ Launches(n)
  BY DEF NodeSucceeds, LevelReached
<1>2. PICK untaken \in SUBSET HeadsOf(n) :
        settled' = [m \in GraphNode |-> IF m = n THEN "ok"
                                        ELSE IF m \in untaken THEN "bypassed" ELSE settled[m]]
  BY DEF NodeSucceeds
<1>3. settled \in [GraphNode -> {"pending", "ok", "failed", "skipped", "bypassed"}]
  BY DEF GrInv, GrShape, GrTypeOK
<1>4. ASSUME NEW m \in untaken PROVE m \notin invoked
  <2>1. m \in GraphNode /\ n \in Values(builder.routes[m])
    BY <1>2 DEF HeadsOf
  <2>2. n \in Values(edges[m])
    BY <1>1, <2>1 DEF GrInv, EdgesCover
  <2> QED
    BY <1>1, <2>2 DEF GrInv, RunSettles
<1>5. /\ settled' \in [GraphNode -> {"pending", "ok", "failed", "skipped", "bypassed"}]
      /\ settled'[n] = "ok"
      /\ \A m \in GraphNode \ {n} : settled'[m] = IF m \in untaken THEN "bypassed" ELSE settled[m]
  BY <1>2, <1>3
<1>6. UNCHANGED <<builder, gpc, edges, visited, trail, degree, ready, rank, held>> /\ invoked' = invoked \cup {n}
  BY DEF NodeSucceeds
<1>7. \A m \in GraphNode \ {n} : settled'[m] = settled[m] \/ (m \notin invoked /\ settled'[m] = "bypassed")
  BY <1>4, <1>5
<1> QED
  BY <1>1, <1>5, <1>6, <1>7, SettleKeeps

---------------------------------------------------------------------------
(* The theorems *)

LEMMA GrInvNext == GrInv /\ [GrNext]_grVars => GrInv'
<1> SUFFICES ASSUME GrInv, [GrNext]_grVars PROVE GrInv'
  OBVIOUS
<1>1. CASE UNCHANGED grVars
  <2>0. /\ GrShape /\ EdgesCover /\ Exploring /\ Acyclic /\ Placing /\ Ranked /\ RunSettles /\ BoundariesGuarded
        /\ UNCHANGED <<builder, gpc, edges, visited, trail, degree, ready, rank, held, settled, invoked>>
        /\ Declared' = Declared
    BY <1>1 DEF GrInv, grVars, Declared
  <2>1. GrShape' /\ EdgesCover' /\ RunSettles' /\ Ranked'
    BY <2>0 DEF GrShape, GrTypeOK, EdgesCover, RunSettles, Ranked, TailsOf
  <2>2. Exploring'
    <3>1. OnTrail' = OnTrail
      BY <2>0 DEF OnTrail
    <3>2. ASSUME NEW ord, NEW K, Explored(ord, K) PROVE Explored(ord, K)'
      BY <2>0, <3>1, <3>2 DEF Explored
    <3> QED
      BY <2>0, <3>2 DEF Exploring
  <2>3. Acyclic' /\ Placing'
    BY <2>0, PlacingStays DEF Acyclic, Orders
  <2>4. BoundariesGuarded'
    BY <2>0 DEF BoundariesGuarded, Guarded, Separates, Roots
  <2> QED
    BY <2>1, <2>2, <2>3, <2>4 DEF GrInv
<1>2. CASE WireGraph \/ DetectCycle \/ ValidateReconvergence \/ ValidateBoundaries \/ Stamp
  BY <1>2, WireKeeps, DetectKeeps, ReconvergeKeeps, BoundariesKeep, StampKeeps
<1>3. ASSUME NEW n \in GraphNode, HostAdds(n) \/ PlaceNode(n) \/ PassOver(n) \/ NodeSucceeds(n) \/ NodeFails(n)
      PROVE  GrInv'
  BY <1>3, HostKeeps, PlaceKeeps, PassOverKeeps, SucceedsKeeps, FailsKeeps
<1> QED
  BY <1>1, <1>2, <1>3 DEF GrNext

(* The state of Build and of the run keeps to its domains; that no in-degree *)
(* goes below zero rests on the invariant of GetLevels (dag.go).             *)
THEOREM GraphTypeHolds == GrSpec => []GrTypeOK
<1>1. GrInv => GrTypeOK
  BY DEF GrInv, GrShape
<1> QED
  BY <1>1, GrInvInit, GrInvNext, PTL DEF GrSpec

(* Of every graph Build accepts, whatever was declared: its levels respect   *)
(* the dependencies, the edges added after the cycle check included          *)
(* (reconvergence.go, dag.go); a node is invoked after its dependencies have *)
(* settled; the sink of a boundary is invoked only after its verifier        *)
(* succeeded, along every route (boundary.go), with the actions that were    *)
(* judged (mediation.go).                                                    *)
THEOREM BuiltGraphProved == GrSpec => []BuiltGraphHolds
<1>1. GrInv => BuiltGraphHolds
  <2> SUFFICES ASSUME GrInv, gpc \in {"run", "over"}
               PROVE  /\ \A n \in Declared : \A d \in Values(edges[n]) : rank[d] < rank[n]
                      /\ \A n \in invoked : \A d \in Values(edges[n]) : settled[d] # "pending"
                      /\ \A b \in builder.bounds :
                            /\ b.sink \in invoked => b.verifier \in invoked /\ settled[b.verifier] = "ok"
                            /\ ~Opaque(held[b.verifier]) /\ ~Opaque(held[b.sink])
    BY DEF BuiltGraphHolds
  <2>1. \A n \in Declared : \A d \in Values(edges[n]) : rank[d] < rank[n]
    BY DEF GrInv, Ranked
  <2>2. RunSettles /\ Declared \subseteq GraphNode
    BY GrInvTyped DEF GrInv
  <2>3. ASSUME NEW b \in builder.bounds
        PROVE  /\ b.sink \in invoked => b.verifier \in invoked /\ settled[b.verifier] = "ok"
               /\ ~Opaque(held[b.verifier]) /\ ~Opaque(held[b.sink])
    <3>1. Guarded(b)
      BY DEF GrInv, BoundariesGuarded
    <3>2. b.sink \in invoked => settled[b.verifier] = "ok"
      BY <3>1 DEF Guarded, Separates
    <3>3. settled[b.verifier] = "ok" => b.verifier \in invoked
      BY <2>2, <3>1 DEF Guarded, RunSettles
    <3> QED
      BY <3>1, <3>2, <3>3 DEF Guarded
  <2> QED
    BY <2>1, <2>2, <2>3 DEF RunSettles
<1> QED
  BY <1>1, GrInvInit, GrInvNext, PTL DEF GrSpec
=============================================================================

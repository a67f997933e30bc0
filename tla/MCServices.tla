----------------------------- MODULE MCServices -----------------------------
(* Small instances of the services for TLC. *)
EXTENDS Services

CONSTANTS p1, p2,              \* processes, and pollers
          d1, d2, d3,          \* drives; deliveries
          s1, s2,              \* schedules; signals
          x, y,                \* items of a fan-out
          nd, nc, nv, nb, nm, ns  \* nodes: doer, choice, verifier, branch, merge, sink

(* Lockers: two drives in one process, one of them claiming, and a rival. *)
MCProcessOf == [d \in Drives |-> IF d = d3 THEN p2 ELSE p1]

(* Schedules: a calendar of one-minute days, three to a month, two to a week.*)
Star == [base |-> "*", lo |-> 0, hi |-> 0, step |-> 0]
Every == [f \in CronFields |-> {Star}]
OnFirstsAndOddDays ==
    [Every EXCEPT !["dom"]   = {[base |-> "value", lo |-> 1, hi |-> 1, step |-> 0]},
                  !["dow"]   = {[base |-> "range", lo |-> 1, hi |-> 1, step |-> 0]},
                  !["month"] = {[Star EXCEPT !.step = 1]}]
SteppedValue == [Every EXCEPT !["hour"] = {[base |-> "value", lo |-> 0, hi |-> 0, step |-> 1]}]

MCSpecsFor ==
    [s \in Schedule |->
        IF s = s2 THEN {[kind |-> "oneshot", at |-> 1]}
        ELSE {[kind |-> "interval", period |-> 1],
              [kind |-> "cron", cron |-> OnFirstsAndOddDays],
              [kind |-> "cron", cron |-> SteppedValue]}]

MCFieldRange ==
    [f \in CronFields |-> CASE f \in {"minute", "hour"} -> <<0, 0>>
                            [] f = "dom"   -> <<1, 3>>
                            [] f = "month" -> <<1, 2>>
                            [] f = "dow"   -> <<0, 1>>]
MCCalendar ==
    [t \in 0..20 |->
        [f \in CronFields |-> CASE f \in {"minute", "hour"} -> 0
                                [] f = "dom"   -> (t % 3) + 1
                                [] f = "month" -> ((t \div 3) % 2) + 1
                                [] f = "dow"   -> t % 2]]

(* Fan-outs: none, two orders of the same two items, one too wide. *)
MCExpansions == {<<>>, <<x, y>>, <<y, x>>, <<x, x, y>>}
KeyedModes   == [partial : BOOLEAN, keyed : {TRUE}]
OneExpansion == {<<x, y>>}
PlainMode    == {[partial |-> FALSE, keyed |-> FALSE]}

(* Waits: a deadline already past, one ahead, one beyond the last instant. *)
MCLetters   == <<"inert", "reject", "approve">>
MCDurations == {-1, 1, 6}

(* Graphs: every choice of these edges over a fixed choice with two branches,*)
(* a merge over one or both of them, and who may fail.                       *)
Candidates == {<<nc, nd>>, <<nv, nd>>, <<ns, nv>>, <<ns, nm>>, <<ns, nb>>, <<nd, ns>>}
InOrder == <<nd, nc, nv, nb, nm, ns>>
Declares(E, tails, fallible) ==
    [names  |-> InOrder,
     deps   |-> [n \in GraphNode |-> SelectSeq(InOrder, LAMBDA o : <<n, o>> \in E)],
     routes |-> [n \in GraphNode |-> IF n \in {nv, nb} THEN <<nc>> ELSE <<>>],
     joins  |-> [n \in GraphNode |-> IF n = nm THEN tails ELSE <<>>],
     act    |-> [n \in GraphNode |-> IF n = nc THEN {"choice"} ELSE IF n = nm THEN {"merge"} ELSE {"func"}],
     tolerant |-> fallible, composite |-> {nv},
     bounds |-> {[doer |-> nd, verifier |-> nv, sink |-> ns]}]
MCBuilders == {Declares(E, tails, fallible) : E \in SUBSET Candidates,
                                              tails \in {<<nv>>, <<nv, nb>>},
                                              fallible \in {{}, {nv, nb}}}
=============================================================================

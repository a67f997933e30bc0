----------------------------- MODULE DurableJob -----------------------------
(***************************************************************************)
(* What the dispatcher promises of every submitted workflow, with no        *)
(* workers, leases or tokens in sight: a job is queued once, it is driven   *)
(* by what looks like a single writer whose record only grows, it settles   *)
(* once, and neither the verdict nor the record of a settled job changes.   *)
(***************************************************************************)
EXTENDS Integers

CONSTANTS Jobs, Levels
VARIABLES phase, record

vars == <<phase, record>>

Init == /\ phase = [j \in Jobs |-> "absent"]
        /\ record = [j \in Jobs |-> [lvl |-> -1, failed |-> "no"]]

Moves(j, from, to) ==
    phase[j] \in from /\ phase'[j] = to /\ record'[j] = record[j]

(* One more level, or the failure that ends the run; never less. *)
Records(j) ==
    /\ phase[j] = "running" /\ phase'[j] = "running"
    /\ record[j].failed = "no"
    /\ \/ record[j].lvl < Levels /\ record'[j] = [record[j] EXCEPT !.lvl = @ + 1]
       \/ \E why \in {"node", "ctx"} : record'[j] = [record[j] EXCEPT !.failed = why]

(* `done` is reported only of a job whose end is in the record. *)
Completes(j) ==
    /\ record[j].lvl = Levels \/ record[j].failed # "no"
    /\ Moves(j, {"running"}, "done")

Step(j) ==
    \/ Moves(j, {"absent"}, "pending")
    \/ Moves(j, {"pending"}, "running")
    \/ Records(j)
    \/ Completes(j)
    \/ Moves(j, {"running"}, "failed")
    \/ Moves(j, {"pending", "running"}, "cancelled")

Rests(j) == phase'[j] = phase[j] /\ record'[j] = record[j]

(* One transaction of the queue may move several jobs. *)
Next == \A j \in Jobs : Step(j) \/ Rests(j)

Spec == Init /\ [][Next]_vars
=============================================================================

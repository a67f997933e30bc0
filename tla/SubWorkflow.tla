---------------------------- MODULE SubWorkflow ----------------------------
(***************************************************************************)
(* A parent node that awaits a child run (subworkflow.go,                   *)
(* subworkflow_parked.go, subworkflow_queue.go), in its three styles: the   *)
(* child is driven inline by the node itself, by the host ("parked"), or by *)
(* a worker of the queue ("queue").                                         *)
(*                                                                          *)
(* The child is its row in work_queue and its journal in the snapshot       *)
(* store: absent, under way, or terminal, and what it holds under the       *)
(* result key.  That is a data key like any other: a child under way or one *)
(* that failed may have set it, and a complete one may have left it out.    *)
(* The parent reads the journal and the row in two reads; the child's side  *)
(* (executeLocked's saves, MarkDone/MarkFailed, the completion signal)      *)
(* moves between them.                                                      *)
(***************************************************************************)
EXTENDS Integers

CONSTANTS Styles,       \* of "inline", "parked", "queue"
          MaxStumbles   \* bound: crashes and refused spawns

ASSUME SubWorkflowAssumption == /\ Styles \subseteq {"inline", "parked", "queue"}
                                /\ MaxStumbles \in Nat

VARIABLES style,
          declares,   \* WithResult: the node declares a result key
          row,        \* the child's work_queue row
          journal,    \* the child's run in the store
          signal,     \* the completion signal in the parent's mailbox
          worker,     \* who drives the child, and how far it is
          parent,     \* the parent node in the store
          ppc,        \* where the parent's drive is
          seen,       \* the child journal the parent has loaded
          ruling,     \* the outcome the parent has decided on
          got,        \* the declared result in the parent's data
          stumbles

subVars == <<style, declares, row, journal, signal, worker, parent, ppc, seen, ruling, got, stumbles>>

TerminalRow == {"done", "failed", "cancelled"}

(* The value under the result key: absent, an early one, the last one.       *)
ResultValues == {"none", "draft", "final"}
Journals     == [run : {"none", "mid", "ok", "failed"}, answer : ResultValues]
NoRun        == [run |-> "none", answer |-> "none"]
RunEnds(end) == {j \in Journals : j.run = end}

SubTypeOK ==
    /\ style \in Styles /\ declares \in BOOLEAN
    /\ row \in {"none", "pending", "claimed"} \cup TerminalRow
    /\ {journal, seen} \subseteq Journals /\ got \in ResultValues
    /\ signal \in BOOLEAN
    /\ worker \in {"idle", "run", "ok", "failed", "signal"}
    /\ {parent, ruling} \subseteq {"pending", "waiting", "completed", "failed"}
    /\ ppc \in {"off", "load", "row", "child", "save"}
    /\ stumbles \in 0..MaxStumbles

SubInit ==
    /\ style \in Styles /\ declares \in BOOLEAN
    /\ row = "none" /\ journal = NoRun /\ signal = FALSE /\ worker = "idle"
    /\ parent = "pending" /\ ppc = "off" /\ seen = NoRun /\ ruling = "pending"
    /\ got = "none" /\ stumbles = 0

Stumble == stumbles < MaxStumbles /\ stumbles' = stumbles + 1

ParentOver == parent \in {"completed", "failed"}

Rules(r) == ruling' = r /\ ppc' = "save"

---------------------------------------------------------------------------
(* The parent *)

(* The node's Execute: a queue child is enqueued, which does nothing when    *)
(* its row is there; the drive stack or the carried depth admits the spawn.  *)
ParentEnters ==
    /\ ppc = "off" /\ ~ParentOver
    /\ row' = IF style = "queue" /\ row = "none" THEN "pending" ELSE row
    /\ ppc' = "load"
    /\ UNCHANGED <<style, declares, journal, signal, worker, parent, seen, ruling, got, stumbles>>

(* depthExceeded, an ancestor cycle, an unknown type, a row with another     *)
(* type or input: the node fails before anything is spawned.                 *)
SpawnRefused ==
    /\ ppc = "off" /\ ~ParentOver
    /\ Stumble
    /\ Rules("failed")
    /\ UNCHANGED <<style, declares, row, journal, signal, worker, parent, seen, got>>

ParentLoads ==
    /\ ppc = "load"
    /\ seen' = journal
    /\ ppc' = IF style = "inline" THEN "child" ELSE "row"
    /\ UNCHANGED <<style, declares, row, journal, signal, worker, parent, ruling, got, stumbles>>

(* Mutant of ApplyResult: the declared result is not looked for.             *)
ApplyResultUnchecked(j) == "completed"

(* applyResult, over the journal that was loaded: a declared result whose    *)
(* key is not in it is a validation error.                                   *)
ApplyResult(j) == IF declares /\ j.answer = "none" THEN "failed" ELSE "completed"

(* Mutant of QueueVerdict: a missing journal is unfinished work, whatever    *)
(* the row says.                                                             *)
QueueVerdictJournalFirst ==
    CASE seen.run = "none"              -> "waiting"
      [] row \in {"failed", "cancelled"} -> "failed"
      [] row = "done"                   -> IF seen.run = "none" THEN "failed" ELSE ApplyResult(seen)
      [] OTHER                          -> "waiting"

(* The queue's row is the authority on a queue child; a done row without a   *)
(* journal is reported as corrupt.                                           *)
QueueVerdict ==
    CASE row \in {"failed", "cancelled"} -> "failed"
      [] row = "done"                   -> IF seen.run = "none" THEN "failed" ELSE ApplyResult(seen)
      [] OTHER                          -> "waiting"

(* childTerminal and childRunFailed, over the journal alone. *)
JournalVerdict ==
    CASE seen.run = "ok"     -> ApplyResult(seen)
      [] seen.run = "failed" -> "failed"
      [] OTHER               -> "waiting"

ParentJudges ==
    /\ ppc = "row"
    /\ Rules(IF row # "none" THEN QueueVerdict ELSE JournalVerdict)
    /\ UNCHANGED <<style, declares, row, journal, signal, worker, parent, seen, got, stumbles>>

(* The inline child: a complete journal is used as it is, anything else is   *)
(* driven or resumed under the same child id; its error is the node's, and   *)
(* without one the journal is loaded again.                                  *)
InlineChild ==
    /\ ppc = "child"
    /\ \/ /\ seen.run \in {"ok", "failed"}   \* a failed child runs nothing and returns nil
          /\ Rules(ApplyResult(seen)) /\ UNCHANGED <<journal, seen, stumbles>>
       \/ /\ seen.run \in {"none", "mid"}
          /\ journal' \in RunEnds("ok") /\ seen' = journal'
          /\ Rules(ApplyResult(journal')) /\ UNCHANGED stumbles
       \/ /\ seen.run \in {"none", "mid"} /\ Stumble
          /\ journal' \in RunEnds("failed") /\ Rules("failed") /\ UNCHANGED seen
    /\ UNCHANGED <<style, declares, row, signal, worker, parent, got>>

InlineCheckpoint ==
    /\ ppc = "child" /\ seen.run = "none" /\ journal.run = "none"
    /\ journal' \in RunEnds("mid")
    /\ UNCHANGED <<style, declares, row, signal, worker, parent, ppc, seen, ruling, got, stumbles>>

(* The parent's checkpoint, with the result of a completed node, which acks  *)
(* the signal after it.                                                      *)
ParentSaves ==
    /\ ppc = "save"
    /\ parent' = ruling
    /\ signal' = (signal /\ ruling # "completed")
    /\ got' = IF declares /\ ruling = "completed" THEN seen.answer ELSE got
    /\ ppc' = "off" /\ ruling' = "pending" /\ seen' = NoRun
    /\ UNCHANGED <<style, declares, row, journal, worker, stumbles>>

ParentCrash ==
    /\ ppc # "off"
    /\ Stumble
    /\ ppc' = "off" /\ ruling' = "pending" /\ seen' = NoRun
    /\ UNCHANGED <<style, declares, row, journal, signal, worker, parent, got>>

---------------------------------------------------------------------------
(* The child of the queue, or of the host *)

ChildClaimed ==
    /\ worker = "idle"
    /\ \/ style = "queue" /\ row \in {"pending", "claimed"} /\ row' = "claimed"
       \/ style = "parked" /\ journal.run \in {"none", "mid"} /\ UNCHANGED row
    /\ worker' = "run"
    /\ UNCHANGED <<style, declares, journal, signal, parent, ppc, seen, ruling, got, stumbles>>

(* The factory or the seed fails: a terminal row and no journal. *)
ConstructionFails ==
    /\ style = "queue" /\ worker = "run" /\ journal.run = "none"
    /\ Stumble
    /\ row' = "failed" /\ worker' = "signal"
    /\ UNCHANGED <<style, declares, journal, signal, parent, ppc, seen, ruling, got>>

ChildCheckpoints ==
    /\ worker = "run" /\ journal.run = "none"
    /\ journal' \in RunEnds("mid")
    /\ UNCHANGED <<style, declares, row, signal, worker, parent, ppc, seen, ruling, got, stumbles>>

(* executeLocked's last Save; a run that is terminal already is not run. *)
ChildSaves(end) ==
    /\ worker = "run"
    /\ \/ /\ journal.run \in {"none", "mid"}
          /\ journal' \in RunEnds(end) /\ worker' = end
       \/ /\ journal.run \in {"ok", "failed"} /\ end = "ok"
          /\ worker' = "ok" /\ UNCHANGED journal
    /\ UNCHANGED <<style, declares, row, signal, parent, ppc, seen, ruling, got, stumbles>>

(* MarkDone or MarkFailed; an operator's cancel may have been first. *)
ChildMarks ==
    /\ worker \in {"ok", "failed"}
    /\ row' = IF row = "claimed" THEN (IF worker = "ok" THEN "done" ELSE "failed") ELSE row
    /\ worker' = "signal"
    /\ UNCHANGED <<style, declares, journal, signal, parent, ppc, seen, ruling, got, stumbles>>

(* deliverSubWorkflowCompletion, best effort and after the row. *)
CompletionSignalled ==
    /\ worker = "signal"
    /\ signal' = TRUE /\ worker' = "idle"
    /\ UNCHANGED <<style, declares, row, journal, parent, ppc, seen, ruling, got, stumbles>>

ChildDriverDies ==
    /\ worker # "idle"
    /\ Stumble
    /\ worker' = "idle"
    /\ UNCHANGED <<style, declares, row, journal, signal, parent, ppc, seen, ruling, got>>

(* CancelRun on a row that nobody runs: it wakes the parent as well. *)
OperatorCancels ==
    /\ worker = "idle" /\ row \in {"pending", "claimed"}
    /\ Stumble
    /\ row' = "cancelled" /\ signal' = TRUE
    /\ UNCHANGED <<style, declares, journal, worker, parent, ppc, seen, ruling, got>>

ParentStep == ParentLoads \/ ParentJudges \/ InlineChild \/ ParentSaves

SubNext ==
    \/ ParentEnters \/ ParentStep \/ SpawnRefused \/ InlineCheckpoint \/ ParentCrash
    \/ ChildClaimed \/ ConstructionFails \/ ChildCheckpoints \/ ChildMarks
    \/ (\E end \in {"ok", "failed"} : ChildSaves(end))
    \/ CompletionSignalled \/ ChildDriverDies \/ OperatorCancels

SubSpec == SubInit /\ [][SubNext]_subVars

---------------------------------------------------------------------------
(* Properties *)

(* A parent whose child is over reaches its own verdict, though the          *)
(* completion signal is lost with the worker that was to send it, and though *)
(* a child that failed before it ran has no journal: a parked parent is      *)
(* claimed again when its lease lapses, and looks at the child itself.       *)
ParentLearns == row \in TerminalRow \/ (row = "none" /\ journal.run \in {"ok", "failed"}) ~> ParentOver

(* A parent completes only over a child that is over, and with a declared    *)
(* result only when it has one: though it reads the child's journal and row  *)
(* at two moments, with the child running on in between, and though a failed *)
(* child that is driven again is taken for a success, inline and by a worker *)
(* (subworkflow.go: a declared result key the child did not set is an error).*)
(* Where the journal is the authority the result is the one the child ended  *)
(* with, and a host-driven child has completed; the journal read before a    *)
(* row turned done may have held an earlier value, which the parent keeps.   *)
CompletedOverResult ==
    parent = "completed" =>
        /\ journal.run \in {"ok", "failed"}
        /\ style = "parked" => journal.run = "ok"
        /\ declares => got # "none" /\ (style # "queue" => got = journal.answer)

(* What the comment on the done row says: "Queue-terminal success -> the     *)
(* journal carries the result".  A parent does not fail over a child that    *)
(* succeeded and has set what was declared.                                  *)
DoneChildNeverFailsParent ==
    parent = "failed" => ~ /\ row = "done" /\ journal.run = "ok"
                           /\ declares => journal.answer # "none"
=============================================================================

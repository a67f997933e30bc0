----------------------------- MODULE Schedules -----------------------------
(***************************************************************************)
(* Durable schedules (schedule.go) and the pollers that fire them           *)
(* (schedule_poller.go).  A poller snapshots the due ids and then fires     *)
(* each in a transaction of its own: re-read, claim the schedule's lease,   *)
(* ask the caps, enqueue the run of this slot, advance or delete the row.   *)
(*                                                                          *)
(* The queue is cut to what the caps count: a scheduled run is pending,     *)
(* running (claimed and not parked), parked or over.  Time is the injected  *)
(* clock, in minutes; the lease of a schedule ages with it.                 *)
(***************************************************************************)
EXTENDS Lease, Cron, Sequences, FiniteSets

CONSTANTS Schedule,      \* schedule ids
          SpecsFor,      \* id -> the specs it may be registered with
          NoSpec,        \* the spec of an id with no row
          BacklogCap,    \* Caps.PerType of the target type; 0 is "uncapped"
          MaxTime,       \* bound: the clock stops here
          MaxInt64,      \* the largest time the interval arithmetic may reach
          MaxUpsets      \* bound: operator actions, store errors and crashes

ASSUME ScheduleAssumption ==
    /\ IsFiniteSet(Schedule)
    /\ \A s \in Schedule : \A spec \in SpecsFor[s] :
           \/ spec.kind = "oneshot" /\ spec.at \in Nat
           \/ spec.kind = "interval" /\ spec.period \in Int
           \/ spec.kind = "cron" /\ \A f \in CronFields : \A term \in spec.cron[f] :
                 term.lo \in Int /\ term.hi \in Int /\ term.step \in Int
    /\ 0..MaxTime + CronHorizon \subseteq DOMAIN Calendar
    /\ BacklogCap \in Nat /\ MaxTime \in Nat /\ MaxInt64 \in Nat /\ MaxUpsets \in Nat

VARIABLES sched,      \* schedules: id -> [spec, next, paused]
          slotLease,  \* leases under the key "schedule:"+id
          runs,       \* work_queue: <<id, slot>> -> state
          todo,       \* the ids a poller's tick has still to fire, in order
          clock,
          upsets,
          anchor,     \* history: the clock when a row's next fire was computed
          hasParked   \* history: runs that have been parked

scVars == <<sched, slotLease, runs, todo, clock, upsets, anchor, hasParked>>

NoSchedule == [spec |-> NoSpec, next |-> 0, paused |-> FALSE]

RunStates == {"pending", "running", "parked", "over"}

ScTypeOK ==
    /\ \A s \in Schedule : sched[s].spec \in SpecsFor[s] \cup {NoSpec}
    /\ slotLease \in [Schedule -> Leases]
    /\ DOMAIN runs \subseteq Schedule \X Nat
    /\ \A r \in DOMAIN runs : runs[r] \in RunStates
    /\ \A p \in Workers : todo[p] \in Seq(Schedule)
    /\ clock \in 0..MaxTime /\ upsets \in 0..MaxUpsets
    /\ hasParked \subseteq DOMAIN runs

ScInit ==
    /\ sched     = [s \in Schedule |-> NoSchedule]
    /\ slotLease = [s \in Schedule |-> NoLease]
    /\ runs      = [r \in {} |-> "pending"]
    /\ todo      = [p \in Workers |-> <<>>]
    /\ clock     = 0
    /\ upsets    = 0
    /\ anchor    = [s \in Schedule |-> 0]
    /\ hasParked = {}

Upset == upsets < MaxUpsets /\ upsets' = upsets + 1

Registered(s) == sched[s].spec # NoSpec

---------------------------------------------------------------------------
(* Registration and the operator *)

(* The constructors' first fire; 0 when the constructor refuses. *)
FirstFire(spec) ==
    CASE spec.kind = "oneshot" -> spec.at
      [] spec.kind = "interval" -> IF spec.period > 0 THEN clock + spec.period ELSE 0
      [] spec.kind = "cron" -> IF CronOK(spec.cron) THEN CronNext(spec.cron, clock) ELSE 0

(* CreateSchedule: ON CONFLICT DO NOTHING, so a registered id is left alone. *)
CreateSchedule(s, spec) ==
    /\ ~Registered(s)
    /\ FirstFire(spec) # 0
    /\ sched'  = [sched EXCEPT ![s] = [spec |-> spec, next |-> FirstFire(spec), paused |-> FALSE]]
    /\ anchor' = [anchor EXCEPT ![s] = clock]
    /\ UNCHANGED <<slotLease, runs, todo, clock, upsets, hasParked>>

SetSchedulePaused(s, on) ==
    /\ Registered(s)
    /\ sched[s].paused # on
    /\ Upset
    /\ sched' = [sched EXCEPT ![s].paused = on]
    /\ UNCHANGED <<slotLease, runs, todo, clock, anchor, hasParked>>

(* DeleteSchedule: the row and its lease, in one transaction. *)
DeleteSchedule(s) ==
    /\ Registered(s)
    /\ Upset
    /\ sched'     = [sched EXCEPT ![s] = NoSchedule]
    /\ slotLease' = [slotLease EXCEPT ![s] = NoLease]
    /\ UNCHANGED <<runs, todo, clock, anchor, hasParked>>

---------------------------------------------------------------------------
(* The poller *)

DueNow(s) == Registered(s) /\ ~sched[s].paused /\ sched[s].next <= clock

(* tick: dueScheduleIDs ORDER BY next_fire_time, read in one go; rows of the *)
(* same time come in any order.                                              *)
PollerScans(p) ==
    LET due == {s \in Schedule : DueNow(s)}
    IN  /\ todo[p] = <<>>
        /\ due # {}
        /\ \E order \in [1..Cardinality(due) -> due] :
              /\ \A i, j \in DOMAIN order :
                    i < j => order[i] # order[j] /\ sched[order[i]].next <= sched[order[j]].next
              /\ todo' = [todo EXCEPT ![p] = order]
        /\ UNCHANGED <<sched, slotLease, runs, clock, upsets, anchor, hasParked>>

(* Mutant of CapAdmits: pending runs are not counted.                        *)
CapAdmitsRunningOnly ==
    BacklogCap = 0 \/ Cardinality({r \in DOMAIN runs : runs[r] = "running"}) < BacklogCap

(* capAdmits: running plus pending, counted inside the transaction. *)
CapAdmits ==
    \/ BacklogCap = 0
    \/ Cardinality({r \in DOMAIN runs : runs[r] \in {"pending", "running"}}) < BacklogCap

(* advanceSchedule: the first slot after now; 0 is computeErr (an overflow,  *)
(* or no fire time left within the horizon).                                 *)
AdvanceSchedule(spec, next, now) ==
    IF spec.kind = "cron" THEN CronNext(spec.cron, now)
    ELSE LET k == (now - next) \div spec.period + 1
         IN  IF spec.period > (MaxInt64 - next) \div k THEN 0 ELSE next + k * spec.period

(* enqueueRunLocked: a run that is there already is left alone. *)
WithRun(r) == IF r \in DOMAIN runs THEN runs
              ELSE [x \in DOMAIN runs \cup {r} |-> IF x = r THEN "pending" ELSE runs[x]]

(* claimLocked on the schedule's key.  Nobody reads this lease's token: the   *)
(* fire is one transaction, so the model does not count it.                  *)
SlotGrant(l, o) == [Grant(l, o) EXCEPT !.token = 1]

Popped(p) == [todo EXCEPT ![p] = Tail(@)]

(* Mutant of FireOneshot: the row goes whether or not the caps admit it.     *)
FireOneshotAlways(s, o) ==
    /\ sched'     = [sched EXCEPT ![s] = NoSchedule]
    /\ slotLease' = [slotLease EXCEPT ![s] = NoLease]
    /\ runs'      = IF CapAdmits THEN WithRun(<<s, sched[s].next>>) ELSE runs
    /\ UNCHANGED anchor

(* An admitted one-shot is enqueued and deleted with its lease; at the cap   *)
(* the row stays due, and only the claim's lease is written.                 *)
FireOneshot(s, o) ==
    /\ IF CapAdmits
       THEN /\ sched'     = [sched EXCEPT ![s] = NoSchedule]
            /\ slotLease' = [slotLease EXCEPT ![s] = NoLease]
            /\ runs'      = WithRun(<<s, sched[s].next>>)
       ELSE /\ slotLease' = [slotLease EXCEPT ![s] = SlotGrant(@, o)]
            /\ UNCHANGED <<sched, runs>>
    /\ UNCHANGED anchor

(* Mutant of FireRecurring: a schedule without a next slot is left as it is. *)
FireRecurringStuck(s, o) ==
    LET next == AdvanceSchedule(sched[s].spec, sched[s].next, clock)
    IN  /\ slotLease' = [slotLease EXCEPT ![s] = SlotGrant(@, o)]
        /\ IF next = 0 THEN UNCHANGED <<sched, runs, anchor>>
           ELSE /\ sched' = [sched EXCEPT ![s].next = next]
                /\ anchor' = [anchor EXCEPT ![s] = clock]
                /\ runs' = IF CapAdmits THEN WithRun(<<s, sched[s].next>>) ELSE runs

(* A recurring schedule moves to its next slot whether or not it enqueued;   *)
(* one that cannot is paused.                                                *)
FireRecurring(s, o) ==
    LET next == AdvanceSchedule(sched[s].spec, sched[s].next, clock)
    IN  /\ slotLease' = [slotLease EXCEPT ![s] = SlotGrant(@, o)]
        /\ IF next = 0
           THEN /\ sched' = [sched EXCEPT ![s].paused = TRUE]
                /\ UNCHANGED <<runs, anchor>>
           ELSE /\ sched' = [sched EXCEPT ![s].next = next]
                /\ anchor' = [anchor EXCEPT ![s] = clock]
                /\ runs' = IF CapAdmits THEN WithRun(<<s, sched[s].next>>) ELSE runs

(* fireDueLocked, for the id at the head of the tick's list. *)
FireDue(p) ==
    /\ todo[p] # <<>>
    /\ todo' = Popped(p)
    /\ UNCHANGED <<clock, upsets, hasParked>>
    /\ LET s == Head(todo[p])
       IN  IF DueNow(s) /\ Granted(slotLease[s], p)
           THEN IF sched[s].spec.kind = "oneshot" THEN FireOneshot(s, p) ELSE FireRecurring(s, p)
           ELSE UNCHANGED <<sched, slotLease, runs, anchor>>

(* The transaction fails; the error is swallowed and the tick goes on. *)
FireFails(p) ==
    /\ todo[p] # <<>>
    /\ Upset
    /\ todo' = Popped(p)
    /\ UNCHANGED <<sched, slotLease, runs, clock, anchor, hasParked>>

(* The poller's process dies within a tick and starts again. *)
PollerDies(p) ==
    /\ todo[p] # <<>>
    /\ Upset
    /\ todo' = [todo EXCEPT ![p] = <<>>]
    /\ UNCHANGED <<sched, slotLease, runs, clock, anchor, hasParked>>

---------------------------------------------------------------------------
(* The queue's side of a scheduled run, and the clock *)

RunMoves(r, from, to) ==
    /\ runs[r] = from
    /\ runs' = [runs EXCEPT ![r] = to]
    /\ UNCHANGED <<sched, slotLease, todo, clock, anchor>>

(* A worker claims a pending or parked run, parks it or finishes it. *)
RunClaimed(r) == (RunMoves(r, "pending", "running") \/ RunMoves(r, "parked", "running"))
                 /\ UNCHANGED <<upsets, hasParked>>
RunParked(r)  == RunMoves(r, "running", "parked") /\ Upset /\ hasParked' = hasParked \cup {r}
RunOver(r)    == RunMoves(r, "running", "over") /\ UNCHANGED <<upsets, hasParked>>

(* A lapsed lease is claimed like an absent one, and its token is not        *)
(* counted: it is kept as an absent one.                                     *)
SlotAged(l) == IF Aged(l).left <= 0 THEN NoLease ELSE Aged(l)

(* At MaxTime the leases go on ageing. *)
MinutePasses ==
    /\ clock < MaxTime \/ \E s \in Schedule : slotLease[s].left > 0
    /\ clock' = IF clock < MaxTime THEN clock + 1 ELSE clock
    /\ slotLease' = [s \in Schedule |-> SlotAged(slotLease[s])]
    /\ UNCHANGED <<sched, runs, todo, upsets, anchor, hasParked>>

Polls(p) == PollerScans(p) \/ FireDue(p)

ScNext ==
    \/ \E s \in Schedule : \/ \E spec \in SpecsFor[s] : CreateSchedule(s, spec)
                           \/ \E on \in BOOLEAN : SetSchedulePaused(s, on)
                           \/ DeleteSchedule(s)
    \/ \E p \in Workers : Polls(p) \/ FireFails(p) \/ PollerDies(p)
    \/ \E r \in DOMAIN runs : RunClaimed(r) \/ RunParked(r) \/ RunOver(r)
    \/ MinutePasses

ScSpec == ScInit /\ [][ScNext]_scVars

(* The workers drain what they have claimed. *)
WorkersDrain == \E r \in DOMAIN runs : RunClaimed(r) \/ RunOver(r)

---------------------------------------------------------------------------
(* Properties *)

(* A one-shot that was registered is never lost: when its row is gone and    *)
(* the operator did not delete it, the run of its slot is in the queue, also *)
(* when the caps were full when it came due (schedule.go: "DROPPING it on a  *)
(* TRANSIENT cap silently loses it").                                        *)
OneshotNeverLost ==
    [][\A s \in Schedule :
          Registered(s) /\ sched[s].spec.kind = "oneshot" /\ sched'[s].spec = NoSpec =>
              \/ <<s, sched[s].next>> \in DOMAIN runs'
              \/ DeleteSchedule(s)]_scVars

(* The backlog the schedules make is bounded by the cap, whatever the number *)
(* of pollers, missed slots and crashes.  A run that has been parked does    *)
(* not count: the caps forget it while it is parked, and it comes back.      *)
BacklogBounded ==
    BacklogCap # 0 =>
        Cardinality({r \in DOMAIN runs : runs[r] \in {"pending", "running"}
                                         /\ r \notin hasParked}) <= BacklogCap

(* What the minute of a cron expression is by the manual: every field        *)
(* allows its value, except that two restricted day fields are alternatives. *)
Allows(spec, f, t) == \E term \in spec[f] :
    \/ term.base = "value" /\ Calendar[t][f] = term.lo
    \/ term.base = "range" /\ \E i \in 0..60 :
           Calendar[t][f] = term.lo + i * Step(term) /\ Calendar[t][f] <= term.hi
    \/ term.base = "*" /\ \E i \in 0..60 :
           Calendar[t][f] = FieldRange[f][1] + i * Step(term)

Open(spec, f) == \A term \in spec[f] : term.base = "*" /\ Step(term) = 1

Fires(spec, t) ==
    /\ \A f \in {"minute", "hour", "month"} : Allows(spec, f, t)
    /\ IF Open(spec, "dom") \/ Open(spec, "dow")
       THEN Allows(spec, "dom", t) /\ Allows(spec, "dow", t)
       ELSE Allows(spec, "dom", t) \/ Allows(spec, "dow", t)

(* A recurring schedule stands at the first of its slots after the moment it *)
(* last fired: it skips no slot but those that had passed by then, and never *)
(* fires outside its calendar or off its period.                             *)
NextSlotExact ==
    \A s \in Schedule : Registered(s) =>
        LET spec == sched[s].spec
            between == anchor[s] + 1..sched[s].next - 1
        IN  CASE spec.kind = "cron" -> /\ Fires(spec.cron, sched[s].next)
                                       /\ \A t \in between : ~Fires(spec.cron, t)
              [] spec.kind = "interval" -> /\ sched[s].next > anchor[s]
                                           /\ sched[s].next <= anchor[s] + spec.period
              [] OTHER -> TRUE

(* A due schedule is fired, advanced or put out of action in the end: a      *)
(* poller that dies with the schedule's lease holds it up for a lease term   *)
(* only, and a full cap until the workers drain.                             *)
DueScheduleFires == \A s \in Schedule : DueNow(s) ~> ~DueNow(s)
=============================================================================

-------------------------- MODULE SchedulesProofs --------------------------
(***************************************************************************)
(* Proofs about Schedules and Cron, for any schedules, pollers, calendar,   *)
(* cron expressions, cap and number of upsets: the cap bounds the backlog,  *)
(* a one-shot is never lost, and a recurring schedule stands at the first   *)
(* of its slots after the moment it last fired.                             *)
(***************************************************************************)
EXTENDS Schedules, FiniteSetTheorems, WellFoundedInduction, TLAPS

---------------------------------------------------------------------------
(* Arithmetic of the slots *)

LEMMA DivideBy ==
  ASSUME NEW a \in Nat, NEW b \in Nat \ {0}
  PROVE  \E q, r \in Nat : /\ q = a \div b /\ r = a % b
                           /\ a = b * q + r /\ r < b
<1>1. PICK q \in Nat, r \in Nat : q = a \div b /\ r = a % b
  OBVIOUS
<1>2. a = b * q + r /\ r < b
  BY <1>1
<1> QED
  BY <1>1, <1>2

LEMMA MultipleOf ==
  ASSUME NEW a \in Nat, NEW b \in Nat \ {0}
  PROVE  a % b = 0 <=> \E i \in 0..a : a = i * b
<1>0. PICK q \in Nat, r \in Nat : q = a \div b /\ r = a % b /\ a = b * q + r /\ r < b
  BY DivideBy
<1>1. ASSUME a % b = 0 PROVE \E i \in 0..a : a = i * b
  <2>1. a = b * q
    BY <1>0, <1>1
  <2>2. q <= a /\ a = q * b
    BY <2>1
  <2> QED
    BY <2>1, <2>2
<1>2. ASSUME NEW i \in 0..a, a = i * b PROVE r = 0
  <2>1. r < b /\ i * b = b * q + r
    BY <1>0, <1>2
  <2>2. CASE i >= q + 1
    <3>1. i * b >= (q + 1) * b
      BY <2>1, <2>2
    <3>2. (q + 1) * b = b * q + b
      BY <2>1
    <3> QED
      BY <2>1, <3>1, <3>2
  <2>3. CASE i <= q
    <3>1. i * b <= q * b
      BY <2>1, <2>3
    <3> QED
      BY <2>1, <3>1
  <2> QED
    BY <2>1, <2>2, <2>3
<1> QED
  BY <1>0, <1>1, <1>2

(* The first multiple of the period past `now`. *)
LEMMA NextMultiple ==
  ASSUME NEW next \in Nat, NEW now \in Nat, next <= now, NEW period \in Nat \ {0}
  PROVE  LET k == (now - next) \div period + 1
         IN  /\ next + k * period \in Nat
             /\ now < next + k * period /\ next + k * period <= now + period
<1> DEFINE a == now - next
<1>1. a \in Nat
  OBVIOUS
<1> HIDE DEF a
<1>2. PICK q \in Nat, r \in Nat : q = a \div period /\ r < period /\ a = period * q + r
  BY <1>1, DivideBy
<1>3. (q + 1) * period = period * q + period /\ period * q \in Nat
  BY <1>2
<1>4. /\ next + (q + 1) * period \in Nat
      /\ now < next + (q + 1) * period /\ next + (q + 1) * period <= now + period
  BY <1>2, <1>3 DEF a
<1> QED
  BY <1>2, <1>4 DEF a

---------------------------------------------------------------------------
(* The cron expressions *)

(* The terms the assumption on the constants admits. *)
TermsTyped(spec) == \A f \in CronFields : \A term \in spec[f] :
                        term.lo \in Int /\ term.hi \in Int /\ term.step \in Int

(* A field's bits are the values its terms allow, however a stepped range is *)
(* counted.                                                                  *)
LEMMA MatchesIffAllows ==
  ASSUME NEW spec, TermsTyped(spec), CronOK(spec), NEW f \in CronFields, NEW t \in DOMAIN Calendar
  PROVE  FieldMatches(spec, f, t) <=> Allows(spec, f, t)
<1> DEFINE v == Calendar[t][f]
           min == FieldRange[f][1]
           max == FieldRange[f][2]
<1>0. min \in Int /\ max \in Int /\ max - min <= 60 /\ v \in min..max
  BY CalendarAssumption
<1> DEFINE has(term) == /\ v \in Low(term, f)..High(term, f)
                        /\ (v - Low(term, f)) % Step(term) = 0
           allows(term) == \/ term.base = "value" /\ v = term.lo
                           \/ term.base = "range" /\ \E i \in 0..60 :
                                 v = term.lo + i * Step(term) /\ v <= term.hi
                           \/ term.base = "*" /\ \E i \in 0..60 : v = min + i * Step(term)
<1>1. FieldMatches(spec, f, t) <=> \E term \in spec[f] : has(term)
  BY DEF FieldMatches, Bits
<1>2. Allows(spec, f, t) <=> \E term \in spec[f] : allows(term)
  BY DEF Allows
<1> HIDE DEF v, min, max
<1>3. ASSUME NEW lo \in Int, NEW step \in Nat \ {0}, NEW hi \in Int, lo >= min, hi <= max
      PROVE  v \in lo..hi /\ (v - lo) % step = 0
             <=> \E i \in 0..60 : v = lo + i * step /\ v <= hi
  <2>1. ASSUME v \in lo..hi, (v - lo) % step = 0
        PROVE  \E i \in 0..60 : v = lo + i * step /\ v <= hi
    <3> DEFINE a == v - lo
    <3>1. a \in Nat /\ a <= 60 /\ a % step = 0
      BY <1>0, <1>3, <2>1
    <3> HIDE DEF a
    <3>2. PICK i \in 0..a : a = i * step
      BY <3>1, MultipleOf
    <3>3. i \in 0..60 /\ v = lo + i * step /\ v <= hi
      BY <1>0, <2>1, <3>1, <3>2 DEF a
    <3> QED
      BY <3>3
  <2>2. ASSUME NEW i \in 0..60, v = lo + i * step, v <= hi
        PROVE  v \in lo..hi /\ (v - lo) % step = 0
    <3>1. i * step \in Nat /\ i <= i * step
      OBVIOUS
    <3>2. v - lo = i * step /\ v >= lo
      BY <2>2, <3>1
    <3>3. (i * step) % step = 0
      <4> DEFINE a == i * step
      <4>1. a \in Nat /\ i \in 0..a /\ a = i * step
        BY <3>1
      <4> HIDE DEF a
      <4>2. a % step = 0
        BY <4>1, MultipleOf
      <4> QED
        BY <4>2 DEF a
    <3> QED
      BY <1>0, <2>2, <3>2, <3>3
  <2> QED
    BY <2>1, <2>2
<1>4. ASSUME NEW term \in spec[f] PROVE has(term) <=> allows(term)
  <2>1. TermOK(term, f) /\ term.lo \in Int /\ term.hi \in Int /\ term.step \in Int /\ term.step >= 0
    BY <1>4 DEF CronOK, TermOK, TermsTyped
  <2>2. Step(term) \in Nat \ {0}
    BY <2>1 DEF Step
  <2>3. CASE term.base = "value"
    <3>1. Low(term, f) = term.lo /\ High(term, f) = term.lo
      BY <2>3 DEF Low, High
    <3>2. v = term.lo => (v - term.lo) % Step(term) = 0
      <4>1. v = term.lo => v - term.lo = 0
        BY <2>1
      <4>2. 0 % Step(term) = 0
        BY <2>2
      <4> QED
        BY <4>1, <4>2
    <3> QED
      BY <1>0, <2>1, <2>3, <3>1, <3>2
  <2>4. CASE term.base = "range"
    <3>1. /\ Low(term, f) = term.lo /\ High(term, f) = term.hi
          /\ term.lo >= min /\ term.hi <= max
      BY <1>0, <2>1, <2>4 DEF Low, High, TermOK, InRange, min, max
    <3>2. v \in term.lo..term.hi /\ (v - term.lo) % Step(term) = 0
          <=> \E i \in 0..60 : v = term.lo + i * Step(term) /\ v <= term.hi
      BY <1>3, <2>1, <2>2, <3>1, Zenon
    <3> QED
      BY <2>4, <3>1, <3>2
  <2>5. CASE term.base = "*"
    <3>1. Low(term, f) = min /\ High(term, f) = max
      BY <2>5 DEF Low, High, min, max
    <3>2. v \in min..max /\ (v - min) % Step(term) = 0
          <=> \E i \in 0..60 : v = min + i * Step(term) /\ v <= max
      <4>1. min >= min /\ max <= max
        BY <1>0
      <4> QED
        BY <1>0, <1>3, <2>2, <4>1, Zenon
    <3> QED
      BY <1>0, <2>5, <3>1, <3>2
  <2> QED
    BY <2>1, <2>3, <2>4, <2>5 DEF TermOK
<1> QED
  BY <1>1, <1>2, <1>4

(* dayMatches and the manual's rule for the two day fields agree, and so the *)
(* minutes Next looks for are the minutes at which the expression fires.     *)
LEMMA MatchingFires ==
  ASSUME NEW spec, TermsTyped(spec), CronOK(spec), NEW after \in 0..MaxTime,
         NEW t \in after + 1..after + CronHorizon
  PROVE  t \in Matching(spec, after) <=> Fires(spec, t)
<1>0. t \in DOMAIN Calendar /\ {"minute", "hour", "month", "dom", "dow"} \subseteq CronFields
  BY ScheduleAssumption, CalendarAssumption DEF CronFields
<1>1. \A f \in CronFields : FieldMatches(spec, f, t) <=> Allows(spec, f, t)
  BY <1>0, MatchesIffAllows
<1>2. \A f \in CronFields : Restricted(spec[f]) <=> ~Open(spec, f)
  BY DEF Restricted, Restricts, Open, CronOK, TermOK, TermsTyped, Step
<1>3. ASSUME NEW f \in CronFields, Open(spec, f) PROVE Allows(spec, f, t)
  <2>1. PICK term \in spec[f] : TRUE
    BY DEF CronOK
  <2>2. term.base = "*" /\ Step(term) = 1
    BY <1>3, <2>1 DEF Open
  <2>3. /\ FieldRange[f][1] \in Int /\ FieldRange[f][2] \in Int
        /\ FieldRange[f][2] - FieldRange[f][1] <= 60
        /\ Calendar[t][f] \in FieldRange[f][1]..FieldRange[f][2]
    BY <1>0, CalendarAssumption
  <2>4. PICK i \in 0..60 : Calendar[t][f] = FieldRange[f][1] + i * 1
    <3> DEFINE min == FieldRange[f][1]
               v == Calendar[t][f]
    <3>1. v - min \in 0..60 /\ v = min + (v - min) * 1
      BY <2>3
    <3> QED
      BY <3>1
  <2> QED
    BY <2>1, <2>2, <2>4 DEF Allows
<1>4. DayMatches(spec, t) <=> IF Open(spec, "dom") \/ Open(spec, "dow")
                             THEN Allows(spec, "dom", t) /\ Allows(spec, "dow", t)
                             ELSE Allows(spec, "dom", t) \/ Allows(spec, "dow", t)
  BY <1>0, <1>1, <1>2, <1>3 DEF DayMatches
<1> QED
  BY <1>0, <1>1, <1>4 DEF Matching, Fires

LEMMA EarliestExists ==
  ASSUME NEW S \in SUBSET Nat, S # {}
  PROVE  \E i \in S : \A j \in S : i <= j
<1>1. IsWellFoundedOn(OpToRel(<, Nat), Nat)
  BY NatLessThanWellFounded
<1>2. PICK i \in S : \A j \in S : ~ (<<j, i>> \in OpToRel(<, Nat))
  BY <1>1, WFMin, Zenon
<1>3. \A j \in S : ~ (j < i)
  BY <1>2 DEF OpToRel
<1> QED
  BY <1>3, SMT

(* Next: the first minute after `after` at which the expression fires. *)
LEMMA CronNextExact ==
  ASSUME NEW spec, TermsTyped(spec), CronOK(spec), NEW after \in 0..MaxTime,
         CronNext(spec, after) # 0
  PROVE  /\ CronNext(spec, after) \in Nat /\ Fires(spec, CronNext(spec, after))
         /\ \A t \in after + 1..CronNext(spec, after) - 1 : ~Fires(spec, t)
<1> DEFINE m == Matching(spec, after)
           n == CronNext(spec, after)
<1>1. m \in SUBSET Nat /\ m \subseteq after + 1..after + CronHorizon
  BY ScheduleAssumption, CalendarAssumption DEF Matching
<1>2. m # {} /\ n = CHOOSE t \in m : \A u \in m : t <= u
  BY DEF CronNext
<1> HIDE DEF n
<1>3. n \in m /\ \A u \in m : n <= u
  BY <1>1, <1>2, EarliestExists, Zenon
<1> HIDE DEF m
<1>4. n \in after + 1..after + CronHorizon /\ n \in Nat
  BY <1>1, <1>3
<1>5. Fires(spec, n)
  BY <1>3, <1>4, MatchingFires DEF m
<1>6. ASSUME NEW t \in after + 1..n - 1, Fires(spec, t) PROVE FALSE
  <2>1. t \in after + 1..after + CronHorizon /\ t < n
    BY <1>4, <1>6, ScheduleAssumption, CalendarAssumption
  <2>2. t \in m
    BY <1>6, <2>1, MatchingFires DEF m
  <2> QED
    BY <1>1, <1>3, <1>4, <2>1, <2>2
<1> QED
  BY <1>4, <1>5, <1>6 DEF n

---------------------------------------------------------------------------
(* A schedule stands at the first of its slots after `from`. *)

AtSlot(spec, from, next) ==
    /\ spec.kind = "cron" => /\ Fires(spec.cron, next)
                             /\ \A t \in from + 1..next - 1 : ~Fires(spec.cron, t)
    /\ spec.kind = "interval" => next > from /\ next <= from + spec.period

(* What the constructors let through. *)
Accepted(spec) == /\ spec.kind = "cron" => CronOK(spec.cron)
                  /\ spec.kind = "interval" => spec.period > 0

LEMMA SpecTyped ==
  ASSUME NEW s \in Schedule, NEW spec \in SpecsFor[s]
  PROVE  /\ spec.kind \in {"oneshot", "interval", "cron"}
         /\ spec.kind = "oneshot" => spec.at \in Nat
         /\ spec.kind = "interval" => spec.period \in Int
         /\ spec.kind = "cron" => TermsTyped(spec.cron)
  BY ScheduleAssumption DEF TermsTyped

LEMMA FirstFireExact ==
  ASSUME NEW s \in Schedule, NEW spec \in SpecsFor[s], clock \in 0..MaxTime, FirstFire(spec) # 0
  PROVE  /\ FirstFire(spec) \in Nat /\ Accepted(spec) /\ AtSlot(spec, clock, FirstFire(spec))
<1>0. /\ spec.kind \in {"oneshot", "interval", "cron"}
      /\ spec.kind = "oneshot" => spec.at \in Nat
      /\ spec.kind = "interval" => spec.period \in Int
      /\ spec.kind = "cron" => TermsTyped(spec.cron)
  BY SpecTyped
<1>1. CASE spec.kind = "oneshot"
  BY <1>0, <1>1 DEF FirstFire, Accepted, AtSlot
<1>2. CASE spec.kind = "interval"
  BY <1>0, <1>2, ScheduleAssumption DEF FirstFire, Accepted, AtSlot
<1>3. CASE spec.kind = "cron"
  <2>1. CronOK(spec.cron) /\ FirstFire(spec) = CronNext(spec.cron, clock)
    BY <1>3 DEF FirstFire
  <2> QED
    BY <1>0, <1>3, <2>1, CronNextExact DEF Accepted, AtSlot
<1> QED
  BY <1>0, <1>1, <1>2, <1>3

LEMMA AdvanceExact ==
  ASSUME NEW s \in Schedule, NEW spec \in SpecsFor[s], spec.kind # "oneshot", Accepted(spec),
         NEW now \in 0..MaxTime, NEW next \in Nat, next <= now,
         AdvanceSchedule(spec, next, now) # 0
  PROVE  /\ AdvanceSchedule(spec, next, now) \in Nat
         /\ AtSlot(spec, now, AdvanceSchedule(spec, next, now))
<1>0. /\ spec.kind \in {"oneshot", "interval", "cron"}
      /\ spec.kind = "interval" => spec.period \in Int
      /\ spec.kind = "cron" => TermsTyped(spec.cron)
  BY SpecTyped
<1>1. CASE spec.kind = "interval"
  <2> DEFINE k == (now - next) \div spec.period + 1
  <2>1. AdvanceSchedule(spec, next, now) = next + k * spec.period
    BY <1>1 DEF AdvanceSchedule
  <2>2. spec.period \in Nat \ {0} /\ now \in Nat
    BY <1>0, <1>1, ScheduleAssumption DEF Accepted
  <2>3. /\ next + k * spec.period \in Nat
        /\ now < next + k * spec.period /\ next + k * spec.period <= now + spec.period
    BY <2>2, NextMultiple
  <2> HIDE DEF k
  <2> QED
    BY <1>1, <2>1, <2>2, <2>3 DEF AtSlot
<1>2. CASE spec.kind = "cron"
  <2>1. CronOK(spec.cron) /\ AdvanceSchedule(spec, next, now) = CronNext(spec.cron, now)
    BY <1>2 DEF AdvanceSchedule, Accepted
  <2> QED
    BY <1>0, <1>2, <2>1, CronNextExact DEF AtSlot
<1> QED
  BY <1>0, <1>1, <1>2

---------------------------------------------------------------------------
(* The rows *)

AllSpecs == UNION {SpecsFor[s] : s \in Schedule}

SchedRow == [spec : AllSpecs \cup {NoSpec}, next : Nat, paused : BOOLEAN]

ScRows ==
    /\ sched     \in [Schedule -> SchedRow]
    /\ \A s \in Schedule : sched[s].spec \in SpecsFor[s] \cup {NoSpec}
    /\ anchor    \in [Schedule -> Nat]
    /\ slotLease \in [Schedule -> Leases]
    /\ todo      \in [Workers -> Seq(Schedule)]
    /\ clock     \in 0..MaxTime
    /\ upsets    \in 0..MaxUpsets

(* What a registered row promises. *)
SlotExact(s) == Registered(s) => /\ Accepted(sched[s].spec)
                                 /\ AtSlot(sched[s].spec, anchor[s], sched[s].next)

(* The queue keeps finitely many runs, and remembers which of them parked. *)
ScRuns ==
    /\ runs \in [DOMAIN runs -> RunStates]
    /\ DOMAIN runs \subseteq Schedule \X Nat /\ IsFiniteSet(DOMAIN runs)
    /\ hasParked \subseteq DOMAIN runs
    /\ \A r \in DOMAIN runs : runs[r] = "parked" => r \in hasParked

LEMMA RowEdits ==
  ASSUME NEW row \in SchedRow, NEW n \in Nat, NEW on \in BOOLEAN
  PROVE  /\ [row EXCEPT !.next = n] \in SchedRow /\ [row EXCEPT !.next = n].spec = row.spec
         /\ [row EXCEPT !.next = n].next = n
         /\ [row EXCEPT !.paused = on] \in SchedRow /\ [row EXCEPT !.paused = on].spec = row.spec
         /\ [row EXCEPT !.paused = on].next = row.next
  BY DEF SchedRow

LEMMA NewRow ==
  ASSUME NEW s \in Schedule, NEW spec \in SpecsFor[s] \cup {NoSpec}, NEW n \in Nat
  PROVE  [spec |-> spec, next |-> n, paused |-> FALSE] \in SchedRow
  BY DEF SchedRow, AllSpecs

(* One row is written: all that the others promised still holds. *)
RowWritten(s, row) ==
    /\ sched' = [sched EXCEPT ![s] = row]
    /\ row.spec \in SpecsFor[s] \cup {NoSpec}
    /\ slotLease' \in [Schedule -> Leases]
    /\ todo' \in [Workers -> Seq(Schedule)]
    /\ clock' \in 0..MaxTime
    /\ upsets' \in 0..MaxUpsets
    /\ \/ anchor' = anchor
       \/ anchor' = [anchor EXCEPT ![s] = clock]
    /\ row.spec # NoSpec => Accepted(row.spec) /\ AtSlot(row.spec, anchor'[s], row.next)

LEMMA RowWrittenHolds ==
  ASSUME ScRows, \A o \in Schedule : SlotExact(o), NEW s \in Schedule, NEW row \in SchedRow,
         RowWritten(s, row)
  PROVE  ScRows' /\ \A o \in Schedule : SlotExact(o)'
<1>1. /\ sched' \in [Schedule -> SchedRow] /\ sched'[s] = row
      /\ \A o \in Schedule : o # s => sched'[o] = sched[o]
  BY DEF RowWritten, ScRows
<1>2. anchor' \in [Schedule -> Nat] /\ \A o \in Schedule : o # s => anchor'[o] = anchor[o]
  BY ScheduleAssumption DEF RowWritten, ScRows
<1>3. ScRows'
  BY <1>1, <1>2 DEF RowWritten, ScRows
<1>4. ASSUME NEW o \in Schedule PROVE SlotExact(o)'
  <2>1. CASE o = s
    BY <1>1, <2>1 DEF RowWritten, SlotExact, Registered
  <2>2. CASE o # s
    BY <1>1, <1>2, <2>2 DEF SlotExact, Registered
  <2> QED
    BY <2>1, <2>2
<1> QED
  BY <1>3, <1>4

LEMMA SlotLeaseTypes ==
  ASSUME NEW l \in Leases, NEW p \in Workers
  PROVE  SlotGrant(l, p) \in Leases /\ SlotAged(l) \in Leases /\ NoLease \in Leases
<1>0. TTL \in Nat /\ TTL > 0
  BY TTLAssumption
<1>1. Grant(l, p) \in Leases
  BY <1>0 DEF Grant, Leases
<1>2. SlotGrant(l, p) \in Leases
  BY <1>1 DEF SlotGrant, Leases
<1>3. Aged(l) \in Leases /\ NoLease \in Leases
  BY <1>0 DEF Aged, Leases, NoLease
<1> QED
  BY <1>2, <1>3 DEF SlotAged

ScPlan == ScRows /\ \A s \in Schedule : SlotExact(s)

(* A step that writes no row. *)
LEMMA PlanKept ==
  ASSUME ScPlan, UNCHANGED <<sched, anchor>>, slotLease' \in [Schedule -> Leases],
         todo' \in [Workers -> Seq(Schedule)], clock' \in 0..MaxTime, upsets' \in 0..MaxUpsets
  PROVE  ScPlan'
  BY DEF ScPlan, ScRows, SlotExact, Registered

LEMMA UpsetType == ScRows /\ Upset => upsets' \in 0..MaxUpsets
  BY ScheduleAssumption DEF ScRows, Upset

LEMMA CreateHolds ==
  ASSUME ScPlan, NEW s \in Schedule, NEW spec \in SpecsFor[s], CreateSchedule(s, spec)
  PROVE  ScPlan'
<1> DEFINE row == [spec |-> spec, next |-> FirstFire(spec), paused |-> FALSE]
<1>1. /\ FirstFire(spec) \in Nat /\ Accepted(spec) /\ AtSlot(spec, clock, FirstFire(spec))
  BY FirstFireExact DEF CreateSchedule, ScPlan, ScRows
<1>2. row \in SchedRow /\ row.spec = spec /\ row.next = FirstFire(spec)
  BY <1>1, NewRow
<1>3. sched' = [sched EXCEPT ![s] = row] /\ anchor' = [anchor EXCEPT ![s] = clock]
      /\ UNCHANGED <<slotLease, todo, clock, upsets>>
  BY DEF CreateSchedule
<1> HIDE DEF row
<1>4. anchor'[s] = clock
  BY <1>3 DEF ScPlan, ScRows
<1>5. RowWritten(s, row)
  BY <1>1, <1>2, <1>3, <1>4 DEF RowWritten, ScPlan, ScRows
<1> QED
  BY <1>2, <1>5, RowWrittenHolds DEF ScPlan

LEMMA PauseHolds ==
  ASSUME ScPlan, NEW s \in Schedule, NEW on \in BOOLEAN, SetSchedulePaused(s, on)
  PROVE  ScPlan'
<1> DEFINE row == [sched[s] EXCEPT !.paused = on]
<1>0. sched[s] \in SchedRow /\ 0 \in Nat
  BY DEF ScPlan, ScRows
<1>1. row \in SchedRow /\ row.spec = sched[s].spec /\ row.next = sched[s].next
  BY <1>0, RowEdits
<1>2. sched' = [sched EXCEPT ![s] = row] /\ UNCHANGED <<slotLease, todo, clock, anchor>>
      /\ upsets' \in 0..MaxUpsets
  BY UpsetType DEF SetSchedulePaused, ScPlan
<1> HIDE DEF row
<1>3. RowWritten(s, row)
  BY <1>1, <1>2 DEF RowWritten, ScPlan, ScRows, SlotExact, Registered
<1> QED
  BY <1>1, <1>3, RowWrittenHolds DEF ScPlan

LEMMA NoScheduleRow == NoSchedule \in SchedRow /\ NoSchedule.spec = NoSpec
  BY DEF NoSchedule, SchedRow

LEMMA DeleteHolds ==
  ASSUME ScPlan, NEW s \in Schedule, DeleteSchedule(s)
  PROVE  ScPlan'
<1>1. /\ sched' = [sched EXCEPT ![s] = NoSchedule] /\ UNCHANGED <<todo, clock, anchor>>
      /\ slotLease' = [slotLease EXCEPT ![s] = NoLease] /\ upsets' \in 0..MaxUpsets
  BY UpsetType DEF DeleteSchedule, ScPlan
<1>2. NoLease \in Leases
  BY TTLAssumption DEF NoLease, Leases
<1>3. RowWritten(s, NoSchedule)
  BY <1>1, <1>2, NoScheduleRow DEF RowWritten, ScPlan, ScRows
<1> QED
  BY <1>3, NoScheduleRow, RowWrittenHolds DEF ScPlan

LEMMA TickTail ==
  ASSUME ScRows, NEW p \in Workers, todo[p] # <<>>, todo' = Popped(p)
  PROVE  Head(todo[p]) \in Schedule /\ todo' \in [Workers -> Seq(Schedule)]
<1>1. todo[p] \in Seq(Schedule)
  BY DEF ScRows
<1>2. Head(todo[p]) \in Schedule /\ Tail(todo[p]) \in Seq(Schedule)
  BY <1>1
<1> QED
  BY <1>2 DEF ScRows, Popped

LEMMA FireHolds ==
  ASSUME ScPlan, NEW p \in Workers, FireDue(p)
  PROVE  ScPlan'
<1> DEFINE s == Head(todo[p])
           row == sched[s]
<1>0. /\ ScRows /\ s \in Schedule /\ todo' \in [Workers -> Seq(Schedule)]
      /\ clock \in 0..MaxTime /\ upsets \in 0..MaxUpsets /\ UNCHANGED <<clock, upsets>>
  BY TickTail DEF FireDue, ScPlan, ScRows
<1>1. slotLease[s] \in Leases /\ row \in SchedRow /\ row.next \in Nat
  BY <1>0 DEF ScRows, SchedRow
<1>2. SlotGrant(slotLease[s], p) \in Leases /\ NoLease \in Leases
  BY <1>1, SlotLeaseTypes
<1>3. CASE ~(DueNow(s) /\ Granted(slotLease[s], p))
  <2>1. UNCHANGED <<sched, slotLease, anchor>>
    BY <1>3 DEF FireDue
  <2> QED
    BY <1>0, <2>1, PlanKept DEF ScRows
<1>4. CASE DueNow(s) /\ row.spec.kind = "oneshot" /\ FireOneshot(s, p)
  <2>1. CASE CapAdmits
    <3>1. /\ sched' = [sched EXCEPT ![s] = NoSchedule] /\ UNCHANGED anchor
          /\ slotLease' = [slotLease EXCEPT ![s] = NoLease]
      BY <1>4, <2>1 DEF FireOneshot
    <3>2. RowWritten(s, NoSchedule)
      BY <1>0, <1>2, <3>1, NoScheduleRow DEF RowWritten, ScRows
    <3> QED
      BY <1>0, <3>2, NoScheduleRow, RowWrittenHolds DEF ScPlan
  <2>2. CASE ~CapAdmits
    <3>1. slotLease' = [slotLease EXCEPT ![s] = SlotGrant(@, p)] /\ UNCHANGED <<sched, anchor>>
      BY <1>4, <2>2 DEF FireOneshot
    <3>2. slotLease' \in [Schedule -> Leases]
      BY <1>0, <1>2, <3>1 DEF ScRows
    <3> QED
      BY <1>0, <3>1, <3>2, PlanKept
  <2> QED
    BY <2>1, <2>2
<1>5. CASE DueNow(s) /\ row.spec.kind # "oneshot" /\ FireRecurring(s, p)
  <2> DEFINE next == AdvanceSchedule(row.spec, row.next, clock)
  <2>0. /\ row.spec # NoSpec /\ row.next <= clock /\ row.spec \in SpecsFor[s]
        /\ Accepted(row.spec) /\ AtSlot(row.spec, anchor[s], row.next)
    BY <1>0, <1>5 DEF DueNow, Registered, ScPlan, ScRows, SlotExact
  <2>1. slotLease' \in [Schedule -> Leases]
    BY <1>0, <1>2, <1>5 DEF FireRecurring, ScRows
  <2>2. CASE next = 0
    <3> DEFINE new == [row EXCEPT !.paused = TRUE]
    <3>1. sched' = [sched EXCEPT ![s] = new] /\ UNCHANGED anchor
      BY <1>5, <2>2 DEF FireRecurring
    <3>2. new \in SchedRow /\ new.spec = row.spec /\ new.next = row.next
      BY <1>1, RowEdits
    <3> HIDE DEF new, row
    <3>3. RowWritten(s, new)
      BY <1>0, <2>0, <2>1, <3>1, <3>2 DEF RowWritten
    <3> QED
      BY <1>0, <3>2, <3>3, RowWrittenHolds DEF ScPlan
  <2>3. CASE next # 0
    <3> DEFINE new == [row EXCEPT !.next = next]
    <3>1. sched' = [sched EXCEPT ![s] = new] /\ anchor' = [anchor EXCEPT ![s] = clock]
      BY <1>5, <2>3 DEF FireRecurring
    <3>2. next \in Nat /\ AtSlot(row.spec, clock, next)
      BY <1>0, <1>1, <1>5, <2>0, <2>3, AdvanceExact
    <3> HIDE DEF next
    <3>3. new \in SchedRow /\ new.spec = row.spec /\ new.next = next
      BY <1>1, <3>2, RowEdits
    <3>4. anchor'[s] = clock
      BY <1>0, <3>1 DEF ScRows
    <3> HIDE DEF new, row
    <3>5. RowWritten(s, new)
      BY <1>0, <2>0, <2>1, <3>1, <3>2, <3>3, <3>4 DEF RowWritten
    <3> QED
      BY <1>0, <3>3, <3>5, RowWrittenHolds DEF ScPlan
  <2> QED
    BY <2>2, <2>3
<1> QED
  BY <1>3, <1>4, <1>5 DEF FireDue

LEMMA ScanHolds ==
  ASSUME ScPlan, NEW p \in Workers, PollerScans(p)
  PROVE  ScPlan'
<1> DEFINE due == {s \in Schedule : DueNow(s)}
<1>1. PICK order \in [1..Cardinality(due) -> due] : todo' = [todo EXCEPT ![p] = order]
  BY DEF PollerScans
<1>2. Cardinality(due) \in Nat
  <2>1. due \in SUBSET Schedule /\ IsFiniteSet(Schedule)
    BY ScheduleAssumption
  <2>2. IsFiniteSet(due)
    BY <2>1, FS_Subset
  <2> QED
    BY <2>2, FS_CardinalityType
<1>3. order \in [1..Cardinality(due) -> Schedule]
  BY <1>1
<1>4. order \in Seq(Schedule)
  <2> DEFINE n == Cardinality(due)
  <2> HIDE DEF n, due
  <2>1. n \in Nat /\ order \in [1..n -> Schedule]
    BY <1>2, <1>3 DEF n
  <2> QED
    BY <2>1
<1>5. todo' \in [Workers -> Seq(Schedule)]
  BY <1>1, <1>4 DEF ScPlan, ScRows
<1> QED
  BY <1>5, PlanKept DEF PollerScans, ScPlan, ScRows

LEMMA MinuteHolds ==
  ASSUME ScPlan, MinutePasses
  PROVE  ScPlan'
<1>1. ASSUME NEW s \in Schedule PROVE SlotAged(slotLease[s]) \in Leases
  <2>1. slotLease[s] \in Leases
    BY <1>1 DEF ScPlan, ScRows
  <2>2. Aged(slotLease[s]) \in Leases /\ NoLease \in Leases
    BY <2>1, TTLAssumption DEF Aged, Leases, NoLease
  <2> QED
    BY <2>2 DEF SlotAged
<1>2. slotLease' \in [Schedule -> Leases]
  BY <1>1 DEF MinutePasses
<1>3. clock' \in 0..MaxTime
  BY ScheduleAssumption DEF MinutePasses, ScPlan, ScRows
<1> QED
  BY <1>2, <1>3, PlanKept DEF MinutePasses, ScPlan, ScRows

LEMMA ScPlanNext == ScPlan /\ [ScNext]_scVars => ScPlan'
<1> SUFFICES ASSUME ScPlan, [ScNext]_scVars PROVE ScPlan'
  OBVIOUS
<1>0. ScRows
  BY DEF ScPlan
<1>1. ASSUME NEW p \in Workers, FireFails(p) \/ PollerDies(p) PROVE ScPlan'
  <2>1. upsets' \in 0..MaxUpsets /\ UNCHANGED <<sched, slotLease, clock, anchor>>
    BY <1>0, <1>1, UpsetType DEF FireFails, PollerDies
  <2>2. todo' \in [Workers -> Seq(Schedule)]
    <3>1. CASE FireFails(p)
      BY <1>0, <3>1, TickTail DEF FireFails
    <3>2. CASE PollerDies(p)
      BY <1>0, <3>2 DEF PollerDies, ScRows
    <3> QED
      BY <1>1, <3>1, <3>2
  <2> QED
    BY <1>0, <2>1, <2>2, PlanKept DEF ScRows
<1>2. ASSUME NEW r \in DOMAIN runs, RunClaimed(r) \/ RunParked(r) \/ RunOver(r) PROVE ScPlan'
  <2>1. UNCHANGED <<sched, slotLease, todo, clock, anchor>> /\ upsets' \in 0..MaxUpsets
    BY <1>0, <1>2, UpsetType DEF RunClaimed, RunParked, RunOver, RunMoves, ScRows
  <2> QED
    BY <1>0, <2>1, PlanKept DEF ScRows
<1>3. CASE UNCHANGED scVars
  BY <1>0, <1>3, PlanKept DEF scVars, ScRows
<1> QED
  BY <1>1, <1>2, <1>3, CreateHolds, PauseHolds, DeleteHolds, FireHolds, ScanHolds, MinuteHolds
  DEF ScNext, Polls

---------------------------------------------------------------------------
(* The queue *)

(* The runs the cap counts, and those of them that never parked. *)
Counted == {r \in DOMAIN runs : runs[r] \in {"pending", "running"}}
Backlog == {r \in DOMAIN runs : runs[r] \in {"pending", "running"} /\ r \notin hasParked}

LEMMA BacklogFinite ==
  ASSUME IsFiniteSet(DOMAIN runs)
  PROVE  IsFiniteSet(Backlog) /\ IsFiniteSet(Counted) /\ Cardinality(Counted) \in Nat
<1>1. Backlog \in SUBSET DOMAIN runs /\ Counted \in SUBSET DOMAIN runs
  BY DEF Backlog, Counted
<1>2. IsFiniteSet(Backlog) /\ IsFiniteSet(Counted)
  BY <1>1, FS_Subset
<1> QED
  BY <1>2, FS_CardinalityType

(* A backlog that does not grow stays within the cap. *)
LEMMA BacklogShrinks ==
  ASSUME ScRuns, BacklogBounded, Backlog' \subseteq Backlog
  PROVE  BacklogBounded'
<1>1. IsFiniteSet(Backlog)
  BY BacklogFinite DEF ScRuns
<1>2. IsFiniteSet(Backlog') /\ Cardinality(Backlog') <= Cardinality(Backlog)
  BY <1>1, FS_Subset
<1>3. Cardinality(Backlog) \in Nat /\ Cardinality(Backlog') \in Nat
  BY <1>1, <1>2, FS_CardinalityType
<1>4. BacklogCap # 0 => Cardinality(Backlog) <= BacklogCap
  BY DEF BacklogBounded, Backlog
<1>5. BacklogCap # 0 => Cardinality(Backlog') <= BacklogCap
  BY <1>2, <1>3, <1>4, ScheduleAssumption
<1> QED
  BY <1>5 DEF BacklogBounded, Backlog

LEMMA RunQueued ==
  ASSUME ScRuns, BacklogBounded, CapAdmits, NEW r \in Schedule \X Nat, runs' = WithRun(r),
         UNCHANGED hasParked
  PROVE  ScRuns' /\ BacklogBounded' /\ r \in DOMAIN runs'
<1>1. CASE r \in DOMAIN runs
  <2>1. UNCHANGED <<runs, hasParked>>
    BY <1>1 DEF WithRun
  <2> QED
    BY <1>1, <2>1 DEF ScRuns, BacklogBounded
<1>2. CASE r \notin DOMAIN runs
  <2>1. runs' = [x \in DOMAIN runs \cup {r} |-> IF x = r THEN "pending" ELSE runs[x]]
    BY <1>2 DEF WithRun
  <2>2. /\ DOMAIN runs' = DOMAIN runs \cup {r} /\ runs'[r] = "pending"
        /\ \A x \in DOMAIN runs : runs'[x] = runs[x]
    BY <1>2, <2>1
  <2>3. runs' \in [DOMAIN runs' -> RunStates]
    BY <2>1, <2>2 DEF ScRuns, RunStates
  <2>4. IsFiniteSet(DOMAIN runs')
    BY <2>2, FS_AddElement DEF ScRuns
  <2>5. ScRuns'
    BY <2>2, <2>3, <2>4 DEF ScRuns
  <2>6. Backlog' \subseteq Counted \cup {r}
    BY <2>2 DEF Backlog, Counted
  <2>7. r \notin Counted
    BY <1>2 DEF Counted
  <2>8. ASSUME BacklogCap # 0 PROVE Cardinality(Backlog') <= BacklogCap
    <3>1. Cardinality(Counted) < BacklogCap /\ BacklogCap \in Nat
      BY <2>8, ScheduleAssumption DEF CapAdmits, Counted
    <3>2. IsFiniteSet(Counted) /\ Cardinality(Counted) \in Nat
      BY BacklogFinite DEF ScRuns
    <3>3. IsFiniteSet(Counted \cup {r}) /\ Cardinality(Counted \cup {r}) = Cardinality(Counted) + 1
      BY <2>7, <3>2, FS_AddElement
    <3>4. IsFiniteSet(Backlog') /\ Cardinality(Backlog') <= Cardinality(Counted \cup {r})
      BY <2>6, <3>3, FS_Subset
    <3>5. Cardinality(Backlog') \in Nat
      BY <3>4, FS_CardinalityType
    <3> QED
      BY <3>1, <3>2, <3>3, <3>4, <3>5
  <2>9. BacklogBounded'
    BY <2>8 DEF BacklogBounded, Backlog
  <2> QED
    BY <2>2, <2>5, <2>9
<1> QED
  BY <1>1, <1>2

LEMMA RunMoved ==
  ASSUME ScRuns, BacklogBounded, NEW r \in DOMAIN runs,
         RunClaimed(r) \/ RunParked(r) \/ RunOver(r)
  PROVE  ScRuns' /\ BacklogBounded'
<1>1. PICK to \in RunStates :
         /\ runs' = [runs EXCEPT ![r] = to]
         /\ to = "parked" => hasParked' = hasParked \cup {r}
         /\ to # "parked" => hasParked' = hasParked
         /\ to \in {"pending", "running"} => runs[r] \in {"pending", "running", "parked"}
  BY DEF RunClaimed, RunParked, RunOver, RunMoves, RunStates
<1>2. /\ DOMAIN runs' = DOMAIN runs /\ runs' \in [DOMAIN runs' -> RunStates] /\ runs'[r] = to
      /\ \A x \in DOMAIN runs : x # r => runs'[x] = runs[x]
  BY <1>1 DEF ScRuns
<1>3. hasParked \subseteq hasParked' /\ hasParked' \subseteq DOMAIN runs
  BY <1>1 DEF ScRuns
<1>4. ScRuns'
  BY <1>1, <1>2, <1>3 DEF ScRuns
<1>5. Backlog' \subseteq Backlog
  BY <1>1, <1>2, <1>3 DEF Backlog, ScRuns
<1> QED
  BY <1>4, <1>5, BacklogShrinks

(* A fire enqueues nothing, or the run of its slot under the cap. *)
LEMMA FireEnqueues ==
  ASSUME ScRows, NEW p \in Workers, FireDue(p)
  PROVE  /\ UNCHANGED hasParked
         /\ \/ UNCHANGED runs
            \/ \E r \in Schedule \X Nat : CapAdmits /\ runs' = WithRun(r)
<1> DEFINE s == Head(todo[p])
<1>1. s \in Schedule
  BY TickTail DEF FireDue
<1>2. <<s, sched[s].next>> \in Schedule \X Nat
  BY <1>1 DEF ScRows, SchedRow
<1> HIDE DEF s
<1>3. FireOneshot(s, p) => UNCHANGED runs \/ (CapAdmits /\ runs' = WithRun(<<s, sched[s].next>>))
  BY DEF FireOneshot
<1>4. FireRecurring(s, p) => UNCHANGED runs \/ (CapAdmits /\ runs' = WithRun(<<s, sched[s].next>>))
  BY DEF FireRecurring
<1> QED
  BY <1>2, <1>3, <1>4 DEF FireDue, s

LEMMA ScQueueNext ==
  ScRows /\ ScRuns /\ BacklogBounded /\ [ScNext]_scVars => ScRuns' /\ BacklogBounded'
<1> SUFFICES ASSUME ScRows, ScRuns, BacklogBounded, [ScNext]_scVars PROVE ScRuns' /\ BacklogBounded'
  OBVIOUS
<1>1. ASSUME UNCHANGED <<runs, hasParked>> PROVE ScRuns' /\ BacklogBounded'
  BY <1>1 DEF ScRuns, BacklogBounded
<1>2. ASSUME NEW p \in Workers, FireDue(p) PROVE ScRuns' /\ BacklogBounded'
  BY <1>1, <1>2, FireEnqueues, RunQueued
<1>3. ASSUME NEW s \in Schedule,
             \/ \E spec \in SpecsFor[s] : CreateSchedule(s, spec)
             \/ \E on \in BOOLEAN : SetSchedulePaused(s, on)
             \/ DeleteSchedule(s)
      PROVE  UNCHANGED <<runs, hasParked>>
  BY <1>3 DEF CreateSchedule, SetSchedulePaused, DeleteSchedule
<1>4. ASSUME NEW p \in Workers, PollerScans(p) \/ FireFails(p) \/ PollerDies(p)
      PROVE  UNCHANGED <<runs, hasParked>>
  BY <1>4 DEF PollerScans, FireFails, PollerDies
<1>5. CASE MinutePasses \/ UNCHANGED scVars
  BY <1>1, <1>5 DEF MinutePasses, scVars
<1> QED
  BY <1>1, <1>2, <1>3, <1>4, <1>5, RunMoved DEF ScNext, Polls

---------------------------------------------------------------------------
(* The theorems *)

ScInv == ScPlan /\ ScRuns /\ BacklogBounded

LEMMA ScInitHolds == ScInit => ScInv
<1> SUFFICES ASSUME ScInit PROVE ScInv
  OBVIOUS
<1>1. NoSchedule \in SchedRow /\ NoSchedule.spec = NoSpec /\ NoLease \in Leases
  BY NoScheduleRow, TTLAssumption DEF NoLease, Leases
<1>2. ScRows
  BY <1>1, ScheduleAssumption DEF ScInit, ScRows
<1>3. ScPlan
  BY <1>1, <1>2 DEF ScInit, ScPlan, SlotExact, Registered
<1>4. DOMAIN runs = {} /\ IsFiniteSet({}) /\ Cardinality({}) = 0
  BY FS_EmptySet DEF ScInit
<1>5. ScRuns
  BY <1>4 DEF ScInit, ScRuns
<1>6. BacklogBounded
  <2>1. Backlog = {}
    BY <1>4 DEF Backlog
  <2>2. BacklogCap # 0 => Cardinality(Backlog) <= BacklogCap
    BY <1>4, <2>1, ScheduleAssumption
  <2> QED
    BY <2>2 DEF BacklogBounded, Backlog
<1> QED
  BY <1>3, <1>5, <1>6 DEF ScInv

LEMMA ScInvNext == ScInv /\ [ScNext]_scVars => ScInv'
  BY ScPlanNext, ScQueueNext DEF ScInv, ScPlan

LEMMA ScInvariant == ScSpec => []ScInv
  BY ScInitHolds, ScInvNext, PTL DEF ScSpec

(* The rows, leases, runs and tick lists keep to their domains, whatever     *)
(* pollers, operators and workers do (schedule.go, schedule_poller.go).      *)
THEOREM ScTypeCorrect == ScSpec => []ScTypeOK
<1>1. ScInv => ScTypeOK
  <2> SUFFICES ASSUME ScInv PROVE ScTypeOK
    OBVIOUS
  <2>1. ScRows /\ ScRuns
    BY DEF ScInv, ScPlan
  <2> QED
    BY <2>1 DEF ScRows, ScRuns, ScTypeOK
<1> QED
  BY <1>1, ScInvariant, PTL

(* The runs a schedule has queued and no worker has parked never exceed the  *)
(* cap, for any number of pollers, missed slots, store errors and crashes:   *)
(* capAdmits counts inside the transaction that enqueues (schedule.go).      *)
THEOREM BacklogHolds == ScSpec => []BacklogBounded
<1>1. ScInv => BacklogBounded
  BY DEF ScInv
<1> QED
  BY <1>1, ScInvariant, PTL

(* A recurring schedule stands at the first of its slots after the moment it *)
(* last fired, for every cron expression ParseCron accepts, every calendar   *)
(* and every period, however many slots were missed (cron.go Next and        *)
(* dayMatches, schedule.go advanceSchedule).                                 *)
THEOREM SlotHolds == ScSpec => []NextSlotExact
<1>1. ScInv => NextSlotExact
  <2> SUFFICES ASSUME ScInv, NEW s \in Schedule, Registered(s)
               PROVE  LET spec == sched[s].spec
                          between == anchor[s] + 1..sched[s].next - 1
                      IN  CASE spec.kind = "cron" -> /\ Fires(spec.cron, sched[s].next)
                                                     /\ \A t \in between : ~Fires(spec.cron, t)
                            [] spec.kind = "interval" -> /\ sched[s].next > anchor[s]
                                                         /\ sched[s].next <= anchor[s] + spec.period
                            [] OTHER -> TRUE
    BY DEF NextSlotExact
  <2>1. AtSlot(sched[s].spec, anchor[s], sched[s].next)
    BY DEF ScInv, ScPlan, SlotExact
  <2> QED
    BY <2>1 DEF AtSlot
<1> QED
  BY <1>1, ScInvariant, PTL

(* A one-shot leaves the table only with its run in the queue or at the      *)
(* operator's hand: a full cap keeps the row due (schedule.go fireDueLocked).*)
THEOREM OneshotHolds == ScSpec => OneshotNeverLost
<1> DEFINE Kept(s) == Registered(s) /\ sched[s].spec.kind = "oneshot" /\ sched'[s].spec = NoSpec =>
                         \/ <<s, sched[s].next>> \in DOMAIN runs'
                         \/ DeleteSchedule(s)
<1>1. ASSUME ScInv, ScNext, NEW s \in Schedule PROVE Kept(s)
  <2>0. ScRows /\ ScRuns /\ BacklogBounded /\ sched[s] \in SchedRow /\ sched \in [Schedule -> SchedRow]
    BY <1>1 DEF ScInv, ScPlan, ScRows
  <2>1. ASSUME UNCHANGED sched PROVE Kept(s)
    BY <2>1 DEF Registered
  <2>2. ASSUME NEW o \in Schedule, NEW spec \in SpecsFor[o], CreateSchedule(o, spec) PROVE Kept(s)
    BY <2>0, <2>2 DEF CreateSchedule, Registered
  <2>3. ASSUME NEW o \in Schedule, NEW on \in BOOLEAN, SetSchedulePaused(o, on) PROVE Kept(s)
    <3>1. sched[o] \in SchedRow /\ sched' = [sched EXCEPT ![o] = [sched[o] EXCEPT !.paused = on]]
      BY <2>0, <2>3 DEF SetSchedulePaused
    <3>2. [sched[o] EXCEPT !.paused = on].spec = sched[o].spec
      BY <3>1, RowEdits
    <3>3. sched'[s].spec = sched[s].spec
      BY <2>0, <3>1, <3>2
    <3> QED
      BY <3>3 DEF Registered
  <2>4. ASSUME NEW o \in Schedule, DeleteSchedule(o) PROVE Kept(s)
    <3>1. CASE o = s
      BY <2>4, <3>1
    <3>2. CASE o # s
      <4>1. sched'[s] = sched[s]
        BY <2>4, <3>2 DEF DeleteSchedule
      <4> QED
        BY <4>1 DEF Registered
    <3> QED
      BY <3>1, <3>2
  <2>5. ASSUME NEW p \in Workers, FireDue(p) PROVE Kept(s)
    <3> DEFINE o == Head(todo[p])
    <3>0. o \in Schedule
      BY <2>0, <2>5, TickTail DEF FireDue
    <3> HIDE DEF o
    <3>1. CASE UNCHANGED sched
      BY <2>1, <3>1
    <3>2. CASE FireOneshot(o, p)
      <4>1. CASE CapAdmits
        <5>1. /\ sched' = [sched EXCEPT ![o] = NoSchedule]
              /\ runs' = WithRun(<<o, sched[o].next>>)
          BY <3>2, <4>1 DEF FireOneshot
        <5>2. <<o, sched[o].next>> \in DOMAIN runs'
          BY <5>1 DEF WithRun
        <5>3. o # s => sched'[s] = sched[s]
          BY <5>1, <2>0
        <5> QED
          BY <5>2, <5>3 DEF Registered
      <4>2. CASE ~CapAdmits
        BY <2>1, <3>2, <4>2 DEF FireOneshot
      <4> QED
        BY <4>1, <4>2
    <3>3. CASE FireRecurring(o, p)
      <4>0. sched[o] \in SchedRow
        BY <2>0, <3>0
      <4>1. PICK row : /\ sched' = [sched EXCEPT ![o] = row] /\ row.spec = sched[o].spec
        <5>1. CASE sched' = [sched EXCEPT ![o].paused = TRUE]
          <6> DEFINE new == [sched[o] EXCEPT !.paused = TRUE]
          <6>1. sched' = [sched EXCEPT ![o] = new]
            BY <5>1
          <6>2. new.spec = sched[o].spec
            BY <4>0 DEF SchedRow
          <6> QED
            BY <6>1, <6>2
        <5>2. ASSUME NEW n, sched' = [sched EXCEPT ![o].next = n]
              PROVE  \E row : /\ sched' = [sched EXCEPT ![o] = row] /\ row.spec = sched[o].spec
          <6> DEFINE new == [sched[o] EXCEPT !.next = n]
          <6>1. sched' = [sched EXCEPT ![o] = new]
            BY <5>2
          <6>2. new.spec = sched[o].spec
            BY <4>0 DEF SchedRow
          <6> QED
            BY <6>1, <6>2
        <5> QED
          BY <3>3, <5>1, <5>2 DEF FireRecurring
      <4>2. sched'[s].spec = sched[s].spec
        BY <2>0, <3>0, <4>1
      <4> QED
        BY <4>2 DEF Registered
    <3> QED
      BY <2>5, <3>1, <3>2, <3>3 DEF FireDue, o
  <2>6. ASSUME NEW p \in Workers, PollerScans(p) \/ FireFails(p) \/ PollerDies(p) PROVE Kept(s)
    BY <2>1, <2>6 DEF PollerScans, FireFails, PollerDies
  <2>7. ASSUME NEW r \in DOMAIN runs, RunClaimed(r) \/ RunParked(r) \/ RunOver(r) PROVE Kept(s)
    BY <2>1, <2>7 DEF RunClaimed, RunParked, RunOver, RunMoves
  <2>8. CASE MinutePasses
    BY <2>1, <2>8 DEF MinutePasses
  <2> HIDE DEF Kept
  <2> QED
    BY <1>1, <2>2, <2>3, <2>4, <2>5, <2>6, <2>7, <2>8 DEF ScNext, Polls
<1>2. ScInv /\ [ScNext]_scVars => [\A s \in Schedule : Kept(s)]_scVars
  BY <1>1
<1> QED
  BY <1>2, ScInvariant, PTL DEF ScSpec, OneshotNeverLost
=============================================================================

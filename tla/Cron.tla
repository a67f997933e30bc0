-------------------------------- MODULE Cron --------------------------------
(***************************************************************************)
(* Five-field cron expressions (cron.go): the grammar of a field, the       *)
(* day-of-month / day-of-week rule and the bounded search for the next      *)
(* matching minute.                                                         *)
(*                                                                          *)
(* A term is a record: base "*", "range", "value" or "junk" (what Atoi      *)
(* refuses), its bounds, and step (0: no "/n" was written).  A field is a   *)
(* set of terms, since the bits of the terms are or-ed together.  The       *)
(* calendar (time.Date in UTC) is a constant from minutes to field values.  *)
(***************************************************************************)
EXTENDS Integers

CONSTANTS FieldRange,    \* cronFields: the bounds <<min, max>> of each field
          Calendar,      \* minute -> the value of each field
          CronHorizon    \* maxCronHorizon, in minutes

CronFields == {"minute", "hour", "dom", "month", "dow"}

ASSUME CalendarAssumption ==
    /\ FieldRange \in [CronFields -> Int \X Int]
    /\ \A f \in CronFields : FieldRange[f][2] - FieldRange[f][1] <= 60
    /\ CronHorizon \in Nat
    /\ \A t \in DOMAIN Calendar, f \in CronFields :
           Calendar[t][f] \in FieldRange[f][1]..FieldRange[f][2]

InRange(v, f) == v \in FieldRange[f][1]..FieldRange[f][2]

(* parseTerm: what is refused.  A step needs `*` or a range. *)
TermOK(term, f) ==
    /\ term.step >= 0
    /\ \/ term.base = "*"
       \/ term.base = "range" /\ InRange(term.lo, f) /\ InRange(term.hi, f)
          /\ term.lo <= term.hi
       \/ term.base = "value" /\ InRange(term.lo, f) /\ term.step = 0

Low(term, f)  == IF term.base = "*" THEN FieldRange[f][1] ELSE term.lo
High(term, f) == IF term.base = "*" THEN FieldRange[f][2]
                 ELSE IF term.base = "range" THEN term.hi ELSE term.lo
Step(term)    == IF term.step = 0 THEN 1 ELSE term.step

(* `*` and `*/1` leave the field unrestricted; everything else restricts it. *)
Restricts(term) == term.base # "*" \/ Step(term) > 1

(* parseField: the bits of the comma-separated terms. *)
Bits(terms, f) ==
    UNION {{v \in Low(term, f)..High(term, f) :
               (v - Low(term, f)) % Step(term) = 0} : term \in terms}

Restricted(terms) == \E term \in terms : Restricts(term)

(* ParseCron accepts. *)
CronOK(spec) == \A f \in CronFields :
                    spec[f] # {} /\ \A term \in spec[f] : TermOK(term, f)

(* fieldSpec.matches *)
FieldMatches(spec, f, t) == Calendar[t][f] \in Bits(spec[f], f)

(* Mutant of DayMatches: both day fields must match.                         *)
DayMatchesBoth(spec, t) == FieldMatches(spec, "dom", t) /\ FieldMatches(spec, "dow", t)

(* dayMatches: two restricted day fields are a union, one gates alone. *)
DayMatches(spec, t) ==
    CASE Restricted(spec["dom"]) /\ Restricted(spec["dow"]) ->
            FieldMatches(spec, "dom", t) \/ FieldMatches(spec, "dow", t)
      [] Restricted(spec["dom"]) /\ ~Restricted(spec["dow"]) -> FieldMatches(spec, "dom", t)
      [] ~Restricted(spec["dom"]) /\ Restricted(spec["dow"]) -> FieldMatches(spec, "dow", t)
      [] OTHER -> TRUE

Matching(spec, after) ==
    {t \in after + 1..after + CronHorizon :
        /\ \A f \in {"minute", "hour", "month"} : FieldMatches(spec, f, t)
        /\ DayMatches(spec, t)}

(* Next: the first matching minute strictly after `after`; 0 stands for      *)
(* ErrCronNoFire.                                                            *)
CronNext(spec, after) ==
    LET m == Matching(spec, after)
    IN  IF m = {} THEN 0 ELSE CHOOSE t \in m : \A u \in m : t <= u
=============================================================================

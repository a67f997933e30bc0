------------------------------- MODULE Waits -------------------------------
(***************************************************************************)
(* The declared waits (timer.go, signal.go, signal_timeout.go, approval.go):*)
(* a run whose frontier is one waiting node, of a kind chosen at the start, *)
(* and the host that drives it: Execute, DeliverSignal, DeliverAndResume    *)
(* and Tick.                                                                *)
(*                                                                          *)
(* A drive loads the run, peeks the mailbox, decides on the clock, persists *)
(* the outcome and acks what it consumed; deliveries, the clock and a crash *)
(* come between any two of these.  Instants are signed machine integers of  *)
(* a small width, so that an armed deadline can wrap as int64 does.         *)
(***************************************************************************)
EXTENDS Integers

CONSTANTS WaitKinds,    \* of "timer", "signal", "timeout", "approval", "condition"
          Durations,    \* of the timer or the timeout
          Letters,      \* signal id -> what it says; ids are numbers, in order
          Span,         \* instants are -Span..Span-1
          MaxNow,       \* bound: the clock
          MaxHiccups    \* bound: crashes, store errors, cancellations

ASSUME WaitsAssumption ==
    /\ WaitKinds \subseteq {"timer", "signal", "timeout", "approval", "condition"}
    /\ Span \in Nat /\ MaxNow \in 0..Span - 2
    /\ Durations \subseteq -Span..Span - 1
    /\ DOMAIN Letters \subseteq Nat /\ MaxHiccups \in Nat

VARIABLES waitKind, duration, \* the node
          now,        \* the host's clock
          box,        \* ids in the mailbox
          sent,       \* history: ids ever delivered
          flag,       \* what the condition's predicate says
          kept, live, \* the run in the store and in the drive
          wpc,        \* where the drive is
          pinned,     \* Tick's instant, or NoPin for the live clock
          peeked,     \* the signals the drive has read
          found,      \* history: the mailbox when the drive began
          due,        \* history: the true deadline, before any wrap
          hiccups

waitVars == <<waitKind, duration, now, box, sent, flag, kept, live, wpc, pinned, peeked, found, due, hiccups>>

Instants == -Span..Span - 1
Unarmed  == Span         \* no wait in the data
NoPin    == -Span - 1
Nothing  == 0            \* no output
TimedOut == -1           \* the timer fired, or the timeout won

(* st: the node's status; fireAt: its armed wait; out: what it completed on.*)
WaitRun == [st : {"pending", "waiting", "completed", "failed"},
            fireAt : Instants \cup {Unarmed}, out : DOMAIN Letters \cup {Nothing, TimedOut}]
NewRun  == [st |-> "pending", fireAt |-> Unarmed, out |-> Nothing]

WaitTypeOK ==
    /\ waitKind \in WaitKinds /\ duration \in Durations
    /\ now \in 0..MaxNow /\ flag \in BOOLEAN
    /\ {box, sent, peeked, found} \subseteq SUBSET DOMAIN Letters
    /\ kept \in WaitRun /\ live \in WaitRun
    /\ wpc \in {"off", "peek", "decide", "save", "ack"}
    /\ pinned \in 0..MaxNow \cup {NoPin} /\ due \in Int /\ hiccups \in 0..MaxHiccups

WaitInit ==
    /\ waitKind \in WaitKinds
    /\ duration \in Durations
    /\ waitKind \notin {"timer", "timeout"} => duration = CHOOSE d \in Durations : TRUE
    /\ now = 0 /\ box = {} /\ sent = {} /\ flag = FALSE
    /\ kept = NewRun /\ live = NewRun
    /\ wpc = "off" /\ pinned = NoPin /\ peeked = {} /\ found = {} /\ due = 0
    /\ hiccups = 0

Hiccup == hiccups < MaxHiccups /\ hiccups' = hiccups + 1

(* The drive returns and forgets what it held. *)
Returns == /\ wpc' = "off" /\ live' = NewRun /\ pinned' = NoPin
           /\ peeked' = {} /\ found' = {}

Over(run) == run.st \in {"completed", "failed"}

---------------------------------------------------------------------------
(* The host *)

(* DeliverSignal: enqueue only.  A re-delivery of an id is the same entry. *)
SendSignal(id) ==
    /\ id \notin sent
    /\ box' = box \cup {id} /\ sent' = sent \cup {id}
    /\ UNCHANGED <<waitKind, duration, now, flag, kept, live, wpc, pinned, peeked, found, due, hiccups>>

Enter(pin) ==
    /\ wpc = "off" /\ ~Over(kept)
    /\ live' = kept /\ wpc' = "peek" /\ pinned' = pin
    /\ peeked' = {} /\ found' = box
    /\ UNCHANGED <<waitKind, duration, now, box, sent, flag, kept, due, hiccups>>

(* Execute, or the drive of DeliverAndResume, under the lease. *)
DriveRun == Enter(NoPin)

(* DueTimers: the persisted wait has passed, the node is parked, and no hard *)
(* failure is in the run.                                                    *)
DueTimer == kept.st = "waiting" /\ kept.fireAt # Unarmed /\ kept.fireAt <= now

(* Tick: a due timer re-enters the run with the clock pinned. *)
TickRun == DueTimer /\ Enter(now)

ClockTicks ==
    /\ now < MaxNow
    /\ now' = now + 1
    /\ UNCHANGED <<waitKind, duration, box, sent, flag, kept, live, wpc, pinned, peeked, found, due, hiccups>>

ConditionFlips ==
    /\ waitKind = "condition" /\ ~flag
    /\ flag' = TRUE
    /\ UNCHANGED <<waitKind, duration, now, box, sent, kept, live, wpc, pinned, peeked, found, due, hiccups>>

---------------------------------------------------------------------------
(* The drive *)

Clock == IF pinned = NoPin THEN now ELSE pinned

(* TakeSignals: a read, not a removal. *)
PeekMailbox ==
    /\ wpc = "peek"
    /\ peeked' = IF waitKind \in {"signal", "timeout", "approval"} THEN box ELSE {}
    /\ wpc' = "decide"
    /\ UNCHANGED <<waitKind, duration, now, box, sent, flag, kept, live, pinned, found, due, hiccups>>

(* The mailbox cannot be read: the node fails. *)
PeekFails ==
    /\ wpc = "peek" /\ waitKind \in {"signal", "timeout", "approval"}
    /\ Hiccup
    /\ live' = [live EXCEPT !.st = "failed"]
    /\ wpc' = "save"
    /\ UNCHANGED <<waitKind, duration, now, box, sent, flag, kept, pinned, peeked, found, due>>

(* int64 arithmetic. *)
Wrap(x) == ((x + Span) % (2 * Span)) - Span

(* Mutant of ArmAt: the deadline as it wraps.                                *)
ArmAtUnclamped(t) == Wrap(t + duration)

(* The absolute deadline; one that has wrapped is clamped. *)
ArmAt(t) ==
    LET at == Wrap(t + duration)
    IN  CASE duration > 0 /\ at <= t -> Span - 1
          [] duration < 0 /\ at > t  -> -Span
          [] OTHER -> at

(* The signals that answer the node, and the first of them by id.  "inert"   *)
(* is a signal of another name or, for an approval, a decision that carries  *)
(* the nonce of another park: it is skipped and stays.                       *)
Answers(ids) == {id \in ids : Letters[id] # "inert"}
First(ids)   == CHOOSE id \in ids : \A o \in ids : id <= o

Completes(out) == live' = [live EXCEPT !.st = "completed", !.fireAt = Unarmed, !.out = out]
                  /\ UNCHANGED due
Parks          == live' = [live EXCEPT !.st = "waiting"] /\ UNCHANGED due

(* Mutant of ParkUntil: every encounter arms the wait again.                 *)
ParkUntilRearmed ==
    /\ live' = [live EXCEPT !.st = "waiting", !.fireAt = ArmAt(Clock)]
    /\ due' = Clock + duration

(* The timer: arm and park, fire when due, or park again. *)
ParkUntil ==
    \/ /\ live.fireAt = Unarmed
       /\ live' = [live EXCEPT !.st = "waiting", !.fireAt = ArmAt(Clock)]
       /\ due' = Clock + duration
    \/ live.fireAt # Unarmed /\ Clock >= live.fireAt /\ Completes(TimedOut)
    \/ live.fireAt # Unarmed /\ Clock < live.fireAt /\ Parks

(* The first decision of this park: approve, or fail the node (a rejection,  *)
(* or a payload that does not decode).                                       *)
ApprovalDecides ==
    \/ Answers(peeked) = {} /\ Parks
    \/ /\ Answers(peeked) # {}
       /\ IF Letters[First(Answers(peeked))] = "approve"
          THEN Completes(First(Answers(peeked)))
          ELSE live' = [live EXCEPT !.st = "failed"] /\ UNCHANGED due

(* The Execute of the node's action. *)
NodeDecides ==
    /\ wpc = "decide"
    /\ \/ waitKind = "timer" /\ ParkUntil
       \/ waitKind = "condition" /\ IF flag THEN Completes(Nothing) ELSE Parks
       \/ waitKind = "approval" /\ ApprovalDecides
       \/ /\ waitKind \in {"signal", "timeout"}
          /\ IF Answers(peeked) # {} THEN Completes(First(Answers(peeked)))
             ELSE IF waitKind = "signal" THEN Parks ELSE ParkUntil
    /\ wpc' = "save"
    /\ UNCHANGED <<waitKind, duration, now, box, sent, flag, kept, pinned, peeked, found, hiccups>>

(* The barrier's checkpoint, the park's, or the Save of a failed run. *)
PersistRun ==
    /\ wpc = "save"
    /\ kept' = live
    /\ IF live.st = "completed"
       THEN wpc' = "ack" /\ UNCHANGED <<live, pinned, peeked, found>>
       ELSE Returns
    /\ UNCHANGED <<waitKind, duration, now, box, sent, flag, due, hiccups>>

(* The run is cancelled: no node stays Waiting, an armed deadline survives.  *)
RunCancelled ==
    /\ wpc = "save" /\ live.st = "waiting"
    /\ Hiccup
    /\ kept' = [live EXCEPT !.st = "pending"]
    /\ Returns
    /\ UNCHANGED <<waitKind, duration, now, box, sent, flag, due>>

(* What was consumed leaves the mailbox after it is durable; best effort. *)
AckConsumed ==
    /\ wpc = "ack"
    /\ box' = box \ {live.out}
    /\ Returns
    /\ UNCHANGED <<waitKind, duration, now, sent, flag, kept, due, hiccups>>

WaitCrash ==
    /\ wpc # "off"
    /\ Hiccup
    /\ Returns
    /\ UNCHANGED <<waitKind, duration, now, box, sent, flag, kept, due>>

DriveGoesOn == PeekMailbox \/ NodeDecides \/ PersistRun \/ AckConsumed

WaitNext ==
    \/ \E id \in DOMAIN Letters : SendSignal(id)
    \/ DriveRun \/ TickRun \/ ClockTicks \/ ConditionFlips
    \/ DriveGoesOn \/ PeekFails \/ RunCancelled \/ WaitCrash

WaitSpec == WaitInit /\ [][WaitNext]_waitVars

(* The host keeps re-driving what it has sent a signal to, or cancelled, and *)
(* keeps ticking; a drive that runs makes progress.                          *)
HostDrives == DriveRun \/ TickRun

---------------------------------------------------------------------------
(* Properties *)

(* A wait ends for the cause it waited for: a timer or a timeout not before  *)
(* the true deadline of its last arming, however far away that is, across    *)
(* crashes, cancellations and Ticks; a timeout never over a signal that was  *)
(* in the mailbox when the drive began; an approval only by an approving     *)
(* decision of this park, and no decision before it in the mailbox.          *)
WaitEndsForCause ==
    kept.st = "completed" =>
        /\ kept.out = TimedOut => now >= due
        /\ kept.out = TimedOut /\ waitKind = "timeout" /\ wpc = "ack" => Answers(found) = {}
        /\ waitKind = "approval" =>
               /\ Letters[kept.out] = "approve"
               /\ wpc = "ack" => kept.out = First(Answers(peeked))
        /\ waitKind \in {"signal", "approval"} => kept.out \in sent

(* A wait whose cause has come ends: the deadline is armed once and stays,   *)
(* the signal stays in the mailbox until it is applied, through every crash  *)
(* and cancellation (timer.go: "the original absolute deadline is durable    *)
(* across the stop").                                                        *)
WaitEnds ==
    \/ kept.fireAt # Unarmed /\ kept.fireAt <= now
    \/ waitKind \in {"signal", "timeout", "approval"} /\ Answers(box) # {}
    \/ flag
    ~> Over(kept)
=============================================================================

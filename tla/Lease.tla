------------------------------- MODULE Lease -------------------------------
(***************************************************************************)
(* The `leases` table of the multi-process SQLite store: one row per        *)
(* workflow, {owner_id, expiry, fencing_token}, and the decisions the store *)
(* takes on a row.  Every operator below is evaluated inside one            *)
(* BEGIN IMMEDIATE transaction (or one auto-commit UPDATE), so a caller     *)
(* uses it inside a single atomic action.                                   *)
(*                                                                          *)
(* The clock is modelled by what the code compares: `left` is               *)
(* expiry - now, cut off at -1.  `now >= expiry` is left <= 0 and           *)
(* `expiry < now` is left < 0, so the instant where the two tests of the    *)
(* code disagree (now = expiry) is a state of the model.                    *)
(***************************************************************************)
EXTENDS Integers

CONSTANTS Workers,   \* the claimants: one store handle and one ownerID each
          TTL,       \* leaseTTL, in clock ticks
          NoOwner    \* the owner of an absent lease row

ASSUME TTLAssumption == TTL \in Nat \ {0}
ASSUME NoOwnerAssumption == NoOwner \notin Workers

(* No row in `leases`.  Token 0 also reads as "no claim held" in tokenState. *)
NoLease == [owner |-> NoOwner, left |-> -1, token |-> 0]

Leases == [owner : Workers \cup {NoOwner}, left : -1..TTL, token : Nat]

Exists(l) == l.token # 0

(* claimLocked: absent row, lapsed row or the claimant's own live row. *)
Granted(l, o) == \/ ~Exists(l)
                 \/ l.left <= 0
                 \/ l.owner = o

(* Mutant of Grant: a takeover that keeps the lapsed owner's token.          *)
GrantWithoutBump(l, o) ==
    [owner |-> o, left |-> TTL, token |-> IF ~Exists(l) THEN 1 ELSE l.token]

(* The row claimLocked leaves behind when it grants.  Only a lapsed row is   *)
(* claimed under a higher token: an absent one starts again at 1.            *)
Grant(l, o) ==
    [owner |-> o,
     left  |-> TTL,
     token |-> IF ~Exists(l) THEN 1
               ELSE IF l.left <= 0 THEN l.token + 1 ELSE l.token]

(* The EXISTS test of flipTerminalFenced, MarkForRetry and                   *)
(* markWorkQueueParked: some row whose token is at most the held one.        *)
TokenGuard(l, held) == Exists(l) /\ l.token <= held

(* Mutant of FencedOut: a write under a deleted lease row is let through.    *)
FencedOutByRowOnly(l, held) == held # 0 /\ Exists(l) /\ held < l.token

(* checkFencingLocked refuses a write: no row, or held < current.            *)
FencedOut(l, held) == held # 0 /\ (~Exists(l) \/ held < l.token)

(* checkFencingLocked on success renews the row, if it still carries the     *)
(* held token.                                                               *)
Renewed(l, held) == IF held # 0 /\ l.token = held THEN [l EXCEPT !.left = TTL] ELSE l

(* Release: DELETE ... WHERE fencing_token = token.                          *)
Released(l, token) == IF Exists(l) /\ l.token = token THEN NoLease ELSE l

(* One clock tick. *)
Aged(l) == [l EXCEPT !.left = IF @ = -1 THEN -1 ELSE @ - 1]

=============================================================================

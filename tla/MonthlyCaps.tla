----------------------------- MODULE MonthlyCaps -----------------------------
(***************************************************************************)
(* The monthly USD cap arithmetic of Pampalo.sol: one usage bucket per     *)
(* address and direction, holding the calendar month it counts and the USD *)
(* cents used in it.  A bucket of an earlier month reads as empty and is   *)
(* reset by the first charge of the new month.                             *)
(***************************************************************************)
EXTENDS Naturals

MonthlyVolume == [monthKey : Nat, usdCentsUsed : Nat]

\* An address that never crossed: the mapping's zero value.
NoVolume == [monthKey |-> 0, usdCentsUsed |-> 0]

\* A per-address cap of zero means "use the default".
EffectiveCap(own, default) == IF own = 0 THEN default ELSE own

UsedIn(vol, mk) == IF vol.monthKey = mk THEN vol.usdCentsUsed ELSE 0

\* Mutant of Remaining: reads the bucket of an earlier month as if it counted.
RemainingWithoutReset(vol, mk, cap) ==
    IF vol.usdCentsUsed >= cap THEN 0 ELSE cap - vol.usdCentsUsed

\* What the shieldBudget and unshieldBudget views answer.
Remaining(vol, mk, cap) ==
    IF UsedIn(vol, mk) >= cap THEN 0 ELSE cap - UsedIn(vol, mk)

\* What _bumpUsage enforces and writes.
Fits(vol, mk, cap, cents) == UsedIn(vol, mk) + cents <= cap

Bumped(vol, mk, cents) ==
    [monthKey |-> mk, usdCentsUsed |-> UsedIn(vol, mk) + cents]

\* Mutant of Refunded: the refund is forgotten.
NotRefunded(vol, mk, cents) == vol

\* What _refundShieldCap writes: nothing when the bucket has moved on to
\* another month, else a saturating subtraction.  The month compared is the
\* bucket's, not the month in which the refunded shield was charged.
Refunded(vol, mk, cents) ==
    IF cents = 0 \/ vol.monthKey # mk
    THEN vol
    ELSE [vol EXCEPT !.usdCentsUsed = IF @ <= cents THEN 0 ELSE @ - cents]
=============================================================================

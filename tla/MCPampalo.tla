------------------------------ MODULE MCPampalo ------------------------------
(***************************************************************************)
(* Small instances of Pampalo for TLC.                                     *)
(***************************************************************************)
EXTENDS PampaloLifecycle, Calendar, TLC

LedgerSymmetry == Permutations(Users) \cup Permutations(Assets)

\* The ledger alone: the queue and the spends of all users interleave with a
\* registry in which assets are added and with the clock, while the feeds and the
\* other knobs stand still.
LedgerNext ==
  \/ Tick
  \/ \E a \in Assets : AddSupportedAsset(a)
  \/ Queueing
  \/ Spending

LedgerSpec == Init /\ [][LedgerNext]_vars

\* The calendar months that have the right key k months later.
FollowedBy == [k \in 1 .. MonthKey(MaxTime) |-> {m \in Months : Follows(m + k - 1)}]

\* Pampalo counts months of a fixed length, DateMath those of the calendar.
\* Whichever of 4801 calendar months, leap days and centuries included, the
\* clock starts in: on every day of the month it has come to the contract
\* computes the key of that month, so that a monthly cap is reset on the first
\* of a month and on no other day.
MonthsAreCalendarMonths == FollowedBy[MonthKey(now)] = Months
=============================================================================

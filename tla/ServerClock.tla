----------------------------- MODULE ServerClock -----------------------------
(***************************************************************************)
(* The time the service reads: datetime.now(UTC) of its processes and the  *)
(* clock by which Redis expires keys, taken to agree.  Days and months are *)
(* those of UTC.                                                           *)
(***************************************************************************)
EXTENDS Integers

CONSTANTS
  TicksPerSecond,  \* resolution; Redis counts in milliseconds
  SecondsPerDay,
  DaysPerMonth,
  Horizon          \* bounds the clock

ASSUME ClockAssumption ==
  /\ TicksPerSecond \in Nat \ {0}
  /\ SecondsPerDay \in Nat \ {0}
  /\ DaysPerMonth \in Nat \ {0}
  /\ Horizon \in Nat

VARIABLE now

DayOf(t) == t \div (TicksPerSecond * SecondsPerDay)
Days == 0 .. DayOf(Horizon)

(* current_period: the month a log is counted in. *)
MonthOf(t) == DayOf(t) \div DaysPerMonth
Months == 0 .. MonthOf(Horizon)

TimePasses == now < Horizon /\ now' = now + 1
=============================================================================

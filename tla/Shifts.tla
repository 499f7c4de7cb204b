------------------------------- MODULE Shifts -------------------------------
(***************************************************************************)
(* When a member of the maintenance staff is on duty.  Time is counted in  *)
(* slots from the start of a week; a slot is short enough for a shift to   *)
(* begin and end on one.  A SecurityOfficer has no such methods and counts *)
(* as always on duty.                                                      *)
(***************************************************************************)
EXTENDS Naturals

CONSTANTS
    DayLength,      \* slots of a day
    WeekLength,     \* days of a week
    CheckInterval,  \* slots between two looks of isAvailableFor (30 minutes)
    BusinessStart,
    BusinessEnd,
    NoTime          \* a shift time that is null

ASSUME ShiftsAssumption ==
    /\ DayLength \in Nat \ {0}
    /\ WeekLength \in Nat \ {0}
    /\ CheckInterval \in Nat \ {0}
    /\ NoTime \notin Nat

MinutesOfDay == 0..(DayLength - 1)

Week == 0..(DayLength * WeekLength - 1)

Day(t) == (t \div DayLength) % WeekLength

MinutesSinceMidnight(t) == t % DayLength

(* (mutant) the end of the shift belongs to it. *)
IsWithinShiftWindowInclusive(t, start, end) ==
    LET m == MinutesSinceMidnight(t)
    IN  IF start <= end THEN m >= start /\ m <= end
        ELSE \/ m >= start
             \/ m <= end

IsWithinShiftWindow(t, start, end) ==
    LET m == MinutesSinceMidnight(t)
    IN  IF start <= end THEN m >= start /\ m < end
        ELSE \/ m >= start
             \/ m < end

(* The day looked up is the one t falls on, after midnight too. *)
IsOnShift(s, t) ==
    /\ s.state # "SUSPENDED"
    /\ Day(t) \in s.days
    /\ s.start # NoTime /\ s.end # NoTime
    /\ IsWithinShiftWindow(t, s.start, s.end)

(* (mutant) only the two ends of the window are looked at. *)
IsAvailableAtEnds(s, duration, t) ==
    /\ s.state = "ACTIVE"
    /\ IsOnShift(s, t)
    /\ IsOnShift(s, t + duration)

(* A look every CheckInterval and one at the end. *)
IsAvailableFor(s, duration, t) ==
    /\ s.state = "ACTIVE"
    /\ \A k \in 0..(duration \div CheckInterval) : IsOnShift(s, t + k * CheckInterval)
    /\ IsOnShift(s, t + duration)

IsOnCall(s, t) ==
    /\ s.state = "ACTIVE"
    /\ IsOnShift(s, t)
    /\ \/ s.start >= BusinessEnd
       \/ s.end <= BusinessStart
       \/ s.start > s.end

-----------------------------------------------------------------------------

(* What a roster means: the slots of the shifts that begin on its days.    *)
OnRoster(s, t) ==
    \E d \in s.days :
        LET begin == d * DayLength + s.start
            length == IF s.start <= s.end THEN s.end - s.start
                                          ELSE DayLength + s.end - s.start
        IN  \E k \in 0..length : k < length /\ (begin + k) % (DayLength * WeekLength) = t

(* Nothing between two looks can be off duty when every break is at least  *)
(* as long as the interval.                                                *)
BreakNoticed(s) ==
    IF s.start <= s.end THEN DayLength + s.start - s.end >= CheckInterval
                        ELSE s.start - s.end >= CheckInterval

=============================================================================

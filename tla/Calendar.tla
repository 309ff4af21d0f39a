------------------------------ MODULE Calendar ------------------------------
(***************************************************************************)
(* The work calendar of a principal (core/calendar.rs): when somebody who  *)
(* works on some days of the week, between two minutes of a day in a fixed *)
(* time zone, and who takes time off, is next available, and when a number *)
(* of working hours will have passed.                                      *)
(*                                                                         *)
(* Instants are integers, counted from a Monday 00:00 UTC in units of      *)
(* 1 / HourUnits of an hour.  A day has DayLength units and a week         *)
(* WeekLength days, so that a week fits in an instance TLC can enumerate;  *)
(* in the code these are 24 hours and 7 days.                              *)
(***************************************************************************)
EXTENDS Integers, FiniteSets, FiniteSetsExt

CONSTANTS
    DayLength,      \* units in a day
    WeekLength,     \* days in a week
    MaxSearchDays   \* MAX_SEARCH_DAYS: turns of the search loop

ASSUME CalendarAssumption ==
    /\ DayLength \in Nat \ {0}
    /\ WeekLength \in Nat \ {0}
    /\ MaxSearchDays \in Nat \ {0}

(* A WorkCalendar is [offset, days, from, to, off]: `from` and `to` are      *)
(* day_start_minute and day_end_minute, `off` its AvailabilityBlocks, which  *)
(* are cancelled, never removed.                                            *)
IsActive(b) == ~ b.cancelled

(* validate: an offset below a day, some working day, a window in the day.  *)
Valid(c) ==
    /\ c.offset \in -(DayLength - 1) .. DayLength - 1
    /\ c.days # {} /\ c.days \subseteq 0 .. WeekLength - 1
    /\ c.from < c.to /\ c.to <= DayLength

(* WorkCalendar::always: a principal nobody configured works round the clock. *)
Always == [offset |-> 0, days |-> 0 .. WeekLength - 1,
           from |-> 0, to |-> DayLength, off |-> {}]

(* local_minute_to_utc; minute 24 * 60 is midnight of the next day.         *)
LocalMinuteToUtc(c, date, minute) == date * DayLength + minute - c.offset

LocalDate(c, instant) == (instant + c.offset) \div DayLength

-----------------------------------------------------------------------------
(* Mutant of Search: steps over the block and then takes the instant as is.  *)
SearchPastOneBlock(c, cursor) ==
    LET date  == LocalDate(c, cursor)
        first == LocalMinuteToUtc(c, date, c.from)
        from  == IF cursor > first THEN cursor ELSE first
        over  == {b \in c.off : IsActive(b) /\ b.starts <= from /\ b.ends > from}
    IN  IF date % WeekLength \notin c.days \/ from >= LocalMinuteToUtc(c, date, c.to)
        THEN [found |-> FALSE, at |-> LocalMinuteToUtc(c, date + 1, 0)]
        ELSE [found |-> TRUE,
              at |-> IF over = {} THEN from ELSE Min({b.ends : b \in over})]

(* One turn of the loop of next_available: the first instant of the working *)
(* window of cursor's local day that is not before cursor, unless the day   *)
(* is free or its window over (try the next midnight) or time off covers it *)
(* (try its end).                                                           *)
Search(c, cursor) ==
    LET date  == LocalDate(c, cursor)
        first == LocalMinuteToUtc(c, date, c.from)
        from  == IF cursor > first THEN cursor ELSE first
        over  == {b \in c.off : IsActive(b) /\ b.starts <= from /\ b.ends > from}
    IN  IF date % WeekLength \notin c.days \/ from >= LocalMinuteToUtc(c, date, c.to)
        THEN [found |-> FALSE, at |-> LocalMinuteToUtc(c, date + 1, 0)]
        ELSE IF over = {}
        THEN [found |-> TRUE, at |-> from]
        ELSE [found |-> FALSE, at |-> Min({b.ends : b \in over})]

(* The error "no availability within ten years". *)
Never == -1

(* next_available *)
NextAvailable(c, start) ==
    LET turn[n \in 0 .. MaxSearchDays] ==
            IF n = 0 THEN [found |-> FALSE, at |-> start]
            ELSE LET last == turn[n - 1]
                 IN  IF last.found THEN last ELSE Search(c, last.at)
        Answer(last) == IF last.found THEN last.at ELSE Never
    IN  Answer(turn[MaxSearchDays])

-----------------------------------------------------------------------------
(* One turn of the loop of add_working_hours: work until the window closes  *)
(* or time off begins, and resume at the next available instant after it.   *)
(* (At a block that has already begun, which the code tests for first, no    *)
(* work is done and the cursor moves to its end as well.)                   *)
Advance(c, w) ==
    LET end    == LocalMinuteToUtc(c, LocalDate(c, w.cursor), c.to)
        ahead  == {b \in c.off : IsActive(b) /\ b.starts < end /\ b.ends > w.cursor}
        block  == CHOOSE b \in ahead : \A o \in ahead : b.starts <= o.starts
        until  == IF ahead = {} THEN end ELSE Min({end, block.starts})
        resume == IF ahead = {} THEN end ELSE block.ends
        worked == Max({until - w.cursor, 0})
    IN  IF w.left <= worked
        THEN [cursor |-> w.cursor + w.left, left |-> 0, done |-> TRUE]
        ELSE [cursor |-> NextAvailable(c, resume),
              left |-> w.left - worked, done |-> FALSE]

(* add_working_hours; units is hours in units of time. *)
AddWorkingHours(c, start, units) ==
    LET first == NextAvailable(c, start)
        turn[n \in 0 .. 4 * MaxSearchDays] ==
            IF n = 0
            THEN [cursor |-> first, left |-> units, done |-> units = 0]
            ELSE LET last == turn[n - 1]
                 IN  IF last.done \/ last.cursor = Never THEN last
                     ELSE Advance(c, last)
        Answer(last) == IF last.done THEN last.cursor ELSE Never
    IN  Answer(turn[4 * MaxSearchDays])

-----------------------------------------------------------------------------
(* The reference: c's owner works during the unit that begins at instant.    *)
Available(c, instant) ==
    /\ LocalDate(c, instant) % WeekLength \in c.days
    /\ (instant + c.offset) % DayLength \in c.from .. c.to - 1
    /\ \A b \in c.off : IsActive(b) => instant \notin b.starts .. b.ends - 1

(* next_available answers the first instant, from start on, at which the     *)
(* owner works: no night, free day or chain of overlapping blocks of time    *)
(* off is skipped too little or too much.                                   *)
EarliestFrom(c, start) ==
    LET found == NextAvailable(c, start)
    IN  /\ found >= start
        /\ Available(c, found)
        /\ \A i \in start .. found - 1 : ~ Available(c, i)

(* add_working_hours answers the instant at which exactly that much working  *)
(* time has passed since start, and not a later one.                        *)
Worked(c, start, units) ==
    LET finish == AddWorkingHours(c, start, units)
    IN  /\ Cardinality({i \in start .. finish - 1 : Available(c, i)}) = units
        /\ units > 0 => Available(c, finish - 1)
=============================================================================

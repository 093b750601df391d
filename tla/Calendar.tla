------------------------------- MODULE Calendar -------------------------------
(***************************************************************************)
(* civil_from_days of the CLI's report.rs: the date of a day that is       *)
(* counted from 1970-01-01.  i64 division of numbers that are not negative *)
(* is \div; the one quotient that may be negative is corrected by the code.*)
(***************************************************************************)
EXTENDS Integers

\* Mutant: the last day of an era, February 29th, is taken for the next year's.
YearOfEraEarly(doe) == (doe - doe \div 1460 + doe \div 36524) \div 365

\* From day of era (400 years from March 1st) to year of era.
YearOfEra(doe) == (doe - doe \div 1460 + doe \div 36524 - doe \div 146096) \div 365

DayOfYear(doe, yoe) == doe - (365 * yoe + yoe \div 4 - yoe \div 100)

\* Month and day from the day of a year that begins on March 1st.
Civil(era, yoe, doy) ==
    LET mp == (5 * doy + 2) \div 153
        m  == IF mp < 10 THEN mp + 3 ELSE mp - 9
    IN  [y |-> yoe + era * 400 + (IF m <= 2 THEN 1 ELSE 0),
         m |-> m,
         d |-> doy - (153 * mp + 2) \div 5 + 1]

CivilFromDays(day) ==
    LET z   == day + 719468
        era == z \div 146097
        doe == z - era * 146097
    IN  Civil(era, YearOfEra(doe), DayOfYear(doe, YearOfEra(doe)))

-------------------------------------------------------------------------------
(* The Gregorian calendar, as its rule says it.                              *)

Leap(y) == y % 4 = 0 /\ (y % 100 = 0 => y % 400 = 0)

MonthLength(y, m) == IF m = 2 THEN (IF Leap(y) THEN 29 ELSE 28)
                     ELSE IF m \in {4, 6, 9, 11} THEN 30 ELSE 31

Tomorrow(c) ==
    IF c.d < MonthLength(c.y, c.m) THEN [c EXCEPT !.d = @ + 1]
    ELSE IF c.m < 12 THEN [y |-> c.y, m |-> c.m + 1, d |-> 1]
    ELSE [y |-> c.y + 1, m |-> 1, d |-> 1]
================================================================================

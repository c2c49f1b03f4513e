------------------------------- MODULE Clock -------------------------------
(***************************************************************************)
(* The calendar of the timer driver (drivers/timer/timer.c): rt, set from  *)
(* the CMOS clock by init_rt, advanced by the timer's interrupt once a     *)
(* second, and copied by get_time, which interrupts may hit between two    *)
(* fields.  A time is the tuple of its fields in the order of struct Time. *)
(***************************************************************************)
EXTENDS Integers, Sequences

CONSTANTS CmosTimes, \* what the CMOS clock may hold, in BCD
          Reader     \* callers of get_time

YEAR == 1
MONTH == 2
DAY == 3
HOUR == 4
MINUTE == 5
SECOND == 6
Field == 1..6

VARIABLES
    cmos,    \* the CMOS clock; it does not advance while init_rt reads it
    rt,      \* the calendar
    setting, \* how many assignments init_rt has done; 0: init_rt is not running
    fresh,   \* history: no second has passed since init_rt
    copied,  \* of each reader: how many fields memcpy has copied
    tm       \* of each reader: its copy

clockVars == <<cmos, rt, setting, fresh, copied, tm>>
ZeroTime == [k \in Field |-> 0]

-----------------------------------------------------------------------------
leap(year) == year % 400 = 0 \/ (year % 4 = 0 /\ year % 100 # 0)
tab == [m \in 0..12 |-> IF m = 0 THEN 0 ELSE IF m = 2 THEN 28
                        ELSE IF m \in {4, 6, 9, 11} THEN 30 ELSE 31]
md(year, month) == tab[month] + (IF leap(year) /\ month = 2 THEN 1 ELSE 0)

\* Mutant: a field is carried when it is past its limit.
Carry_late(t, k, limit, low) ==
    IF t[k] > limit THEN [t EXCEPT ![k] = low, ![k - 1] = @ + 1] ELSE t

\* if (field >= limit) { field = low; the next larger field ++; }
Carry(t, k, limit, low) ==
    IF t[k] >= limit THEN [t EXCEPT ![k] = low, ![k - 1] = @ + 1] ELSE t

\* The time a second after t.
NextSecond(t) ==
    LET s == Carry([t EXCEPT ![SECOND] = @ + 1], SECOND, 60, 0)
        m == Carry(s, MINUTE, 60, 0)
        h == Carry(m, HOUR, 24, 0)
        d == Carry(h, DAY, md(h[YEAR], h[MONTH]), 1)
    IN  Carry(d, MONTH, 13, 1)

\* if (jiffy % HZ == 0) of update_jiffy
update_rt ==
    /\ rt' = NextSecond(rt)
    /\ fresh' = FALSE
    /\ UNCHANGED <<cmos, setting, copied, tm>>

-----------------------------------------------------------------------------
get_time_part(bcd) == (bcd \div 16) * 10 + (bcd % 16)

\* The CMOS clock holds a date.  The year is of the century, the hour is not used.
ASSUME ClockAssumption ==
    \A c \in CmosTimes :
        /\ c \in [Field -> 0..255]
        /\ get_time_part(c[MONTH]) \in 1..12 /\ get_time_part(c[DAY]) \in 1..31
        /\ get_time_part(c[MINUTE]) \in 0..59 /\ get_time_part(c[SECOND]) \in 0..59

\* memset(&rt, 0, sizeof(Time)), field by field; the bytes of a field that matter
\* are in one byte.  init_timer does this before any thread that calls get_time exists.
init_rt ==
    /\ setting < SECOND
    /\ \A r \in Reader : copied[r] = 0
    /\ rt' = [rt EXCEPT ![setting + 1] = 0]
    /\ setting' = setting + 1
    /\ UNCHANGED <<cmos, fresh, copied, tm>>

\* The CMOS register each field is read from: the hour is read from TIME_DAY.
Register(k) == IF k = HOUR THEN DAY ELSE k

\* rt.field = get_time_part(TIME_FIELD)
init_rt_field ==
    /\ setting >= SECOND
    /\ LET k == setting - SECOND + 1
       IN  /\ rt' = [rt EXCEPT ![k] = get_time_part(cmos[Register(k)])]
           /\ setting' = IF k = SECOND THEN 0 ELSE setting + 1
    /\ fresh' = TRUE
    /\ UNCHANGED <<cmos, copied, tm>>

\* Mutant: the fields are copied from the last to the first.
FieldAt_down(n) == SECOND - n

\* The field memcpy copies when it has copied n.
FieldAt(n) == n + 1

\* memcpy(tm, &rt, sizeof(Time)), field by field; then the next call.
get_time(r) ==
    LET n == IF copied[r] = SECOND THEN 0 ELSE copied[r]
    IN  /\ setting = 0
        /\ tm' = [tm EXCEPT ![r][FieldAt(n)] = rt[FieldAt(n)]]
        /\ copied' = [copied EXCEPT ![r] = n + 1]
        /\ UNCHANGED <<cmos, rt, setting, fresh>>

\* The first init_rt of init_timer runs with interrupts off.
ClockInit ==
    /\ cmos \in CmosTimes
    /\ rt = [k \in Field |-> get_time_part(cmos[Register(k)])]
    /\ setting = 0
    /\ fresh = TRUE
    /\ copied = [r \in Reader |-> 0]
    /\ tm = [r \in Reader |-> ZeroTime]

ClockNext == update_rt \/ init_rt \/ init_rt_field \/ \E r \in Reader : get_time(r)

ClockSpec == ClockInit /\ [][ClockNext]_clockVars

-----------------------------------------------------------------------------
(* Correctness                                                              *)

\* Time s is before time t.
Before(s, t) == \E k \in Field : s[k] < t[k] /\ \A j \in 1..(k - 1) : s[j] = t[j]

\* Once a second has passed rt is a date of the calendar, although init_rt takes
\* the hour from the day and interrupts hit it half done; the last day of a month
\* is never shown, since the day is carried when it reaches md().
DateValid ==
    setting = 0 /\ ~fresh =>
        /\ rt[MONTH] \in 1..12
        /\ rt[DAY] \in 1..(md(rt[YEAR], rt[MONTH]) - 1)
        /\ rt[HOUR] \in 0..23 /\ rt[MINUTE] \in 0..59 /\ rt[SECOND] \in 0..59

\* A copy torn by the timer's interrupt may be in the past, by up to the field that
\* was carried, but never in the future.
NeverAhead == \A r \in Reader : copied[r] = SECOND => ~Before(rt, tm[r])

\* The interrupt only moves the clock forward; init_rt alone sets it back.
TimeAdvances == [][setting = 0 /\ setting' = 0 /\ rt' # rt => Before(rt, rt')]_clockVars
=============================================================================

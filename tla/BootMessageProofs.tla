------------------------- MODULE BootMessageProofs --------------------------
(***************************************************************************)
(* Proofs about two specifications that share no constant and no variable. *)
(*                                                                         *)
(* The calendar (module Clock) and the boot that runs it (module Boot):    *)
(* every step of the booting machine is a step of the calendar, so what is *)
(* proved of the calendar holds while it boots; and everything an          *)
(* instruction of the boot needs was executed before it, whatever          *)
(* interrupts it.                                                          *)
(*                                                                         *)
(* send and receive (module Message): correct for any number of processes, *)
(* any size of the pool and any interrupts.  The semaphores count the      *)
(* lists, and what is received is what was sent, up to the two races the   *)
(* ring allows.                                                            *)
(***************************************************************************)
EXTENDS Boot, Message, ListProofs, FiniteSetTheorems

Time == [Field -> Int]

-----------------------------------------------------------------------------
(* NextSecond                                                               *)

\* Most steps are set reasoning: Zenon proves them, SMT is asked by name.
USE Zenon

\* What one carry does to the fields (the if statements of update_jiffy).
LEMMA CarryFields ==
    ASSUME NEW s \in Time, NEW k \in 2..6, NEW limit \in Int, NEW low \in Int
    PROVE  /\ Carry(s, k, limit, low) \in Time
           /\ \A j \in Field \ {k, k - 1} : Carry(s, k, limit, low)[j] = s[j]
           /\ s[k] < limit => Carry(s, k, limit, low) = s
           /\ s[k] >= limit => /\ Carry(s, k, limit, low)[k] = low
                               /\ Carry(s, k, limit, low)[k - 1] = s[k - 1] + 1
  BY SMT DEF Carry, Time, Field

\* A carry moves a time forward or leaves it.
LEMMA CarryForward ==
    ASSUME NEW s \in Time, NEW k \in 2..6, NEW limit \in Int, NEW low \in Int
    PROVE  Carry(s, k, limit, low) = s \/ Before(s, Carry(s, k, limit, low))
<1> DEFINE c == Carry(s, k, limit, low)
<1>1. CASE s[k] < limit
  BY SMT, <1>1, CarryFields
<1>2. CASE s[k] >= limit
  <2>1. s[k - 1] < c[k - 1] /\ k - 1 \in Field
    BY SMT, <1>2, CarryFields DEF Time, Field
  <2>2. \A j \in 1..(k - 2) : s[j] = c[j]
    BY SMT, CarryFields DEF Field
  <2> QED
    BY SMT, <2>1, <2>2 DEF Before, Field
<1> QED
  BY SMT, <1>1, <1>2 DEF Time, Field

\* Before is the lexicographic order, so it is transitive.
LEMMA BeforeTransitive ==
    ASSUME NEW s \in Time, NEW u \in Time, NEW v \in Time, Before(s, u), Before(u, v)
    PROVE  Before(s, v)
<1>1. PICK a \in Field : s[a] < u[a] /\ \A j \in 1..(a - 1) : s[j] = u[j]
  BY DEF Before
<1>2. PICK b \in Field : u[b] < v[b] /\ \A j \in 1..(b - 1) : u[j] = v[j]
  BY DEF Before
<1>3. CASE a <= b
  <2>1. s[a] < v[a]
    <3>1. CASE a = b
      BY SMT, <3>1, <1>1, <1>2 DEF Time, Field
    <3>2. CASE a < b
      BY SMT, <3>2, <1>1, <1>2 DEF Time, Field
    <3> QED
      BY SMT, <1>3, <3>1, <3>2 DEF Field
  <2>2. \A j \in 1..(a - 1) : s[j] = v[j]
    BY SMT, <1>1, <1>2, <1>3 DEF Field
  <2> QED
    BY <2>1, <2>2 DEF Before
<1>4. CASE b < a
  <2>1. s[b] < v[b]
    BY SMT, <1>1, <1>2, <1>4 DEF Time, Field
  <2>2. \A j \in 1..(b - 1) : s[j] = v[j]
    BY SMT, <1>1, <1>2, <1>4 DEF Field
  <2> QED
    BY <2>1, <2>2 DEF Before
<1> QED
  BY SMT, <1>3, <1>4 DEF Field

\* md() is defined for the months and for 0, which rt holds while init_rt runs.
LEMMA MonthLength ==
    ASSUME NEW y \in Int, NEW mo \in 0..12
    PROVE  md(y, mo) \in 0..31 /\ (mo >= 1 => md(y, mo) >= 28)
  BY SMT DEF md, tab, leap

\* The second that update_jiffy adds is a time after the old one, whatever the
\* fields were.
LEMMA NextSecondForward ==
    ASSUME NEW x \in Time, x[MONTH] \in 0..12
    PROVE  NextSecond(x) \in Time /\ Before(x, NextSecond(x))
<1> DEFINE i == [x EXCEPT ![SECOND] = @ + 1]
           s == Carry(i, SECOND, 60, 0)
           m == Carry(s, MINUTE, 60, 0)
           h == Carry(m, HOUR, 24, 0)
           d == Carry(h, DAY, md(h[YEAR], h[MONTH]), 1)
           n == Carry(d, MONTH, 13, 1)
<1>0. NextSecond(x) = n
  BY DEF NextSecond
<1> HIDE DEF i, s, m, h, d, n
<1>1. i \in Time /\ Before(x, i) /\ i[MONTH] = x[MONTH]
  <2>1. i \in Time /\ i[6] = x[6] + 1 /\ \A j \in 1..5 : i[j] = x[j]
    BY SMT DEF Time, Field, SECOND, i
  <2> QED
    BY SMT, <2>1 DEF Before, Field, Time, MONTH
<1>2. s \in Time /\ Before(x, s) /\ s[MONTH] = x[MONTH]
  <2>0. SECOND \in 2..6 /\ MONTH \in Field \ {SECOND, SECOND - 1} /\ 60 \in Int /\ 0 \in Int
    BY SMT DEF SECOND, MONTH, Field
  <2>1. s \in Time /\ s[MONTH] = i[MONTH]
    BY SMT, <1>1, <2>0, CarryFields DEF s
  <2>2. s = i \/ Before(i, s)
    BY <1>1, <2>0, CarryForward DEF s
  <2> QED
    BY <1>1, <2>1, <2>2, BeforeTransitive
<1>3. m \in Time /\ Before(x, m) /\ m[MONTH] = x[MONTH]
  <2>0. MINUTE \in 2..6 /\ MONTH \in Field \ {MINUTE, MINUTE - 1} /\ 60 \in Int /\ 0 \in Int
    BY SMT DEF MINUTE, MONTH, Field
  <2>1. m \in Time /\ m[MONTH] = s[MONTH]
    BY SMT, <1>2, <2>0, CarryFields DEF m
  <2>2. m = s \/ Before(s, m)
    BY <1>2, <2>0, CarryForward DEF m
  <2> QED
    BY <1>2, <2>1, <2>2, BeforeTransitive
<1>4. h \in Time /\ Before(x, h) /\ h[MONTH] = x[MONTH]
  <2>0. HOUR \in 2..6 /\ MONTH \in Field \ {HOUR, HOUR - 1} /\ 24 \in Int /\ 0 \in Int
    BY SMT DEF HOUR, MONTH, Field
  <2>1. h \in Time /\ h[MONTH] = m[MONTH]
    BY SMT, <1>3, <2>0, CarryFields DEF h
  <2>2. h = m \/ Before(m, h)
    BY <1>3, <2>0, CarryForward DEF h
  <2> QED
    BY <1>3, <2>1, <2>2, BeforeTransitive
<1>5. md(h[YEAR], h[MONTH]) \in Int
  <2>1. h[YEAR] \in Int /\ h[MONTH] \in 0..12
    BY SMT, <1>4 DEF Time, Field, YEAR
  <2> QED
    BY SMT, <2>1, MonthLength
<1>6. d \in Time /\ Before(x, d)
  <2>0. DAY \in 2..6 /\ 1 \in Int
    BY SMT DEF DAY
  <2>1. d \in Time
    BY <1>4, <1>5, <2>0, CarryFields DEF d
  <2>2. d = h \/ Before(h, d)
    BY <1>4, <1>5, <2>0, CarryForward DEF d
  <2> QED
    BY <1>4, <2>1, <2>2, BeforeTransitive
<1>7. n \in Time /\ Before(x, n)
  <2>0. MONTH \in 2..6 /\ 13 \in Int /\ 1 \in Int
    BY SMT DEF MONTH
  <2>1. n \in Time
    BY ZenonT(30), <1>6, <2>0, CarryFields DEF n
  <2>2. n = d \/ Before(d, n)
    BY <1>6, <2>0, CarryForward DEF n
  <2> QED
    BY <1>6, <2>1, <2>2, BeforeTransitive
<1> QED
  BY <1>0, <1>7

\* What a time of the calendar, or one that init_rt has half done, may be.
InRange(x) ==
    /\ x[MONTH] \in 0..12 /\ x[DAY] \in 0..31
    /\ x[HOUR] \in 0..31 /\ x[MINUTE] \in 0..59 /\ x[SECOND] \in 0..59

\* A second later the hour is one of the day again, and the day one of the month if
\* neither field was 0.
LEMMA NextSecondRange ==
    ASSUME NEW x \in Time, InRange(x)
    PROVE  /\ InRange(NextSecond(x)) /\ NextSecond(x)[HOUR] \in 0..23
           /\ x[MONTH] >= 1 => NextSecond(x)[MONTH] >= 1
           /\ x[DAY] >= 1 => NextSecond(x)[DAY] >= 1
           /\ x[MONTH] >= 1 /\ x[DAY] >= 1 =>
                 NextSecond(x)[DAY] <= md(NextSecond(x)[YEAR], NextSecond(x)[MONTH]) - 1
<1> USE DEF YEAR, MONTH, DAY, HOUR, MINUTE, SECOND
<1> DEFINE i == [x EXCEPT ![SECOND] = @ + 1]
           s == Carry(i, SECOND, 60, 0)
           m == Carry(s, MINUTE, 60, 0)
           h == Carry(m, HOUR, 24, 0)
           d == Carry(h, DAY, md(h[YEAR], h[MONTH]), 1)
           n == Carry(d, MONTH, 13, 1)
<1>0. NextSecond(x) = n
  BY DEF NextSecond
<1> HIDE DEF i, s, m, h, d, n
<1>1. i \in Time /\ i[6] \in 0..60 /\ \A j \in 1..5 : i[j] = x[j]
  BY SMT DEF InRange, Time, Field, i
<1>2. s \in Time /\ s[6] \in 0..59 /\ s[5] \in 0..60 /\ \A j \in 1..4 : s[j] = x[j]
  <2>1. /\ s \in Time /\ \A j \in Field \ {6, 5} : s[j] = i[j]
        /\ i[6] < 60 => s = i
        /\ i[6] >= 60 => s[6] = 0 /\ s[5] = i[5] + 1
    BY SMT, <1>1, CarryFields DEF s
  <2> QED
    BY SMT, <1>1, <2>1 DEF InRange, Field, Time
<1>3. m \in Time /\ m[6] \in 0..59 /\ m[5] \in 0..59 /\ m[4] \in 0..32 /\ \A j \in 1..3 : m[j] = x[j]
  <2>1. /\ m \in Time /\ \A j \in Field \ {5, 4} : m[j] = s[j]
        /\ s[5] < 60 => m = s
        /\ s[5] >= 60 => m[5] = 0 /\ m[4] = s[4] + 1
    BY SMT, <1>2, CarryFields DEF m
  <2> QED
    BY SMT, <1>2, <2>1 DEF InRange, Field, Time
<1>4. /\ h \in Time /\ h[6] \in 0..59 /\ h[5] \in 0..59 /\ h[4] \in 0..23
      /\ h[3] \in x[3]..(x[3] + 1) /\ h[2] = x[2] /\ h[1] = x[1]
  <2>1. /\ h \in Time /\ \A j \in Field \ {4, 3} : h[j] = m[j]
        /\ m[4] < 24 => h = m
        /\ m[4] >= 24 => h[4] = 0 /\ h[3] = m[3] + 1
    BY SMT, <1>3, CarryFields DEF h
  <2> QED
    BY SMT, <1>3, <2>1 DEF InRange, Field, Time
<1>5. md(h[1], h[2]) \in 0..31 /\ (h[2] >= 1 => md(h[1], h[2]) >= 28)
  <2>1. h[1] \in Int /\ h[2] \in 0..12
    BY SMT, <1>4 DEF Time, Field, InRange
  <2> QED
    BY <2>1, MonthLength
<1>6. /\ d \in Time /\ d[6] \in 0..59 /\ d[5] \in 0..59 /\ d[4] \in 0..23 /\ d[1] = x[1]
      /\ \/ d[3] = 1 /\ d[2] = x[2] + 1
         \/ d[3] = h[3] /\ d[3] < md(h[1], h[2]) /\ d[2] = x[2]
  <2>1. /\ d \in Time /\ \A j \in Field \ {3, 2} : d[j] = h[j]
        /\ h[3] < md(h[1], h[2]) => d = h
        /\ h[3] >= md(h[1], h[2]) => d[3] = 1 /\ d[2] = h[2] + 1
    BY SMT, <1>4, <1>5, CarryFields DEF d
  <2> QED
    BY SMT, <1>4, <1>5, <2>1 DEF InRange, Field, Time
<1>7. /\ n \in Time /\ n[6] \in 0..59 /\ n[5] \in 0..59 /\ n[4] \in 0..23 /\ n[3] = d[3]
      /\ d[2] < 13 => n[2] = d[2] /\ n[1] = d[1]
      /\ d[2] >= 13 => n[2] = 1
  <2>1. /\ n \in Time /\ \A j \in Field \ {2, 1} : n[j] = d[j]
        /\ d[2] < 13 => n = d
        /\ d[2] >= 13 => n[2] = 1 /\ n[1] = d[1] + 1
    BY SMT, <1>6, CarryFields DEF n
  <2> QED
    BY SMT, <1>6, <2>1 DEF Field, Time
<1>8. /\ InRange(n) /\ n[4] \in 0..23
      /\ x[2] >= 1 => n[2] >= 1
      /\ x[3] >= 1 => n[3] >= 1
  BY SMT, <1>4, <1>5, <1>6, <1>7 DEF InRange, Time, Field
<1>9. ASSUME x[2] >= 1, x[3] >= 1 PROVE n[3] <= md(n[1], n[2]) - 1
  <2>0. n[1] \in Int /\ n[2] \in 1..12
    BY SMT, <1>7, <1>8, <1>9 DEF InRange, Time, Field
  <2>1. md(n[1], n[2]) \in 28..31
    <3>1. n[2] \in 0..12 /\ n[2] >= 1
      BY SMT, <2>0
    <3>2. md(n[1], n[2]) \in 0..31 /\ md(n[1], n[2]) >= 28
      BY <2>0, <3>1, MonthLength
    <3> QED
      BY SMT, <3>2
  <2>2. CASE d[3] = 1
    BY SMT, <2>1, <2>2, <1>7
  <2>3. CASE d[3] = h[3] /\ d[3] < md(h[1], h[2]) /\ d[2] = x[2]
    <3>1. n[1] = h[1] /\ n[2] = h[2]
      BY SMT, <1>4, <1>6, <1>7, <2>3 DEF InRange
    <3>2. d[3] \in Int
      BY SMT, <1>6 DEF Time, Field
    <3> QED
      BY SMT, <2>1, <2>3, <3>1, <3>2, <1>7
  <2> QED
    BY <1>6, <2>2, <2>3
<1> QED
  BY <1>0, <1>8, <1>9

-----------------------------------------------------------------------------
(* The calendar                                                             *)

\* init_rt has given rt a month and a day, or is not running.
MonthSet == setting = 0 \/ setting >= 8
DaySet == setting = 0 \/ setting >= 9

\* The inductive invariant.  No copied field is ahead of rt where the fields before
\* it agree; nobody copies while init_rt runs.
ClockInv ==
    /\ cmos \in CmosTimes
    /\ rt \in Time /\ InRange(rt)
    /\ setting \in 0..11
    /\ fresh \in BOOLEAN
    /\ copied \in [Reader -> 0..6]
    /\ tm \in [Reader -> Time]
    /\ MonthSet => rt[MONTH] >= 1
    /\ DaySet => rt[DAY] >= 1
    /\ DateValid
    /\ setting # 0 => \A r \in Reader : copied[r] = 0
    /\ \A r \in Reader : \A k \in 1..copied[r] :
          rt[k] < tm[r][k] => \E j \in 1..(k - 1) : rt[j] # tm[r][j]

\* What init_rt reads from the CMOS clock for each field.
LEMMA CmosField ==
    ASSUME NEW c \in CmosTimes, NEW k \in Field
    PROVE  /\ get_time_part(c[Register(k)]) \in Int
           /\ k = MONTH => get_time_part(c[Register(k)]) \in 1..12
           /\ k = DAY => get_time_part(c[Register(k)]) \in 1..31
           /\ k = HOUR => get_time_part(c[Register(k)]) \in 1..31
           /\ k \in {MINUTE, SECOND} => get_time_part(c[Register(k)]) \in 0..59
<1> USE DEF YEAR, MONTH, DAY, HOUR, MINUTE, SECOND
<1>1. /\ c \in [Field -> 0..255]
      /\ get_time_part(c[2]) \in 1..12 /\ get_time_part(c[3]) \in 1..31
      /\ get_time_part(c[5]) \in 0..59 /\ get_time_part(c[6]) \in 0..59
  BY ZenonT(30), ClockAssumption
<1>2. \A b \in 0..255 : get_time_part(b) \in Int
  BY SMT DEF get_time_part
<1>3. c[Register(k)] \in 0..255
  BY SMT, <1>1 DEF Register, Field
<1>4. k = 4 => Register(k) = 3
  BY DEF Register
<1>5. k # 4 => Register(k) = k
  BY DEF Register
<1>6. get_time_part(c[Register(k)]) \in Int
  BY <1>2, <1>3
<1>7. /\ k = 2 => get_time_part(c[Register(k)]) \in 1..12
      /\ k \in {3, 4} => get_time_part(c[Register(k)]) \in 1..31
      /\ k \in {5, 6} => get_time_part(c[Register(k)]) \in 0..59
  BY SMT, <1>1, <1>4, <1>5
<1> QED
  BY <1>6, <1>7

\* The calendar starts with the CMOS time, and nobody has copied it.
LEMMA ClockInvInit == ClockInit => ClockInv
<1> USE DEF YEAR, MONTH, DAY, HOUR, MINUTE, SECOND
<1> SUFFICES ASSUME ClockInit PROVE ClockInv
  OBVIOUS
<1>1. cmos \in CmosTimes /\ rt = [k \in Field |-> get_time_part(cmos[Register(k)])]
  BY DEF ClockInit
<1>2. rt \in Time
  BY <1>1, CmosField DEF Time
<1>3. /\ rt[2] \in 1..12 /\ rt[3] \in 1..31 /\ rt[4] \in 1..31
      /\ rt[5] \in 0..59 /\ rt[6] \in 0..59
  <2>1. \A k \in Field : rt[k] = get_time_part(cmos[Register(k)])
    BY <1>1
  <2> QED
    BY SMT, <1>1, <2>1, CmosField DEF Field
<1>4. InRange(rt) /\ rt[2] >= 1 /\ rt[3] >= 1
  BY SMT, <1>3 DEF InRange
<1>5. ZeroTime \in Time
  BY SMT DEF ZeroTime, Time
<1> QED
  BY SMT, <1>1, <1>2, <1>4, <1>5 DEF ClockInit, ClockInv, DateValid

\* The timer's interrupt, wherever it hits init_rt or get_time.
LEMMA UpdatePreserves == ClockInv /\ update_rt => ClockInv'
<1> SUFFICES ASSUME ClockInv, update_rt PROVE ClockInv'
  OBVIOUS
<1>1. rt' = NextSecond(rt) /\ fresh' = FALSE /\ UNCHANGED <<cmos, setting, copied, tm>>
  BY DEF update_rt
<1>2. /\ InRange(rt') /\ rt'[HOUR] \in 0..23
      /\ rt[MONTH] >= 1 => rt'[MONTH] >= 1
      /\ rt[DAY] >= 1 => rt'[DAY] >= 1
      /\ rt[MONTH] >= 1 /\ rt[DAY] >= 1 => rt'[DAY] <= md(rt'[YEAR], rt'[MONTH]) - 1
  BY <1>1, NextSecondRange DEF ClockInv
<1>3. rt' \in Time /\ Before(rt, rt')
  BY <1>1, NextSecondForward DEF ClockInv, InRange
<1>4. (MonthSet => rt[MONTH] >= 1)' /\ (DaySet => rt[DAY] >= 1)'
  BY <1>1, <1>2 DEF ClockInv, MonthSet, DaySet
<1>5. DateValid'
  <2> SUFFICES ASSUME setting = 0 PROVE (DateValid)'
    BY <1>1 DEF DateValid
  <2>1. rt[MONTH] >= 1 /\ rt[DAY] >= 1
    BY DEF ClockInv, MonthSet, DaySet
  <2>2. rt'[MONTH] \in 1..12 /\ rt'[DAY] \in 1..31
    BY SMT, <1>2, <2>1 DEF InRange
  <2>3. md(rt'[YEAR], rt'[MONTH]) \in Int
    <3>1. rt'[YEAR] \in Int /\ rt'[MONTH] \in 0..12
      BY SMT, <1>3, <2>2 DEF Time, Field, YEAR
    <3> QED
      BY SMT, <3>1, MonthLength
  <2>4. rt'[DAY] \in 1..(md(rt'[YEAR], rt'[MONTH]) - 1)
    BY SMT, <1>2, <2>1, <2>2, <2>3
  <2> QED
    BY <1>2, <2>2, <2>4 DEF DateValid, InRange
<1>6. ASSUME NEW r \in Reader, NEW k \in 1..copied[r], rt'[k] < tm[r][k]
      PROVE  \E j \in 1..(k - 1) : rt'[j] # tm[r][j]
  <2> SUFFICES ASSUME \A j \in 1..(k - 1) : rt'[j] = tm[r][j] PROVE FALSE
    OBVIOUS
  <2>1. PICK a \in Field : rt[a] < rt'[a] /\ \A j \in 1..(a - 1) : rt[j] = rt'[j]
    BY <1>3 DEF Before
  <2>2. /\ copied[r] \in 0..6 /\ rt \in [1..6 -> Int] /\ rt' \in [1..6 -> Int]
        /\ tm[r] \in [1..6 -> Int] /\ a \in 1..6
        /\ \A i \in 1..copied[r] : rt[i] < tm[r][i] => \E j \in 1..(i - 1) : rt[j] # tm[r][j]
    BY <1>3 DEF ClockInv, Time, Field
  <2>3. CASE a < k
    BY SMT, <1>6, <2>1, <2>2, <2>3
  <2>4. CASE a >= k
    <3>1. rt[k] < tm[r][k]
      BY SMT, <1>6, <2>1, <2>2, <2>4
    <3>2. \A j \in 1..(k - 1) : rt[j] = tm[r][j]
      BY SMTT(30), <2>1, <2>2, <2>4
    <3> QED
      BY <3>1, <3>2, <2>2
  <2> QED
    BY SMT, <2>2, <2>3, <2>4
<1> QED
  BY <1>1, <1>2, <1>3, <1>4, <1>5, <1>6 DEF ClockInv

\* A field of the memset.
LEMMA InitRtPreserves == ClockInv /\ init_rt => ClockInv'
<1> USE DEF YEAR, MONTH, DAY, HOUR, MINUTE, SECOND
<1> SUFFICES ASSUME ClockInv, init_rt PROVE ClockInv'
  OBVIOUS
<1>1. /\ setting \in 0..5 /\ setting' = setting + 1 /\ rt' = [rt EXCEPT ![setting + 1] = 0]
      /\ \A r \in Reader : copied[r] = 0
      /\ UNCHANGED <<cmos, fresh, copied, tm>>
  BY SMT DEF init_rt, ClockInv
<1>2. rt' \in Time /\ InRange(rt')
  BY SMT, <1>1 DEF ClockInv, Time, Field, InRange
<1>3. ~MonthSet' /\ ~DaySet' /\ setting' \in 1..11 /\ DateValid'
  BY SMTT(30), <1>1 DEF MonthSet, DaySet, DateValid
<1> QED
  BY SMT, <1>1, <1>2, <1>3 DEF ClockInv

\* An assignment of init_rt.
LEMMA InitRtFieldPreserves == ClockInv /\ init_rt_field => ClockInv'
<1> USE DEF YEAR, MONTH, DAY, HOUR, MINUTE, SECOND
<1> SUFFICES ASSUME ClockInv, init_rt_field PROVE ClockInv'
  OBVIOUS
<1> DEFINE k == setting - 5
           v == get_time_part(cmos[Register(k)])
<1>1. /\ k \in Field /\ rt' = [rt EXCEPT ![k] = v]
      /\ setting' = IF k = 6 THEN 0 ELSE setting + 1
      /\ setting \in 6..11 /\ fresh' = TRUE
      /\ UNCHANGED <<cmos, copied, tm>>
  BY SMT DEF init_rt_field, ClockInv, Field
<1>2. /\ v \in Int
      /\ k = 2 => v \in 1..12
      /\ k = 3 => v \in 1..31
      /\ k = 4 => v \in 1..31
      /\ k \in {5, 6} => v \in 0..59
  BY <1>1, CmosField DEF ClockInv
<1> HIDE DEF v
<1>3. rt' \in Time /\ rt'[k] = v /\ \A j \in Field \ {k} : rt'[j] = rt[j]
  BY <1>1, <1>2 DEF ClockInv, Time
<1>4. InRange(rt')
  BY SMT, <1>1, <1>2, <1>3 DEF ClockInv, InRange, Field
<1>5. (MonthSet => rt[2] >= 1)'
  <2>1. CASE k = 2
    BY SMT, <2>1, <1>2, <1>3
  <2>2. CASE k # 2
    BY SMT, <2>2, <1>1, <1>3 DEF ClockInv, MonthSet, Field
  <2> QED
    BY <2>1, <2>2
<1>6. (DaySet => rt[3] >= 1)'
  <2>1. CASE k = 3
    BY SMT, <2>1, <1>2, <1>3
  <2>2. CASE k # 3
    BY SMT, <2>2, <1>1, <1>3 DEF ClockInv, DaySet, Field
  <2> QED
    BY <2>1, <2>2
<1>7. setting' \in 0..11 /\ DateValid' /\ \A r \in Reader : copied'[r] = 0
  BY SMT, <1>1 DEF ClockInv, DateValid, Field
<1> QED
  BY SMTT(30), <1>1, <1>3, <1>4, <1>5, <1>6, <1>7 DEF ClockInv

\* A field of get_time's memcpy.
LEMMA GetTimePreserves ==
    ASSUME ClockInv, NEW r \in Reader, get_time(r)
    PROVE  ClockInv'
<1> USE DEF SECOND
<1> DEFINE c == IF copied[r] = 6 THEN 0 ELSE copied[r]
<1>1. /\ c \in 0..5 /\ setting = 0 /\ c <= copied[r]
      /\ tm' = [tm EXCEPT ![r][c + 1] = rt[c + 1]]
      /\ copied' = [copied EXCEPT ![r] = c + 1]
      /\ UNCHANGED <<cmos, rt, setting, fresh>>
  BY SMT DEF get_time, FieldAt, ClockInv
<1> HIDE DEF c
<1>2. rt \in [1..6 -> Int] /\ tm \in [Reader -> [1..6 -> Int]] /\ copied \in [Reader -> 0..6]
  BY DEF ClockInv, Time, Field
<1>3. tm' \in [Reader -> [1..6 -> Int]] /\ copied' \in [Reader -> 0..6]
  BY SMT, <1>1, <1>2
<1>4. ASSUME NEW q \in Reader, NEW k \in 1..copied'[q], rt[k] < tm'[q][k]
      PROVE  \E j \in 1..(k - 1) : rt[j] # tm'[q][j]
  <2>0. \A i \in 1..copied[q] : rt[i] < tm[q][i] => \E j \in 1..(i - 1) : rt[j] # tm[q][j]
    BY DEF ClockInv
  <2>1. CASE q # r
    BY <1>1, <1>2, <1>4, <2>0, <2>1
  <2>2. CASE q = r
    <3>1. copied'[q] = c + 1 /\ tm'[q] = [tm[q] EXCEPT ![c + 1] = rt[c + 1]]
      BY <1>1, <1>2, <2>2
    <3>2. k \in 1..c
      BY SMT, <1>1, <1>2, <1>4, <2>2, <3>1
    <3>3. k \in 1..copied[q] /\ \A j \in 1..k : tm'[q][j] = tm[q][j]
      BY SMT, <1>1, <1>2, <2>2, <3>1, <3>2
    <3>4. PICK j \in 1..(k - 1) : rt[j] # tm[q][j]
      BY SMT, <1>4, <2>0, <3>2, <3>3
    <3> QED
      BY SMT, <3>2, <3>3, <3>4
  <2> QED
    BY <2>1, <2>2
<1>5. DateValid' /\ MonthSet' = MonthSet /\ DaySet' = DaySet
  BY <1>1 DEF ClockInv, DateValid, MonthSet, DaySet
<1> QED
  BY SMT, <1>1, <1>3, <1>4, <1>5 DEF ClockInv, Time, Field

\* init_rt, a tick and a copy of a field keep the calendar in order.
LEMMA ClockInvStep == ClockInv /\ [ClockNext]_clockVars => ClockInv'
<1>1. CASE UNCHANGED clockVars
  BY <1>1 DEF clockVars, ClockInv, InRange, MonthSet, DaySet, DateValid
<1> QED
  BY <1>1, UpdatePreserves, InitRtPreserves, InitRtFieldPreserves, GetTimePreserves DEF ClockNext

\* Every time the calendar shows after its first second is a date.
THEOREM CalendarDates == ClockSpec => []DateValid
<1>1. ClockInv => DateValid
  BY DEF ClockInv
<1> QED
  BY <1>1, ClockInvInit, ClockInvStep, PTL DEF ClockSpec

\* No copy that get_time makes is in the future, for any number of callers and any
\* interrupts between the fields.
THEOREM CalendarCopies == ClockSpec => []NeverAhead
<1>1. ClockInv => NeverAhead
  <2> SUFFICES ASSUME ClockInv, NEW r \in Reader, copied[r] = SECOND, Before(rt, tm[r])
               PROVE  FALSE
    BY DEF NeverAhead
  <2>1. PICK k \in Field : rt[k] < tm[r][k] /\ \A j \in 1..(k - 1) : rt[j] = tm[r][j]
    BY DEF Before
  <2>2. k \in 1..copied[r]
    BY DEF SECOND, Field
  <2> QED
    BY <2>1, <2>2 DEF ClockInv
<1> QED
  BY <1>1, ClockInvInit, ClockInvStep, PTL DEF ClockSpec

\* While init_rt is not running, every change of the calendar moves it forward.
THEOREM CalendarAdvances == ClockSpec => TimeAdvances
<1>1. ClockInv /\ [ClockNext]_clockVars =>
        [setting = 0 /\ setting' = 0 /\ rt' # rt => Before(rt, rt')]_clockVars
  <2> SUFFICES ASSUME ClockInv, ClockNext, setting = 0, setting' = 0, rt' # rt
               PROVE  Before(rt, rt')
    OBVIOUS
  <2>1. CASE update_rt
    BY <2>1, NextSecondForward DEF update_rt, ClockInv, InRange
  <2>2. CASE init_rt
    BY SMT, <2>2 DEF init_rt
  <2>3. CASE init_rt_field
    BY SMT, <2>3 DEF init_rt_field, SECOND
  <2>4. CASE \E r \in Reader : get_time(r)
    BY <2>4 DEF get_time
  <2> QED
    BY <2>1, <2>2, <2>3, <2>4 DEF ClockNext
<1> QED
  BY <1>1, ClockInvInit, ClockInvStep, PTL DEF ClockSpec, TimeAdvances

-----------------------------------------------------------------------------
(* The booting machine                                                      *)

\* The calendar of a booting machine is the one of module Clock: whatever the boot
\* context, the threads and the interrupts do is one of its steps or leaves it alone.
THEOREM BootCalendar == BootSpec => CalendarSpec
<1>1. BootInit => ClockInit
  BY DEF BootInit
<1>2. [BootNext]_machineVars => [ClockNext]_clockVars
  <2> SUFFICES ASSUME [BootNext]_machineVars PROVE [ClockNext]_clockVars
    OBVIOUS
  <2>1. CASE UNCHANGED machineVars
    BY <2>1 DEF machineVars
  <2>2. CASE boot
    <3>1. CASE do_init_rt
      BY <3>1 DEF do_init_rt, ClockNext
    <3>2. CASE do_srand
      BY <3>2, BootAssumption DEF do_srand, ClockNext
    <3> QED
      BY <2>2, <3>1, <3>2
      DEF boot, do_create, do_publish, do_wakeup, do_hal_register, do_add_irq_handle,
          do_current_consl, do_create_process
  <2>3. CASE tick
    BY <2>3 DEF tick, ClockNext
  <2>4. CASE key
    BY <2>4 DEF key
  <2>5. ASSUME NEW th \in Thread, serve(th) PROVE [ClockNext]_clockVars
    BY <2>5, BootAssumption DEF serve, Blocks, Handles, ClockNext
  <2>6. ASSUME NEW th \in Thread, getty(th) PROVE [ClockNext]_clockVars
    BY <2>6 DEF getty
  <2> QED
    BY <2>1, <2>2, <2>3, <2>4, <2>5, <2>6 DEF BootNext, idle_loop
<1> QED
  BY <1>1, <1>2, PTL DEF BootSpec, CalendarSpec, ClockSpec

\* So a booting machine shows dates, for any number of interrupts and any time of
\* the CMOS clock.
THEOREM BootDates == BootSpec => []DateValid
  BY BootCalendar, CalendarDates, PTL DEF CalendarSpec

\* Neither srand() nor the banner gets a time that is still to come.
THEOREM BootCopies == BootSpec => []NeverAhead
  BY BootCalendar, CalendarCopies, PTL DEF CalendarSpec

\* The second init_rt is the only part of the boot that sets the clock back.
THEOREM BootAdvances == BootSpec => TimeAdvances
  BY BootCalendar, CalendarAdvances, PTL DEF CalendarSpec

-----------------------------------------------------------------------------
(* The program of the boot context                                          *)

Handler == {"update_jiffy", "send_updatemsg", "time_intr", "send_keymsg"}

\* What an instruction is, and what must have been executed before it.
Instruction ==
    {<<"create", th>> : th \in Thread} \cup {<<"pid", th>> : th \in Server}
    \cup {<<"wakeup", th>> : th \in Thread}
    \cup {<<"register", th, th>> : th \in Server} \cup {<<"register", dev, "ttyd">> : dev \in Range(Ttys)}
    \cup {<<"irq", 0, f>> : f \in Handler \ {"send_keymsg"}} \cup {<<"irq", 1, "send_keymsg">>}
    \cup {<<"current_consl">>, <<"init_rt">>, <<"srand">>, <<"create_process">>}

\* The instructions that must come before x.
Needs(x) ==
    CASE x[1] = "register" -> {<<"pid", x[3]>>}
      [] x[1] = "irq" /\ x[3] = "send_updatemsg" -> {<<"current_consl">>, <<"pid", "ttyd">>}
      [] x[1] = "wakeup" /\ x[2] \in Range(Getty) -> {<<"register", dev, "ttyd">> : dev \in Range(Ttys)}
      [] x[1] = "create_process" -> {<<"pid", "pm">>}
      [] OTHER -> {}

\* Every instruction of s comes after those it needs.
Ordered(s) ==
    /\ s \in Seq(Instruction)
    /\ \A k \in 1..Len(s) : \A y \in Needs(s[k]) : \E j \in 1..(k - 1) : s[j] = y

\* A sequence behind another that executes what it needs.
LEMMA OrderedJoin ==
    ASSUME NEW s, Ordered(s), NEW t \in Seq(Instruction),
           \A k \in 1..Len(t) : \A y \in Needs(t[k]) : y \in Range(s) \/ \E j \in 1..(k - 1) : t[j] = y
    PROVE  Ordered(s \o t) /\ Range(s \o t) = Range(s) \cup Range(t)
<1> DEFINE u == s \o t
<1>1. /\ s \in Seq(Instruction) /\ u \in Seq(Instruction)
      /\ Len(u) = Len(s) + Len(t) /\ Len(s) \in Nat /\ Len(t) \in Nat
      /\ \A k \in 1..Len(s) : u[k] = s[k]
      /\ \A k \in 1..Len(t) : u[Len(s) + k] = t[k]
  BY SMT DEF Ordered
<1> HIDE DEF u
<1>2. /\ \A k \in 1..Len(u) : k \in 1..Len(s) \/ \E n \in 1..Len(t) : k = Len(s) + n
      /\ \A k \in 1..Len(s) : k \in 1..Len(u)
      /\ \A n \in 1..Len(t) : Len(s) + n \in 1..Len(u)
  <2>1. ASSUME NEW k \in 1..Len(u), k \notin 1..Len(s) PROVE k - Len(s) \in 1..Len(t) /\ k = Len(s) + (k - Len(s))
    BY SMT, <1>1, <2>1
  <2>2. /\ \A k \in 1..Len(s) : k \in 1..Len(u)
        /\ \A n \in 1..Len(t) : Len(s) + n \in 1..Len(u)
    BY SMT, <1>1
  <2> QED
    BY <2>1, <2>2
<1>3. Range(u) = Range(s) \cup Range(t)
  BY <1>1, ConcatRange DEF u
<1>4. ASSUME NEW k \in 1..Len(u), NEW y \in Needs(u[k]) PROVE \E j \in 1..(k - 1) : u[j] = y
  <2>1. CASE k \in 1..Len(s)
    <3>1. PICK j \in 1..(k - 1) : s[j] = y
      BY <1>1, <1>4, <2>1 DEF Ordered
    <3>2. j \in 1..Len(s)
      BY SMT, <1>1, <2>1
    <3> QED
      BY <1>1, <3>1, <3>2
  <2>2. CASE \E n \in 1..Len(t) : k = Len(s) + n
    <3>1. PICK n \in 1..Len(t) : k = Len(s) + n
      BY <2>2
    <3>2. u[k] = t[n]
      BY <1>1, <3>1
    <3>3. CASE y \in Range(s)
      <4>1. PICK j \in 1..Len(s) : s[j] = y
        BY SMT, <1>1, <3>3, RangeSeq
      <4>2. j \in 1..(k - 1)
        BY SMT, <1>1, <3>1
      <4> QED
        BY <1>1, <4>1, <4>2
    <3>4. CASE \E j \in 1..(n - 1) : t[j] = y
      <4>1. PICK j \in 1..(n - 1) : t[j] = y
        BY <3>4
      <4>2. j \in 1..Len(t) /\ Len(s) + j \in 1..(k - 1)
        BY SMT, <1>1, <3>1
      <4> QED
        BY <1>1, <4>1, <4>2
    <3> QED
      BY <1>4, <3>2, <3>3, <3>4
  <2> QED
    BY <1>2, <2>1, <2>2
<1> QED
  BY <1>1, <1>3, <1>4 DEF Ordered, u

\* Two ordered programs, one behind the other.
LEMMA OrderedBoth ==
    ASSUME NEW s, Ordered(s), NEW t, Ordered(t)
    PROVE  Ordered(s \o t) /\ Range(s \o t) = Range(s) \cup Range(t)
  BY OrderedJoin DEF Ordered

\* The gettys are threads of their own, and the consoles have names of their own.
LEMMA BootNames ==
    /\ \A n \in 1..NR_TTY : Getty[n] \in Range(Getty) /\ Ttys[n] \in Range(Ttys)
    /\ Range(Getty) \subseteq Thread /\ Server \subseteq Thread /\ Idle \notin Thread
    /\ Server \cap Range(Getty) = {} /\ Server \cap Range(Ttys) = {}
<1>1. \A n \in 1..NR_TTY : n \in 1..4
  BY SMT, BootAssumption
<1>2. \A n \in 1..4 : <<"getty1", "getty2", "getty3", "getty4">>[n] \in {"getty1", "getty2", "getty3", "getty4"}
                      /\ <<"tty1", "tty2", "tty3", "tty4">>[n] \in {"tty1", "tty2", "tty3", "tty4"}
  BY SMT
<1>3. Range(Getty) \subseteq {"getty1", "getty2", "getty3", "getty4"}
  BY <1>1, <1>2 DEF Range, Getty
<1>4. Range(Ttys) \subseteq {"tty1", "tty2", "tty3", "tty4"}
  BY <1>1, <1>2 DEF Range, Ttys
<1>5. \A n \in 1..NR_TTY : Getty[n] \in Range(Getty) /\ Ttys[n] \in Range(Ttys)
  BY DEF Range, Getty, Ttys
<1>6. Server \cap Range(Getty) = {}
  BY SMT, <1>3 DEF Server
<1>7. Server \cap Range(Ttys) = {}
  BY SMT, <1>4 DEF Server
<1>8. Idle \notin Thread
  BY SMT, <1>3 DEF Thread, Server, Idle
<1> QED
  BY <1>5, <1>6, <1>7, <1>8 DEF Thread

\* What each kind of instruction needs.
LEMMA NeedsOf ==
    /\ \A th : Needs(<<"create", th>>) = {} /\ Needs(<<"pid", th>>) = {}
               /\ (th \notin Range(Getty) => Needs(<<"wakeup", th>>) = {})
    /\ \A th \in Range(Getty) : Needs(<<"wakeup", th>>) = {<<"register", dev, "ttyd">> : dev \in Range(Ttys)}
    /\ \A dev, th : Needs(<<"register", dev, th>>) = {<<"pid", th>>}
    /\ Needs(<<"irq", 0, "update_jiffy">>) = {} /\ Needs(<<"irq", 0, "time_intr">>) = {}
    /\ Needs(<<"irq", 1, "send_keymsg">>) = {}
    /\ Needs(<<"irq", 0, "send_updatemsg">>) = {<<"current_consl">>, <<"pid", "ttyd">>}
    /\ Needs(<<"current_consl">>) = {} /\ Needs(<<"init_rt">>) = {} /\ Needs(<<"srand">>) = {}
    /\ Needs(<<"create_process">>) = {<<"pid", "pm">>}
<1>1. ASSUME NEW th PROVE Needs(<<"create", th>>) = {} /\ Needs(<<"pid", th>>) = {}
                          /\ (th \notin Range(Getty) => Needs(<<"wakeup", th>>) = {})
  BY SMT DEF Needs
<1>2. ASSUME NEW th \in Range(Getty) PROVE Needs(<<"wakeup", th>>) = {<<"register", dev, "ttyd">> : dev \in Range(Ttys)}
  BY SMT DEF Needs
<1>3. ASSUME NEW dev, NEW th PROVE Needs(<<"register", dev, th>>) = {<<"pid", th>>}
  BY SMT DEF Needs
<1>4. Needs(<<"irq", 0, "update_jiffy">>) = {} /\ Needs(<<"irq", 0, "time_intr">>) = {}
  BY SMT DEF Needs
<1>5. Needs(<<"irq", 1, "send_keymsg">>) = {}
  BY SMT DEF Needs
<1>6. Needs(<<"irq", 0, "send_updatemsg">>) = {<<"current_consl">>, <<"pid", "ttyd">>}
  BY SMT DEF Needs
<1>7. Needs(<<"current_consl">>) = {} /\ Needs(<<"init_rt">>) = {} /\ Needs(<<"srand">>) = {}
  BY SMT DEF Needs
<1>8. Needs(<<"create_process">>) = {<<"pid", "pm">>}
  BY SMT DEF Needs
<1> QED
  BY <1>1, <1>2, <1>3, <1>4, <1>5, <1>6, <1>7, <1>8

\* One more instruction.
LEMMA OrderedPut ==
    ASSUME NEW s, Ordered(s), NEW x \in Instruction, Needs(x) \subseteq Range(s)
    PROVE  Ordered(s \o <<x>>) /\ Range(s \o <<x>>) = Range(s) \cup {x}
<1>1. <<x>> \in Seq(Instruction) /\ Len(<<x>>) = 1 /\ DOMAIN <<x>> = {1} /\ <<x>>[1] = x /\ 1..1 = {1}
  BY SMT
<1>2. Range(<<x>>) = {x}
  BY <1>1 DEF Range
<1>3. \A k \in 1..Len(<<x>>) : \A y \in Needs(<<x>>[k]) : y \in Range(s)
  BY <1>1
<1> QED
  BY <1>1, <1>2, <1>3, OrderedJoin

\* A first instruction.
LEMMA OrderedOne ==
    ASSUME NEW x \in Instruction, Needs(x) = {}
    PROVE  Ordered(<<x>>) /\ Range(<<x>>) = {x}
<1>1. <<x>> \in Seq(Instruction) /\ Len(<<x>>) = 1 /\ DOMAIN <<x>> = {1} /\ <<x>>[1] = x /\ 1..1 = {1}
  BY SMT
<1> QED
  BY <1>1 DEF Ordered, Range

\* The instructions are well-formed.
LEMMA Instructions ==
    /\ \A th \in Thread : <<"create", th>> \in Instruction /\ <<"wakeup", th>> \in Instruction
    /\ \A th \in Server : <<"pid", th>> \in Instruction /\ <<"register", th, th>> \in Instruction
    /\ \A dev \in Range(Ttys) : <<"register", dev, "ttyd">> \in Instruction
    /\ {<<"irq", 0, "update_jiffy">>, <<"irq", 0, "send_updatemsg">>, <<"irq", 0, "time_intr">>,
        <<"irq", 1, "send_keymsg">>, <<"current_consl">>, <<"init_rt">>, <<"srand">>,
        <<"create_process">>} \subseteq Instruction
<1>1. Handler \ {"send_keymsg"} = {"update_jiffy", "send_updatemsg", "time_intr"}
  BY SMT DEF Handler
<1> QED
  BY <1>1 DEF Instruction

\* A device is registered once its driver has a pid.
LEMMA DeviceOrdered ==
    ASSUME NEW dev \in Server
    PROVE  Ordered(init_device(dev))
<1> DEFINE a == <<<<"create", dev>>>>
           b == a \o <<<<"pid", dev>>>>
           d == b \o <<<<"register", dev, dev>>>>
<1>0. dev \in Thread /\ dev \notin Range(Getty)
  BY BootNames
<1>1. Ordered(a)
  BY <1>0, Instructions, NeedsOf, OrderedOne
<1> HIDE DEF a
<1>2. Ordered(b) /\ Range(b) = Range(a) \cup {<<"pid", dev>>}
  BY <1>1, Instructions, NeedsOf, OrderedPut
<1> HIDE DEF b
<1>5. Needs(<<"register", dev, dev>>) \subseteq Range(b)
  BY SMT, <1>2, NeedsOf
<1>3. Ordered(d)
  BY <1>2, <1>5, Instructions, OrderedPut
<1> HIDE DEF d
<1>4. Ordered(d \o <<<<"wakeup", dev>>>>)
  BY <1>0, <1>3, Instructions, NeedsOf, OrderedPut
<1> QED
  BY <1>4 DEF init_device, create, publish, hal_register, wakeup, a, b, d

\* init_service publishes the pid before it registers.
LEMMA ServiceOrdered ==
    ASSUME NEW th \in Server
    PROVE  Ordered(init_service(th)) /\ <<"pid", th>> \in Range(init_service(th))
<1> DEFINE a == <<<<"create", th>>>>
           b == a \o <<<<"pid", th>>>>
           d == b \o <<<<"wakeup", th>>>>
<1>0. th \in Thread /\ th \notin Range(Getty)
  BY BootNames
<1>1. Ordered(a)
  BY <1>0, Instructions, NeedsOf, OrderedOne
<1> HIDE DEF a
<1>2. Ordered(b) /\ Range(b) = Range(a) \cup {<<"pid", th>>}
  BY <1>1, Instructions, NeedsOf, OrderedPut
<1> HIDE DEF b
<1>3. Ordered(d) /\ Range(d) = Range(b) \cup {<<"wakeup", th>>}
  BY <1>0, <1>2, Instructions, NeedsOf, OrderedPut
<1> QED
  BY <1>2, <1>3 DEF init_service, create, publish, wakeup, a, b, d

\* init_timer is in order.
LEMMA TimerOrdered == Ordered(init_timer)
<1> DEFINE s1 == <<<<"irq", 0, "update_jiffy">>>>
           s2 == s1 \o <<<<"create", "timer">>>>
           s3 == s2 \o <<<<"pid", "timer">>>>
           s4 == s3 \o <<<<"wakeup", "timer">>>>
           s5 == s4 \o <<<<"register", "timer", "timer">>>>
<1>0. "timer" \in Server /\ "timer" \in Thread /\ "timer" \notin Range(Getty)
  BY BootNames DEF Server
<1>1. Ordered(s1)
  BY Instructions, NeedsOf, OrderedOne
<1> HIDE DEF s1
<1>2. Ordered(s2)
  BY <1>0, <1>1, Instructions, NeedsOf, OrderedPut
<1> HIDE DEF s2
<1>3. Ordered(s3) /\ Range(s3) = Range(s2) \cup {<<"pid", "timer">>}
  BY <1>0, <1>2, Instructions, NeedsOf, OrderedPut
<1> HIDE DEF s3
<1>4. Ordered(s4) /\ Range(s4) = Range(s3) \cup {<<"wakeup", "timer">>}
  BY <1>0, <1>3, Instructions, NeedsOf, OrderedPut
<1> HIDE DEF s4
<1>7. Needs(<<"register", "timer", "timer">>) \subseteq Range(s4)
  BY SMT, <1>3, <1>4, NeedsOf
<1>5. Ordered(s5)
  BY <1>0, <1>4, <1>7, Instructions, OrderedPut
<1> HIDE DEF s5
<1>6. Ordered(s5 \o <<<<"init_rt">>>>)
  BY <1>5, Instructions, NeedsOf, OrderedPut
<1> QED
  BY <1>6 DEF init_timer, add_irq_handle, create, publish, hal_register, wakeup, s1, s2, s3, s4, s5

\* init_random is in order.
LEMMA RandomOrdered == Ordered(init_random)
<1> DEFINE s1 == <<<<"create", "random">>>>
           s2 == s1 \o <<<<"pid", "random">>>>
           s3 == s2 \o <<<<"register", "random", "random">>>>
           s4 == s3 \o <<<<"srand">>>>
<1>0. "random" \in Server /\ "random" \in Thread /\ "random" \notin Range(Getty)
  BY BootNames DEF Server
<1>1. Ordered(s1)
  BY <1>0, Instructions, NeedsOf, OrderedOne
<1> HIDE DEF s1
<1>2. Ordered(s2) /\ Range(s2) = Range(s1) \cup {<<"pid", "random">>}
  BY <1>0, <1>1, Instructions, NeedsOf, OrderedPut
<1> HIDE DEF s2
<1>6. Needs(<<"register", "random", "random">>) \subseteq Range(s2)
  BY ZenonT(30), <1>2, NeedsOf
<1>3. Ordered(s3)
  BY <1>0, <1>2, <1>6, Instructions, OrderedPut
<1> HIDE DEF s3
<1>4. Ordered(s4)
  BY <1>3, Instructions, NeedsOf, OrderedPut
<1> HIDE DEF s4
<1>5. Ordered(s4 \o <<<<"wakeup", "random">>>>)
  BY <1>0, <1>4, Instructions, NeedsOf, OrderedPut
<1> QED
  BY <1>5 DEF init_random, create, publish, hal_register, wakeup, s1, s2, s3, s4

\* The consoles are registered for ttyd, which has its pid; the banner's handler
\* is installed behind current_consl; the gettys come last.
LEMMA TtyOrdered == Ordered(init_tty)
<1> DEFINE s1 == <<<<"irq", 1, "send_keymsg">>>>
           s2 == s1 \o <<<<"create", "ttyd">>>>
           s3 == s2 \o <<<<"pid", "ttyd">>>>
           s4 == s3 \o <<<<"wakeup", "ttyd">>>>
           s5 == s4 \o Consoles
           s6 == s5 \o <<<<"current_consl">>>>
           s7 == s6 \o <<<<"irq", 0, "send_updatemsg">>>>
<1>0. "ttyd" \in Server /\ "ttyd" \in Thread /\ "ttyd" \notin Range(Getty)
  BY BootNames DEF Server
<1>1. Ordered(s1)
  BY Instructions, NeedsOf, OrderedOne
<1> HIDE DEF s1
<1>2. Ordered(s2)
  BY <1>0, <1>1, Instructions, NeedsOf, OrderedPut
<1> HIDE DEF s2
<1>3. Ordered(s3) /\ Range(s3) = Range(s2) \cup {<<"pid", "ttyd">>}
  BY <1>0, <1>2, Instructions, NeedsOf, OrderedPut
<1> HIDE DEF s3
<1>4. Ordered(s4) /\ Range(s4) = Range(s3) \cup {<<"wakeup", "ttyd">>}
  BY <1>0, <1>3, Instructions, NeedsOf, OrderedPut
<1>5. s4 = ttyd
  BY DEF ttyd, add_irq_handle, create, publish, wakeup, s1, s2, s3, s4
<1> HIDE DEF s4
<1>6. /\ Consoles \in Seq(Instruction) /\ Len(Consoles) = NR_TTY
      /\ \A k \in 1..NR_TTY : Consoles[k] = <<"register", Ttys[k], "ttyd">>
  <2>1. NR_TTY \in Nat
    BY SMT, BootAssumption
  <2>2. \A k \in 1..NR_TTY : <<"register", Ttys[k], "ttyd">> \in Instruction
    BY BootNames, Instructions
  <2> QED
    BY SMT, <2>1, <2>2 DEF Consoles
<1>7. Ordered(s5) /\ Range(s5) = Range(s4) \cup Range(Consoles)
  <2>1. ASSUME NEW k \in 1..Len(Consoles), NEW y \in Needs(Consoles[k]) PROVE y \in Range(s4)
    <3>2. Consoles[k] = <<"register", Ttys[k], "ttyd">>
      BY <1>6
    <3>1. Needs(<<"register", Ttys[k], "ttyd">>) = {<<"pid", "ttyd">>}
      BY NeedsOf
    <3> QED
      BY <1>3, <1>4, <2>1, <3>1, <3>2
  <2> QED
    BY <1>4, <1>6, <2>1, OrderedJoin
<1>8. \A dev \in Range(Ttys) : <<"register", dev, "ttyd">> \in Range(Consoles)
  <2>1. \A n \in 1..NR_TTY : <<"register", Ttys[n], "ttyd">> \in Range(Consoles)
    BY DEF Consoles, Range
  <2> QED
    BY <2>1 DEF Ttys, Range
<1> HIDE DEF s5
<1>9. Ordered(s6) /\ Range(s6) = Range(s5) \cup {<<"current_consl">>}
  BY <1>7, Instructions, NeedsOf, OrderedPut
<1> HIDE DEF s6
<1>10. Ordered(s7) /\ Range(s7) = Range(s6) \cup {<<"irq", 0, "send_updatemsg">>}
  <2>1. Needs(<<"irq", 0, "send_updatemsg">>) \subseteq Range(s6)
    BY <1>3, <1>4, <1>7, <1>9, NeedsOf
  <2> QED
    BY <1>9, <2>1, Instructions, OrderedPut
<1>11. s7 = ttyd \o init_console
  <2> DEFINE a == <<<<"current_consl">>>>
             b == <<<<"irq", 0, "send_updatemsg">>>>
  <2>1. a \in Seq(Instruction) /\ b \in Seq(Instruction)
    BY SMT, Instructions
  <2>2. s7 = ((ttyd \o Consoles) \o a) \o b /\ init_console = (Consoles \o a) \o b
    BY <1>5 DEF s7, s6, s5, init_console, add_irq_handle
  <2>3. ttyd \in Seq(Instruction) /\ Consoles \in Seq(Instruction)
    BY <1>4, <1>5, <1>6 DEF Ordered
  <2> HIDE DEF a, b
  <2>4. (ttyd \o Consoles) \o a = ttyd \o (Consoles \o a) /\ Consoles \o a \in Seq(Instruction)
    BY SMT, <2>1, <2>3
  <2> DEFINE e == Consoles \o a
  <2>5. (ttyd \o e) \o b = ttyd \o (e \o b)
    BY SMTT(30), <2>1, <2>3, <2>4
  <2> QED
    BY <2>2, <2>4, <2>5
<1> HIDE DEF s7
<1>12. /\ init_getty \in Seq(Instruction) /\ Len(init_getty) = 2 * NR_TTY
       /\ \A k \in 1..(2 * NR_TTY) : \E th \in Range(Getty) : init_getty[k] \in {<<"create", th>>, <<"wakeup", th>>}
  <2>1. 2 * NR_TTY \in Nat
    BY SMT, BootAssumption
  <2>2. ASSUME NEW k \in 1..(2 * NR_TTY)
        PROVE  \E th \in Range(Getty) : init_getty[k] \in {<<"create", th>>, <<"wakeup", th>>}
    <3>1. (k % 2 = 1 => (k + 1) \div 2 \in 1..NR_TTY) /\ (k % 2 # 1 => k \div 2 \in 1..NR_TTY)
      BY SMT, BootAssumption
    <3> QED
      BY <3>1, BootNames DEF init_getty
  <2>3. \A k \in 1..(2 * NR_TTY) : init_getty[k] \in Instruction
    BY <2>2, BootNames, Instructions
  <2>4. init_getty \in [1..(2 * NR_TTY) -> Instruction]
    BY <2>3 DEF init_getty
  <2>5. init_getty \in Seq(Instruction) /\ Len(init_getty) = 2 * NR_TTY
    BY SMT, <2>1, <2>4
  <2> QED
    BY <2>2, <2>5
<1>13. Ordered(s7 \o init_getty)
  <2>1. ASSUME NEW k \in 1..Len(init_getty), NEW y \in Needs(init_getty[k]) PROVE y \in Range(s7)
    <3>0. PICK th \in Range(Getty) : init_getty[k] \in {<<"create", th>>, <<"wakeup", th>>}
      BY <1>12
    <3>1. PICK dev \in Range(Ttys) : y = <<"register", dev, "ttyd">>
      <4>1. CASE init_getty[k] = <<"create", th>>
        BY <2>1, <4>1, NeedsOf
      <4>2. CASE init_getty[k] = <<"wakeup", th>>
        <5>1. Needs(<<"wakeup", th>>) = {<<"register", dev, "ttyd">> : dev \in Range(Ttys)}
          BY NeedsOf
        <5> QED
          BY <2>1, <4>2, <5>1
      <4> QED
        BY <3>0, <4>1, <4>2
    <3> QED
      BY <1>7, <1>8, <1>9, <1>10, <3>1
  <2> QED
    BY <1>10, <1>12, <2>1, OrderedJoin
<1> QED
  BY <1>11, <1>13 DEF init_tty

\* init_ide is in order.
LEMMA IdeOrdered == Ordered(init_ide)
<1>1. Ordered(<<<<"irq", 0, "time_intr">>>>)
  BY Instructions, NeedsOf, OrderedOne
<1>2. Ordered(init_device("ide"))
  BY DeviceOrdered DEF Server
<1> QED
  BY <1>1, <1>2, OrderedBoth DEF init_ide, add_irq_handle

\* init_driver and os_init_cont execute everything after what it needs.
LEMMA ProgramOrdered == Ordered(Program)
<1> DEFINE p1 == init_timer \o init_tty
           p2 == p1 \o init_ide
           p3 == p2 \o init_device("mem")
           p4 == p3 \o init_device("kmem")
           p5 == p4 \o init_device("null")
           p6 == p5 \o init_device("zero")
           p7 == p6 \o init_random
           p8 == p7 \o init_device("ram")
           p9 == p8 \o init_service("fm")
           p10 == p9 \o init_service("mm")
           p11 == p10 \o init_service("pm")
<1>0. {"mem", "kmem", "null", "zero", "ram", "fm", "mm", "pm"} \subseteq Server
  BY DEF Server
<1>1. Ordered(p1)
  BY TimerOrdered, TtyOrdered, OrderedBoth
<1> HIDE DEF p1
<1>2. Ordered(p2)
  BY <1>1, IdeOrdered, OrderedBoth
<1> HIDE DEF p2
<1>3. Ordered(p3)
  BY <1>0, <1>2, DeviceOrdered, OrderedBoth
<1> HIDE DEF p3
<1>4. Ordered(p4)
  BY <1>0, <1>3, DeviceOrdered, OrderedBoth
<1> HIDE DEF p4
<1>5. Ordered(p5)
  BY <1>0, <1>4, DeviceOrdered, OrderedBoth
<1> HIDE DEF p5
<1>6. Ordered(p6)
  BY <1>0, <1>5, DeviceOrdered, OrderedBoth
<1> HIDE DEF p6
<1>7. Ordered(p7)
  BY <1>6, RandomOrdered, OrderedBoth
<1> HIDE DEF p7
<1>8. Ordered(p8)
  BY <1>0, <1>7, DeviceOrdered, OrderedBoth
<1> HIDE DEF p8
<1>9. Ordered(p9)
  BY <1>0, <1>8, ServiceOrdered, OrderedBoth
<1> HIDE DEF p9
<1>10. Ordered(p10)
  BY <1>0, <1>9, ServiceOrdered, OrderedBoth
<1> HIDE DEF p10
<1>11. Ordered(p11) /\ Range(p11) = Range(p10) \cup Range(init_service("pm"))
  BY <1>0, <1>10, ServiceOrdered, OrderedBoth
<1> HIDE DEF p11
<1>12. Needs(<<"create_process">>) \subseteq Range(p11)
  <2>1. <<"pid", "pm">> \in Range(init_service("pm"))
    BY <1>0, ServiceOrdered
  <2>2. Needs(<<"create_process">>) = {<<"pid", "pm">>}
    BY NeedsOf
  <2> QED
    BY <1>11, <2>1, <2>2
<1>13. Ordered(p11 \o <<<<"create_process">>>>)
  BY <1>11, <1>12, Instructions, OrderedPut
<1> QED
  BY <1>13 DEF Program, p1, p2, p3, p4, p5, p6, p7, p8, p9, p10, p11

-----------------------------------------------------------------------------
(* The inductive invariant of the boot                                      *)

Mails == {"UPDATE_TIMER", "MSG_TTY_UPDATE", "MSG_TTY_GETKEY", "IDE_WRITEBACK", "DEV_READ", "PM_NEW_PROC"}
Early == {"UPDATE_TIMER", "MSG_TTY_GETKEY", "IDE_WRITEBACK"}

\* The boot context has executed x; it has woken th.
Done(x) == \E k \in 1..(bpc - 1) : Program[k] = x
Woken(th) == Done(<<"wakeup", th>>)

\* Every message is for its receiver, the banner's request has a console, and only
\* threads that were woken are ready or wait.
SystemInv(s) ==
    /\ s.inbox \in [Thread \cup {Idle} -> Seq(Mails)]
    /\ \A th \in Server : Range(s.inbox[th]) \subseteq Accepts[th]
    /\ Range(s.inbox[Idle]) \subseteq Early
    /\ "MSG_TTY_UPDATE" \in Range(s.inbox["ttyd"]) => current_consl
    /\ s.ready \in Seq(Thread) /\ s.waiting \subseteq Thread
    /\ \A th \in Range(s.ready) \cup s.waiting : Woken(th)

\* What the boot context has executed is there.
ProgramInv ==
    /\ bpc \in 1..(Len(Program) + 1)
    /\ current_consl \in BOOLEAN /\ (Done(<<"current_consl">>) => current_consl)
    /\ pid \in [Server -> Server \cup {Idle}]
    /\ \A th \in Server : pid[th] \in {th, Idle} /\ (Done(<<"pid", th>>) => pid[th] = th)
    /\ devices \in Seq([name : Server \cup Range(Ttys), pid : Server \cup {Idle}])
    /\ \A dev \in Range(Ttys) : Done(<<"register", dev, "ttyd">>) => \E k \in 1..Len(devices) : devices[k].name = dev
    /\ \A k \in 1..Len(devices) :
          devices[k].pid = IF devices[k].name \in Range(Ttys) THEN "ttyd" ELSE devices[k].name

\* The handler that asks for the banner is installed behind the console it needs.
HandlerInv ==
    /\ handles \in [{0, 1} -> Seq(Handler)]
    /\ \A irq \in {0, 1} : "send_updatemsg" \in Range(handles[irq]) => current_consl /\ pid["ttyd"] = "ttyd"

\* The gettys take the names one by one.
GettyInv ==
    /\ tty \in [Range(Getty) -> 0..NR_TTY] /\ tty_idx \in Nat
    /\ tty_idx = Cardinality({g \in Range(Getty) : tty[g] # 0}) + 1
    /\ \A g \in Range(Getty) : tty[g] < tty_idx
    /\ GettysOwnTheirConsoles

\* The inductive invariant.
BootInv ==
    /\ SystemInv(System) /\ ProgramInv /\ HandlerInv /\ GettyInv
    /\ current # Idle => current \in Thread /\ Woken(current)
    /\ OnlyKeysComeEarly

-----------------------------------------------------------------------------
(* What the steps keep                                                      *)

\* The boot context has executed one instruction more.
LEMMA DoneNext ==
    ASSUME ProgramInv, bpc <= Len(Program), bpc' = bpc + 1
    PROVE  \A x : Done(x)' <=> Done(x) \/ x = Instr
<1>1. 1..(bpc' - 1) = 1..(bpc - 1) \cup {bpc}
  BY SMT DEF ProgramInv
<1> QED
  BY <1>1 DEF Done, Instr

\* What the next instruction needs has been executed.
LEMMA NeedsDone ==
    ASSUME ProgramInv, bpc <= Len(Program)
    PROVE  Instr \in Instruction /\ \A y \in Needs(Instr) : Done(y)
<1>1. bpc \in 1..Len(Program)
  BY SMT DEF ProgramInv
<1>2. Program[bpc] \in Instruction
  BY SMT, <1>1, ProgramOrdered DEF Ordered
<1> QED
  BY <1>1, <1>2, ProgramOrdered DEF Ordered, Done, Instr

\* The operands of each kind of instruction.
LEMMA InstructionForms ==
    ASSUME NEW x \in Instruction
    PROVE  /\ x[1] = "create" => \E th \in Thread : x = <<"create", th>>
           /\ x[1] = "pid" => \E th \in Server : x = <<"pid", th>>
           /\ x[1] = "wakeup" => \E th \in Thread : x = <<"wakeup", th>>
           /\ x[1] = "register" => \/ \E th \in Server : x = <<"register", th, th>>
                                   \/ \E dev \in Range(Ttys) : x = <<"register", dev, "ttyd">>
           /\ x[1] = "irq" => \E irq \in {0, 1}, f \in Handler : x = <<"irq", irq, f>>
           /\ x[1] = "current_consl" => x = <<"current_consl">>
           /\ x[1] = "init_rt" => x = <<"init_rt">>
           /\ x[1] = "srand" => x = <<"srand">>
           /\ x[1] = "create_process" => x = <<"create_process">>
<1>1. CASE \E th \in Thread : x = <<"create", th>>
  BY SMT, <1>1
<1>2. CASE \E th \in Server : x = <<"pid", th>>
  BY SMT, <1>2
<1>3. CASE \E th \in Thread : x = <<"wakeup", th>>
  BY SMT, <1>3
<1>4. CASE \/ \E th \in Server : x = <<"register", th, th>>
           \/ \E dev \in Range(Ttys) : x = <<"register", dev, "ttyd">>
  BY SMT, <1>4
<1>5. CASE \E irq \in {0, 1}, f \in Handler : x = <<"irq", irq, f>>
  BY SMT, <1>5
<1>6. CASE x \in {<<"current_consl">>, <<"init_rt">>, <<"srand">>, <<"create_process">>}
  BY SMT, <1>6
<1>7. "send_keymsg" \in Handler
  BY DEF Handler
<1> QED
  BY <1>1, <1>2, <1>3, <1>4, <1>5, <1>6, <1>7 DEF Instruction

\* The messages a server accepts.
LEMMA AcceptsMails ==
    /\ \A th \in Server : Accepts[th] \subseteq Mails
    /\ Early \subseteq Mails
    /\ Accepts["timer"] = {"UPDATE_TIMER"} /\ Accepts["ide"] = {"IDE_WRITEBACK"}
    /\ Accepts["ttyd"] = {"MSG_TTY_UPDATE", "MSG_TTY_GETKEY", "DEV_READ"}
    /\ Accepts["pm"] = {"PM_NEW_PROC"}
    /\ {"timer", "ttyd", "ide", "pm"} \subseteq Server
<1>1. {"timer", "ttyd", "ide", "pm"} \subseteq Server
  BY DEF Server
<1>2. \A th \in Server : Accepts[th] \subseteq Mails
  BY SMT DEF Accepts, Mails
<1>3. Accepts["timer"] = {"UPDATE_TIMER"} /\ Accepts["ide"] = {"IDE_WRITEBACK"}
  BY SMT, <1>1 DEF Accepts
<1>4. Accepts["ttyd"] = {"MSG_TTY_UPDATE", "MSG_TTY_GETKEY", "DEV_READ"}
  BY SMT, <1>1 DEF Accepts
<1>5. Accepts["pm"] = {"PM_NEW_PROC"}
  BY SMT, <1>1 DEF Accepts
<1>6. Early \subseteq Mails
  BY DEF Early, Mails
<1> QED
  BY <1>1, <1>2, <1>3, <1>4, <1>5, <1>6

\* send() with a message its receiver accepts.
LEMMA SendKeeps ==
    ASSUME NEW s, SystemInv(s), NEW to \in Server \cup {Idle}, NEW m,
           to \in Server => m \in Accepts[to],
           to = Idle => m \in Early,
           m = "MSG_TTY_UPDATE" => current_consl
    PROVE  SystemInv(Send(s, to, m))
<1> DEFINE r == Send(s, to, m)
           a == Append(s.inbox[to], m)
<1>1. /\ r.inbox = [s.inbox EXCEPT ![to] = a]
      /\ r.ready = IF to \in s.waiting THEN Append(s.ready, to) ELSE s.ready
      /\ r.waiting = s.waiting \ {to}
  BY DEF Send
<1> HIDE DEF r
<1>2. m \in Mails /\ to \in Thread \cup {Idle} /\ s.inbox[to] \in Seq(Mails)
  BY AcceptsMails, BootNames DEF SystemInv
<1>3. a \in Seq(Mails) /\ Range(a) = Range(s.inbox[to]) \cup {m}
  BY SMT, <1>2, AppendElements
<1> HIDE DEF a
<1>4. /\ r.inbox \in [Thread \cup {Idle} -> Seq(Mails)]
      /\ r.inbox[to] = a
      /\ \A x \in (Thread \cup {Idle}) \ {to} : r.inbox[x] = s.inbox[x]
  BY <1>1, <1>2, <1>3 DEF SystemInv
<1>5. \A th \in Server : Range(r.inbox[th]) \subseteq Accepts[th]
  BY <1>3, <1>4, BootNames DEF SystemInv
<1>6. Range(r.inbox[Idle]) \subseteq Early
  BY <1>3, <1>4, BootNames DEF SystemInv
<1>7. "MSG_TTY_UPDATE" \in Range(r.inbox["ttyd"]) => current_consl
  BY <1>3, <1>4, BootNames, AcceptsMails DEF SystemInv
<1>8. /\ r.ready \in Seq(Thread) /\ Range(r.ready) \subseteq Range(s.ready) \cup s.waiting
  <2>1. CASE to \in s.waiting
    <3>1. s.ready \in Seq(Thread) /\ to \in Thread
      BY <2>1 DEF SystemInv
    <3>2. Append(s.ready, to) \in Seq(Thread) /\ Range(Append(s.ready, to)) = Range(s.ready) \cup {to}
      BY SMT, <3>1, AppendElements
    <3> QED
      BY <1>1, <2>1, <3>2
  <2>2. CASE to \notin s.waiting
    BY <1>1, <2>2 DEF SystemInv
  <2> QED
    BY <2>1, <2>2
<1> QED
  BY <1>1, <1>4, <1>5, <1>6, <1>7, <1>8 DEF SystemInv, r

\* The state of the system after a step.
LEMMA SystemNext ==
    ASSUME NEW s, SystemInv(s), Becomes(s), current_consl => current_consl',
           \A th : Woken(th) => Woken(th)'
    PROVE  SystemInv(System)'
  BY DEF SystemInv, System, Becomes

\* schedule() picks a thread that is ready.
LEMMA ScheduleReady ==
    ASSUME NEW cur, NEW list \in Seq(Thread)
    PROVE  schedule(cur, list) # Idle => schedule(cur, list) \in Range(list)
<1>1. CASE list = <<>>
  BY <1>1 DEF schedule
<1>2. CASE list # <<>> /\ cur \notin Range(list)
  BY <1>2, TailElements DEF schedule
<1>3. CASE list # <<>> /\ cur \in Range(list)
  <2> DEFINE k == CHOOSE k \in DOMAIN list : list[k] = cur
  <2>1. k \in 1..Len(list) /\ Len(list) \in Nat \ {0}
    BY <1>3, IndexOfProperties, SeqEmpty DEF IndexOf
  <2> HIDE DEF k
  <2>2. (k % Len(list)) + 1 \in 1..Len(list)
    BY SMT, <2>1
  <2>3. schedule(cur, list) = list[(k % Len(list)) + 1]
    BY <1>3 DEF schedule, k
  <2> QED
    BY <2>2, <2>3, SeqLength DEF Range
<1> QED
  BY <1>1, <1>2, <1>3

\* An instruction that stores no pid, registers no device and chooses no console.
LEMMA ProgramKept ==
    ASSUME ProgramInv, bpc <= Len(Program), bpc' = bpc + 1,
           Instr[1] \notin {"pid", "register", "current_consl"},
           UNCHANGED <<pid, devices, current_consl>>
    PROVE  ProgramInv'
<1>1. bpc' \in 1..(Len(Program) + 1)
  BY SMT DEF ProgramInv
<1>2. \A x : x[1] \in {"pid", "register", "current_consl"} => (Done(x)' <=> Done(x))
  BY DoneNext
<1>3. /\ <<"current_consl">>[1] = "current_consl" /\ \A th : <<"pid", th>>[1] = "pid"
      /\ \A dev, th : <<"register", dev, th>>[1] = "register"
  BY SMT
<1>4. /\ Done(<<"current_consl">>)' => Done(<<"current_consl">>)
      /\ \A th : Done(<<"pid", th>>)' => Done(<<"pid", th>>)
      /\ \A dev, th : Done(<<"register", dev, th>>)' => Done(<<"register", dev, th>>)
  BY SMT, <1>2, <1>3
<1> QED
  BY <1>1, <1>4 DEF ProgramInv

\* What the boot context does not touch when the system and the gettys stand still.
LEMMA BootStands ==
    ASSUME BootInv, UNCHANGED <<current, ready, waiting, inbox, ttyVars>>,
           current_consl => current_consl', \A x : Done(x) => Done(x)'
    PROVE  /\ SystemInv(System)' /\ GettyInv' /\ OnlyKeysComeEarly'
           /\ (current # Idle => current \in Thread /\ Woken(current))'
<1>1. SystemInv(System)'
  BY DEF BootInv, SystemInv, System, Woken
<1>2. GettyInv'
  BY DEF BootInv, GettyInv, ttyVars, GettysOwnTheirConsoles
<1>3. OnlyKeysComeEarly'
  BY DEF BootInv, OnlyKeysComeEarly, ttyVars
<1> QED
  BY <1>1, <1>2, <1>3 DEF BootInv, Woken

\* An instruction that changes nothing the invariant is about.
LEMMA QuietInstruction ==
    ASSUME BootInv, bpc <= Len(Program), bpc' = bpc + 1,
           Instr[1] \notin {"pid", "register", "current_consl"},
           UNCHANGED <<current, ready, waiting, inbox, ttyVars, pid, devices, current_consl, handles>>
    PROVE  BootInv'
<1>1. ProgramInv'
  BY ProgramKept DEF BootInv
<1>2. \A x : Done(x) => Done(x)'
  BY DoneNext DEF BootInv
<1>3. HandlerInv'
  BY DEF BootInv, HandlerInv
<1> QED
  BY <1>1, <1>2, <1>3, BootStands DEF BootInv

\* A step that changes nothing the invariant is about.
LEMMA BootStays ==
    ASSUME BootInv,
           UNCHANGED <<current, ready, waiting, inbox, ttyVars, pid, devices, current_consl, handles, bpc>>
    PROVE  BootInv'
<1>1. \A x : Done(x)' <=> Done(x)
  BY DEF Done
<1>2. ProgramInv'
  BY <1>1 DEF BootInv, ProgramInv
<1>3. HandlerInv'
  BY DEF BootInv, HandlerInv
<1> QED
  BY <1>1, <1>2, <1>3, BootStands DEF BootInv

\* What is known when the boot context executes op.
LEMMA AtInstruction ==
    ASSUME BootInv, NEW op, At(op)
    PROVE  /\ bpc <= Len(Program) /\ Instr \in Instruction /\ Instr[1] = op
           /\ \A y \in Needs(Instr) : Done(y)
           /\ bpc' = bpc + 1 => \A x : Done(x)' <=> Done(x) \/ x = Instr
  BY NeedsDone, DoneNext DEF BootInv, At

\* create_kthread changes nothing the invariant is about.
LEMMA CreateStep == BootInv /\ do_create => BootInv'
<1> SUFFICES ASSUME BootInv, do_create PROVE BootInv'
  OBVIOUS
<1>1. bpc <= Len(Program) /\ Instr[1] = "create" /\ bpc' = bpc + 1
  BY AtInstruction DEF do_create
<1> QED
  BY <1>1, QuietInstruction DEF do_create, sysVars

\* A pid is published: the thread's own.
LEMMA PublishStep == BootInv /\ do_publish => BootInv'
<1> SUFFICES ASSUME BootInv, do_publish PROVE BootInv'
  OBVIOUS
<1>1. /\ bpc <= Len(Program) /\ bpc' = bpc + 1 /\ Instr \in Instruction /\ Instr[1] = "pid"
      /\ \A x : Done(x)' <=> Done(x) \/ x = Instr
  BY AtInstruction DEF do_publish
<1>2. PICK th \in Server : Instr = <<"pid", th>>
  BY <1>1, InstructionForms
<1>3. Instr[2] = th
  BY SMT, <1>2
<1>4. pid' = [pid EXCEPT ![th] = th]
  BY <1>3 DEF do_publish
<1>5. pid' \in [Server -> Server \cup {Idle}] /\ pid'[th] = th /\ \A x \in Server \ {th} : pid'[x] = pid[x]
  BY <1>4 DEF BootInv, ProgramInv
<1>6. \A x : Instr = <<"pid", x>> => x = th
  BY SMT, <1>2
<1>7. Instr # <<"current_consl">> /\ \A dev : Instr # <<"register", dev, "ttyd">>
  BY SMT, <1>2
<1>8. bpc' \in 1..(Len(Program) + 1)
  BY SMT, <1>1 DEF BootInv, ProgramInv
<1>9. ProgramInv'
  <2>1. \A x \in Server : pid'[x] \in {x, Idle} /\ (Done(<<"pid", x>>)' => pid'[x] = x)
    BY <1>1, <1>5, <1>6 DEF BootInv, ProgramInv
  <2>2. UNCHANGED <<current_consl, devices>>
    BY DEF do_publish
  <2> QED
    BY <1>1, <1>5, <1>7, <1>8, <2>1, <2>2 DEF BootInv, ProgramInv
<1>10. HandlerInv'
  <2>1. pid["ttyd"] = "ttyd" => pid'["ttyd"] = "ttyd"
    BY <1>5, AcceptsMails
  <2> QED
    BY <2>1 DEF BootInv, HandlerInv, do_publish
<1> QED
  BY <1>1, <1>9, <1>10, BootStands DEF BootInv, do_publish, sysVars

\* A woken thread becomes ready; a getty finds every console registered.
LEMMA WakeupStep == BootInv /\ do_wakeup => BootInv'
<1> SUFFICES ASSUME BootInv, do_wakeup PROVE BootInv'
  OBVIOUS
<1>1. /\ bpc <= Len(Program) /\ bpc' = bpc + 1 /\ Instr \in Instruction /\ Instr[1] = "wakeup"
      /\ \A x : Done(x)' <=> Done(x) \/ x = Instr
  BY AtInstruction DEF do_wakeup
<1>2. PICK th \in Thread : Instr = <<"wakeup", th>>
  BY <1>1, InstructionForms
<1>3. Instr[2] = th
  BY SMT, <1>2
<1>4. ready' = Append(ready, th) /\ UNCHANGED <<current, waiting, inbox, ttyVars, pid, handles, devices, current_consl>>
  BY <1>3 DEF do_wakeup
<1>5. ready \in Seq(Thread)
  BY DEF BootInv, SystemInv, System
<1>6. ready' \in Seq(Thread) /\ Range(ready') = Range(ready) \cup {th}
  BY SMT, <1>4, <1>5, AppendElements
<1>7. ProgramInv'
  BY <1>1, <1>4, ProgramKept DEF BootInv
<1>8. Woken(th)' /\ \A x : Woken(x) => Woken(x)'
  BY <1>1, <1>2 DEF Woken
<1>9. SystemInv(System)'
  BY <1>4, <1>6, <1>8 DEF BootInv, SystemInv, System
<1>10. HandlerInv'
  BY <1>4 DEF BootInv, HandlerInv
<1>11. GettyInv'
  BY <1>4 DEF BootInv, GettyInv, ttyVars, GettysOwnTheirConsoles
<1> QED
  BY <1>4, <1>7, <1>8, <1>9, <1>10, <1>11 DEF BootInv, OnlyKeysComeEarly, ttyVars

\* hal_register adds a device with the pid of its thread.
LEMMA RegisterStep == BootInv /\ do_hal_register => BootInv'
<1> SUFFICES ASSUME BootInv, do_hal_register PROVE BootInv'
  OBVIOUS
<1>1. /\ bpc <= Len(Program) /\ bpc' = bpc + 1 /\ Instr \in Instruction /\ Instr[1] = "register"
      /\ \A x : Done(x)' <=> Done(x) \/ x = Instr
      /\ \A y \in Needs(Instr) : Done(y)
  BY AtInstruction DEF do_hal_register
<1>2. PICK dev \in Server \cup Range(Ttys), th \in Server :
          /\ Instr = <<"register", dev, th>>
          /\ th = IF dev \in Range(Ttys) THEN "ttyd" ELSE dev
  BY ZenonT(30), <1>1, InstructionForms, BootNames, AcceptsMails
<1>3. Instr[2] = dev /\ Instr[3] = th
  BY SMT, <1>2
<1>4. pid[th] = th
  <2>1. Needs(Instr) = {<<"pid", th>>}
    BY ZenonT(30), <1>2, NeedsOf
  <2> QED
    BY <1>1, <2>1 DEF BootInv, ProgramInv
<1> DEFINE d == [name |-> dev, pid |-> th]
           Device == [name : Server \cup Range(Ttys), pid : Server \cup {Idle}]
<1>5. devices' = Append(devices, d)
  BY <1>3, <1>4 DEF do_hal_register
<1>6. d \in Device /\ d.name = dev /\ d.pid = th
  OBVIOUS
<1>7. devices \in Seq(Device) /\ UNCHANGED <<current_consl, pid, handles>>
  BY DEF BootInv, ProgramInv, do_hal_register
<1> HIDE DEF d, Device
<1>8. /\ devices' \in Seq(Device) /\ Len(devices') = Len(devices) + 1 /\ Len(devices) \in Nat
      /\ devices'[Len(devices) + 1] = d /\ \A k \in 1..Len(devices) : devices'[k] = devices[k]
  BY SMT, <1>5, <1>6, <1>7
<1>9. 1..Len(devices') = 1..Len(devices) \cup {Len(devices) + 1}
  BY SMT, <1>8
<1>10. \A x \in Range(Ttys) : Done(<<"register", x, "ttyd">>)' => \E k \in 1..Len(devices') : devices'[k].name = x
  <2> SUFFICES ASSUME NEW x \in Range(Ttys), Done(<<"register", x, "ttyd">>)'
               PROVE  \E k \in 1..Len(devices') : devices'[k].name = x
    OBVIOUS
  <2>1. CASE Done(<<"register", x, "ttyd">>)
    <3>1. PICK k \in 1..Len(devices) : devices[k].name = x
      BY <2>1 DEF BootInv, ProgramInv
    <3> QED
      BY <1>8, <1>9, <3>1
  <2>2. CASE Instr = <<"register", x, "ttyd">>
    <3>1. dev = x
      BY SMT, <1>2, <2>2
    <3> QED
      BY <1>6, <1>8, <1>9, <3>1
  <2> QED
    BY <1>1, <2>1, <2>2
<1>11. \A k \in 1..Len(devices') :
          devices'[k].pid = IF devices'[k].name \in Range(Ttys) THEN "ttyd" ELSE devices'[k].name
  BY <1>2, <1>6, <1>8, <1>9 DEF BootInv, ProgramInv
<1>12. Instr # <<"current_consl">> /\ \A x : Instr # <<"pid", x>>
  BY SMT, <1>2
<1>13. bpc' \in 1..(Len(Program) + 1)
  BY SMT, <1>1 DEF BootInv, ProgramInv
<1>14. ProgramInv'
  <2>1. current_consl' \in BOOLEAN /\ (Done(<<"current_consl">>)' => current_consl')
    BY <1>1, <1>7, <1>12 DEF BootInv, ProgramInv
  <2>2. \A x \in Server : pid'[x] \in {x, Idle} /\ (Done(<<"pid", x>>)' => pid'[x] = x)
    BY ZenonT(30), <1>1, <1>7, <1>12 DEF BootInv, ProgramInv
  <2>3. pid' \in [Server -> Server \cup {Idle}]
    BY <1>7 DEF BootInv, ProgramInv
  <2> QED
    BY <1>8, <1>10, <1>11, <1>13, <2>1, <2>2, <2>3 DEF ProgramInv, Device
<1>15. HandlerInv'
  BY <1>7 DEF BootInv, HandlerInv
<1> QED
  BY <1>1, <1>14, <1>15, BootStands DEF BootInv, do_hal_register, sysVars

\* current_consl is set.
LEMMA ConslStep == BootInv /\ do_current_consl => BootInv'
<1> SUFFICES ASSUME BootInv, do_current_consl PROVE BootInv'
  OBVIOUS
<1>1. /\ bpc <= Len(Program) /\ bpc' = bpc + 1 /\ Instr \in Instruction /\ Instr[1] = "current_consl"
      /\ \A x : Done(x)' <=> Done(x) \/ x = Instr
  BY AtInstruction DEF do_current_consl
<1>2. Instr = <<"current_consl">>
  BY <1>1, InstructionForms
<1>3. \A th : Instr # <<"pid", th>> /\ \A dev : Instr # <<"register", dev, th>>
  BY SMT, <1>2
<1>4. bpc' \in 1..(Len(Program) + 1)
  BY SMT, <1>1 DEF BootInv, ProgramInv
<1>5. current_consl' = TRUE /\ UNCHANGED <<pid, devices, handles>>
  BY DEF do_current_consl
<1>6. ProgramInv'
  BY <1>1, <1>3, <1>4, <1>5 DEF BootInv, ProgramInv
<1>7. HandlerInv'
  BY <1>5 DEF BootInv, HandlerInv
<1> QED
  BY <1>1, <1>5, <1>6, <1>7, BootStands DEF BootInv, do_current_consl, sysVars

\* A handler is added; the banner's has its console.
LEMMA IrqStep == BootInv /\ do_add_irq_handle => BootInv'
<1> SUFFICES ASSUME BootInv, do_add_irq_handle PROVE BootInv'
  OBVIOUS
<1>1. /\ bpc <= Len(Program) /\ bpc' = bpc + 1 /\ Instr \in Instruction /\ Instr[1] = "irq"
      /\ \A x : Done(x)' <=> Done(x) \/ x = Instr
      /\ \A y \in Needs(Instr) : Done(y)
  BY AtInstruction DEF do_add_irq_handle
<1>2. PICK irq \in {0, 1}, f \in Handler : Instr = <<"irq", irq, f>>
  BY <1>1, InstructionForms
<1>3. Instr[2] = irq /\ Instr[3] = f
  BY SMT, <1>2
<1> DEFINE l == <<f>> \o handles[irq]
<1>4. handles' = [handles EXCEPT ![irq] = l]
  BY <1>3 DEF do_add_irq_handle
<1>5. handles[irq] \in Seq(Handler)
  BY DEF BootInv, HandlerInv
<1>6. <<f>> \in Seq(Handler) /\ DOMAIN <<f>> = {1} /\ <<f>>[1] = f
  BY SMT
<1>7. Range(<<f>>) = {f}
  BY <1>6 DEF Range
<1>8. l \in Seq(Handler) /\ Range(l) = {f} \cup Range(handles[irq])
  <2> DEFINE h == <<f>>
             t == handles[irq]
  <2>1. h \in Seq(Handler) /\ t \in Seq(Handler)
    BY <1>5, <1>6
  <2>2. Range(h) = {f}
    BY <1>7
  <2> HIDE DEF h, t
  <2>3. h \o t \in Seq(Handler)
    BY SMT, <2>1
  <2>4. Range(h \o t) = Range(h) \cup Range(t)
    BY SMT, <2>1, ConcatRange
  <2> QED
    BY <2>2, <2>3, <2>4 DEF h, t
<1>9. f = "send_updatemsg" => current_consl /\ pid["ttyd"] = "ttyd"
  <2> SUFFICES ASSUME f = "send_updatemsg" PROVE current_consl /\ pid["ttyd"] = "ttyd"
    OBVIOUS
  <2>1. Needs(Instr) = {<<"current_consl">>, <<"pid", "ttyd">>}
    BY SMT, <1>2 DEF Needs
  <2>2. Done(<<"current_consl">>) /\ Done(<<"pid", "ttyd">>)
    BY <1>1, <2>1
  <2> QED
    BY <2>2, AcceptsMails DEF BootInv, ProgramInv
<1> HIDE DEF l
<1>10. UNCHANGED <<current, ready, waiting, inbox, ttyVars, pid, devices, current_consl>>
  BY DEF do_add_irq_handle, sysVars
<1>11. HandlerInv'
  <2>1. /\ handles' \in [{0, 1} -> Seq(Handler)] /\ handles'[irq] = l
        /\ \A x \in {0, 1} \ {irq} : handles'[x] = handles[x]
    BY <1>4, <1>8 DEF BootInv, HandlerInv
  <2> QED
    BY <1>8, <1>9, <1>10, <2>1 DEF BootInv, HandlerInv
<1>12. ProgramInv'
  BY <1>1, <1>10, ProgramKept DEF BootInv
<1> QED
  BY <1>1, <1>10, <1>11, <1>12, BootStands DEF BootInv

\* The two that take several steps either go on or stay.
LEMMA InitRtStep == BootInv /\ do_init_rt => BootInv'
<1> SUFFICES ASSUME BootInv, do_init_rt PROVE BootInv'
  OBVIOUS
<1>1. bpc <= Len(Program) /\ Instr[1] = "init_rt"
  BY AtInstruction DEF do_init_rt
<1>2. CASE bpc' = bpc + 1
  BY <1>1, <1>2, QuietInstruction DEF do_init_rt, sysVars
<1>3. CASE bpc' = bpc
  BY <1>3, BootStays DEF do_init_rt, sysVars
<1> QED
  BY <1>2, <1>3 DEF do_init_rt

\* srand copies the time.
LEMMA SrandStep == BootInv /\ do_srand => BootInv'
<1> SUFFICES ASSUME BootInv, do_srand PROVE BootInv'
  OBVIOUS
<1>1. bpc <= Len(Program) /\ Instr[1] = "srand"
  BY AtInstruction DEF do_srand
<1>2. CASE bpc' = bpc + 1
  BY <1>1, <1>2, QuietInstruction DEF do_srand, sysVars
<1>3. CASE bpc' = bpc
  BY <1>3, BootStays DEF do_srand, sysVars
<1> QED
  BY <1>2, <1>3 DEF do_srand

\* A step of the system that leaves the boot context and the gettys alone.
LEMMA SystemStep ==
    ASSUME BootInv, NEW s, SystemInv(s), Becomes(s),
           UNCHANGED <<bpc, pid, handles, devices, current_consl>>
    PROVE  /\ SystemInv(System)' /\ ProgramInv' /\ HandlerInv'
           /\ \A x : Done(x)' <=> Done(x)
           /\ \A th : Woken(th)' <=> Woken(th)
<1>1. \A x : Done(x)' <=> Done(x)
  BY DEF Done
<1>2. \A th : Woken(th)' <=> Woken(th)
  BY <1>1 DEF Woken
<1>3. ProgramInv'
  BY <1>1 DEF BootInv, ProgramInv
<1>4. HandlerInv'
  BY DEF BootInv, HandlerInv
<1>5. SystemInv(System)'
  BY <1>2, SystemNext
<1> QED
  BY <1>1, <1>2, <1>3, <1>4, <1>5

\* create_process sends PM a message it accepts.
LEMMA CreateProcessStep == BootInv /\ do_create_process => BootInv'
<1> SUFFICES ASSUME BootInv, do_create_process PROVE BootInv'
  OBVIOUS
<1>1. /\ bpc <= Len(Program) /\ bpc' = bpc + 1 /\ Instr \in Instruction /\ Instr[1] = "create_process"
      /\ \A x : Done(x)' <=> Done(x) \/ x = Instr
      /\ \A y \in Needs(Instr) : Done(y)
  BY AtInstruction DEF do_create_process
<1>2. Instr = <<"create_process">>
  BY <1>1, InstructionForms
<1>3. pid["pm"] = "pm"
  <2>1. Needs(Instr) = {<<"pid", "pm">>}
    BY <1>2, NeedsOf
  <2> QED
    BY <1>1, <2>1, AcceptsMails DEF BootInv, ProgramInv
<1> DEFINE s == Send(System, "pm", "PM_NEW_PROC")
<1>4. Becomes(s) /\ UNCHANGED <<current, ttyVars, pid, handles, devices, current_consl>>
  BY <1>3 DEF do_create_process
<1>5. SystemInv(s)
  <2>1. "pm" # Idle /\ "PM_NEW_PROC" # "MSG_TTY_UPDATE"
    BY DEF Idle
  <2>2. "pm" \in Server /\ "PM_NEW_PROC" \in Accepts["pm"]
    BY AcceptsMails
  <2> QED
    BY <2>1, <2>2, SendKeeps DEF BootInv
<1> HIDE DEF s
<1>6. \A th : Woken(th) => Woken(th)'
  BY <1>1 DEF Woken
<1>7. SystemInv(System)'
  BY <1>4, <1>5, <1>6, SystemNext
<1>8. ProgramInv'
  BY <1>1, <1>4, ProgramKept DEF BootInv
<1>9. HandlerInv'
  BY <1>4 DEF BootInv, HandlerInv
<1>10. GettyInv'
  BY <1>4 DEF BootInv, GettyInv, ttyVars, GettysOwnTheirConsoles
<1> QED
  BY <1>4, <1>6, <1>7, <1>8, <1>9, <1>10 DEF BootInv, OnlyKeysComeEarly, ttyVars

-----------------------------------------------------------------------------
(* The threads                                                              *)

\* The thread blocks: another thread that was woken runs.
LEMMA Sleep ==
    ASSUME BootInv, current \in Thread
    PROVE  SystemInv([System EXCEPT !.ready = Unlink(@, current), !.waiting = @ \cup {current}])
<1> DEFINE s == [System EXCEPT !.ready = Unlink(@, current), !.waiting = @ \cup {current}]
<1>1. s.inbox = inbox /\ s.ready = Unlink(ready, current) /\ s.waiting = waiting \cup {current}
  BY DEF System
<1> HIDE DEF s
<1>2. System.inbox = inbox /\ System.ready = ready /\ System.waiting = waiting
  BY DEF System
<1>3. ready \in Seq(Thread)
  BY <1>2 DEF BootInv, SystemInv
<1>4. s.ready \in Seq(Thread) /\ Range(s.ready) \subseteq Range(ready)
  BY SMT, <1>1, <1>3, UnlinkElements
<1>5. current # Idle
  BY BootNames
<1>6. SystemInv(s)
  BY <1>1, <1>2, <1>4, <1>5 DEF BootInv, SystemInv
<1> QED
  BY <1>6 DEF s

\* A thread with an empty mailbox waits, and another one runs.
LEMMA BlocksStep == ASSUME BootInv, NEW th \in Thread, current = th, Blocks(th) PROVE BootInv'
<1> DEFINE s == [System EXCEPT !.ready = Unlink(@, current), !.waiting = @ \cup {current}]
<1>1. s.inbox = inbox /\ s.ready = Unlink(ready, current) /\ s.waiting = waiting \cup {current}
  BY DEF System
<1>2. SystemInv(s)
  BY Sleep
<1> HIDE DEF s
<1>3. Becomes(s) /\ current' = schedule(th, ready') /\ UNCHANGED <<ttyVars, bpc, pid, handles, devices, current_consl>>
  BY <1>1 DEF Blocks, Becomes, bootVars
<1>4. /\ SystemInv(System)' /\ ProgramInv' /\ HandlerInv'
      /\ \A x : Woken(x)' <=> Woken(x)
  BY <1>2, <1>3, SystemStep
<1>5. ready' \in Seq(Thread) /\ \A x \in Range(ready') : Woken(x)'
  BY <1>4 DEF SystemInv, System
<1>6. current' # Idle => current' \in Range(ready')
  BY <1>3, <1>5, ScheduleReady
<1>7. Range(ready') \subseteq Thread
  BY <1>5, SeqLength, SeqElement DEF Range
<1>8. GettyInv'
  BY <1>3 DEF BootInv, GettyInv, ttyVars, GettysOwnTheirConsoles
<1> QED
  BY <1>3, <1>4, <1>5, <1>6, <1>7, <1>8 DEF BootInv, OnlyKeysComeEarly, ttyVars

\* A driver or service takes a message of its mailbox.
LEMMA HandlesStep ==
    ASSUME BootInv, NEW th \in Server, current = th, inbox[th] # <<>>, Handles(th)
    PROVE  BootInv'
<1>1. UNCHANGED <<current, ready, waiting, tty_idx, tty, unknown, bpc, pid, handles, devices, current_consl>>
  BY DEF Handles, bootVars
<1>2. /\ th \in Thread \cup {Idle} /\ inbox \in [Thread \cup {Idle} -> Seq(Mails)] /\ inbox[th] \in Seq(Mails)
  BY BootNames DEF BootInv, SystemInv, System
<1>3. Tail(inbox[th]) \in Seq(Mails) /\ Range(Tail(inbox[th])) \subseteq Range(inbox[th]) /\ Head(inbox[th]) \in Range(inbox[th])
  BY SMT, <1>2, TailElements
<1>4. CASE UNCHANGED <<inbox, null_consl>>
  BY <1>1, <1>4, BootStays DEF ttyVars
<1>5. CASE /\ inbox' = [inbox EXCEPT ![th] = Tail(@)]
           /\ null_consl' = IF Head(inbox[th]) \in {"MSG_TTY_UPDATE", "MSG_TTY_GETKEY"} /\ ~current_consl
                            THEN null_consl \cup {Head(inbox[th])} ELSE null_consl
  <2> DEFINE s == [System EXCEPT !.inbox = inbox']
  <2>1. s.inbox = inbox' /\ s.ready = ready /\ s.waiting = waiting
    BY DEF System
  <2>2. System.inbox = inbox /\ System.ready = ready /\ System.waiting = waiting
    BY DEF System
  <2> HIDE DEF s
  <2>3. /\ inbox' \in [Thread \cup {Idle} -> Seq(Mails)] /\ inbox'[th] = Tail(inbox[th])
        /\ \A x \in (Thread \cup {Idle}) \ {th} : inbox'[x] = inbox[x]
    BY <1>2, <1>3, <1>5
  <2>4. \A x \in Thread \cup {Idle} : Range(inbox'[x]) \subseteq Range(inbox[x])
    BY <1>3, <2>3
  <2>5. "ttyd" \in Thread
    BY BootNames, AcceptsMails
  <2>6. SystemInv(s)
    BY <2>1, <2>2, <2>3, <2>4, <2>5, BootNames DEF BootInv, SystemInv
  <2>7. Becomes(s)
    BY <1>1, <2>1 DEF Becomes
  <2>8. /\ SystemInv(System)' /\ ProgramInv' /\ HandlerInv'
        /\ \A x : Woken(x)' <=> Woken(x)
    BY <1>1, <2>6, <2>7, SystemStep
  <2>9. GettyInv'
    BY <1>1 DEF BootInv, GettyInv, GettysOwnTheirConsoles
  <2>10. OnlyKeysComeEarly'
    <3>1. Head(inbox[th]) = "MSG_TTY_UPDATE" => current_consl
      <4> SUFFICES ASSUME Head(inbox[th]) = "MSG_TTY_UPDATE" PROVE current_consl
        OBVIOUS
      <4>1. "MSG_TTY_UPDATE" \in Range(inbox[th]) /\ "MSG_TTY_UPDATE" \in Accepts[th]
        BY <1>3, <2>2 DEF BootInv, SystemInv
      <4>2. th = "ttyd"
        BY SMT, <4>1 DEF Accepts
      <4> QED
        BY <2>2, <4>1, <4>2 DEF BootInv, SystemInv
    <3> QED
      BY <1>5, <3>1 DEF BootInv, OnlyKeysComeEarly
  <2> QED
    BY <1>1, <2>8, <2>9, <2>10 DEF BootInv
<1> QED
  BY <1>4, <1>5 DEF Handles

\* There are no more gettys than names.
LEMMA GettyCount == IsFiniteSet(Range(Getty)) /\ Cardinality(Range(Getty)) <= NR_TTY
<1>1. NR_TTY \in Nat \ {0}
  BY SMT, BootAssumption
<1>2. IsFiniteSet(1..NR_TTY) /\ Cardinality(1..NR_TTY) = NR_TTY
  BY SMT, <1>1, FS_Interval
<1>3. Getty \in Surjection(1..NR_TTY, Range(Getty))
  BY DEF Surjection, Range, Getty
<1>4. IsFiniteSet(Range(Getty)) /\ Cardinality(Range(Getty)) <= Cardinality(1..NR_TTY)
  BY <1>2, <1>3, FS_Surjection
<1> QED
  BY <1>2, <1>4

\* The name the next getty makes is that of a console.
LEMMA NextName ==
    ASSUME GettyInv, NEW g \in Range(Getty), tty[g] = 0
    PROVE  /\ tty_idx \in 1..NR_TTY
           /\ Cardinality({h \in Range(Getty) : tty[h] # 0} \cup {g}) = tty_idx
<1> DEFINE N == {h \in Range(Getty) : tty[h] # 0}
<1>1. N \in SUBSET Range(Getty) /\ N \cup {g} \in SUBSET Range(Getty) /\ g \notin N
  OBVIOUS
<1>2. tty_idx = Cardinality(N) + 1
  BY DEF GettyInv
<1> HIDE DEF N
<1>3. IsFiniteSet(N) /\ Cardinality(N \cup {g}) <= Cardinality(Range(Getty))
  BY <1>1, GettyCount, FS_Subset
<1>4. Cardinality(N \cup {g}) = Cardinality(N) + 1
  BY <1>1, <1>3, FS_AddElement
<1>5. Cardinality(N) \in Nat /\ Cardinality(Range(Getty)) \in Nat
  BY <1>3, GettyCount, FS_CardinalityType
<1>6. tty_idx \in 1..NR_TTY
  BY SMT, <1>2, <1>3, <1>4, <1>5, GettyCount, BootAssumption
<1> QED
  BY <1>2, <1>4, <1>6 DEF N

\* The getty makes its name.
LEMMA NameStep ==
    ASSUME BootInv, NEW g \in Range(Getty), tty[g] = 0,
           tty' = [tty EXCEPT ![g] = tty_idx], tty_idx' = NextTty,
           UNCHANGED <<sysVars, null_consl, unknown, bootVars>>
    PROVE  BootInv'
<1>1. UNCHANGED <<current, ready, waiting, inbox, null_consl, unknown, bpc, pid, handles, devices, current_consl>>
  BY DEF sysVars, bootVars
<1>2. System.inbox = inbox /\ System.ready = ready /\ System.waiting = waiting
  BY DEF System
<1>3. Becomes(System)
  BY <1>1, <1>2 DEF Becomes
<1>4. /\ SystemInv(System)' /\ ProgramInv' /\ HandlerInv'
      /\ \A x : Woken(x)' <=> Woken(x)
  BY <1>1, <1>3, SystemStep DEF BootInv
<1>5. tty_idx \in 1..NR_TTY /\ Cardinality({h \in Range(Getty) : tty[h] # 0} \cup {g}) = tty_idx
  BY NextName DEF BootInv
<1>6. tty_idx \in Nat /\ tty_idx # 0 /\ tty_idx' = tty_idx + 1 /\ tty_idx' \in Nat /\ tty_idx < tty_idx' /\ tty_idx \in 0..NR_TTY
  BY SMT, <1>5, BootAssumption DEF NextTty
<1>7. tty \in [Range(Getty) -> 0..NR_TTY] /\ \A h \in Range(Getty) : tty[h] < tty_idx
  BY DEF BootInv, GettyInv
<1>8. tty' \in [Range(Getty) -> 0..NR_TTY] /\ tty'[g] = tty_idx /\ \A h \in Range(Getty) \ {g} : tty'[h] = tty[h]
  BY <1>6, <1>7
<1>9. {h \in Range(Getty) : tty'[h] # 0} = {h \in Range(Getty) : tty[h] # 0} \cup {g}
  BY <1>6, <1>8
<1>10. \A h \in Range(Getty) : tty'[h] < tty_idx'
  BY SMT, <1>6, <1>7, <1>8
<1>11. \A h \in Range(Getty) : tty[h] # tty_idx
  BY SMT, <1>6, <1>7
<1>12. GettysOwnTheirConsoles'
  BY <1>1, <1>8, <1>11 DEF BootInv, GettyInv, GettysOwnTheirConsoles
<1>13. GettyInv'
  BY <1>5, <1>6, <1>8, <1>9, <1>10, <1>12 DEF GettyInv
<1> QED
  BY <1>1, <1>4, <1>13 DEF BootInv, OnlyKeysComeEarly

\* A getty that was woken finds the device of every console.
LEMMA ConsolesRegistered ==
    ASSUME ProgramInv, NEW g \in Range(Getty), Woken(g), NEW dev \in Range(Ttys)
    PROVE  \E k \in 1..Len(devices) : devices[k].name = dev
<1>1. PICK k \in 1..(bpc - 1) : Program[k] = <<"wakeup", g>>
  BY DEF Woken, Done
<1>2. k \in 1..Len(Program) /\ \A j \in 1..(k - 1) : j \in 1..(bpc - 1)
  BY SMT, ProgramOrdered DEF ProgramInv, Ordered
<1>3. <<"register", dev, "ttyd">> \in Needs(Program[k])
  <2>1. Needs(<<"wakeup", g>>) = {<<"register", x, "ttyd">> : x \in Range(Ttys)}
    BY NeedsOf
  <2> QED
    BY <1>1, <2>1
<1>4. Done(<<"register", dev, "ttyd">>)
  BY <1>2, <1>3, ProgramOrdered DEF Ordered, Done
<1> QED
  BY <1>4 DEF ProgramInv

\* hal_get finds a device that is registered.
LEMMA FoundInList ==
    ASSUME NEW S, NEW s \in Seq(S), NEW x, NEW j \in 1..Len(s), s[j].name = x
    PROVE  LET n == SelectInSeq(s, LAMBDA d : d.name = x) IN n \in 1..Len(s) /\ s[n].name = x
<1> DEFINE T == {k \in 1..Len(s) : s[k].name = x}
           first == {n \in 1..Len(s) : s[n].name = x /\ \A k \in 1..(n - 1) : ~(s[k].name = x)}
<1>1. Len(s) \in Nat
  BY SeqLength
<1>2. T \in SUBSET Nat /\ T # {}
  BY SMT, <1>1
<1>3. PICK n \in T : \A k \in T : n <= k
  BY <1>2, Least
<1>4. \A k \in 1..(n - 1) : k \in 1..Len(s) /\ ~(n <= k)
  BY SMT, <1>1, <1>3
<1>5. n \in first
  BY <1>3, <1>4
<1>6. SelectInSeq(s, LAMBDA d : d.name = x) = IF first = {} THEN 0 ELSE CHOOSE i \in first : TRUE
  BY DEF SelectInSeq
<1>7. (CHOOSE i \in first : TRUE) \in first
  BY <1>5
<1> QED
  BY <1>5, <1>6, <1>7

\* The getty asks for its console.
LEMMA AskStep ==
    ASSUME BootInv, NEW g \in Range(Getty), current = g, getty(g), tty[g] # 0
    PROVE  BootInv'
<1> DEFINE found == SelectInSeq(devices, LAMBDA d : d.name = Ttys[tty[g]])
           s == [System EXCEPT !.ready = Unlink(@, current), !.waiting = @ \cup {current}]
           t == Send(s, "ttyd", "DEV_READ")
<1>1. g \in Thread /\ g # Idle /\ Woken(g)
  BY BootNames DEF BootInv
<1>2. SystemInv(s)
  BY <1>1, Sleep
<1>3. Ttys[tty[g]] \in Range(Ttys)
  <2>1. tty[g] \in 0..NR_TTY
    BY DEF BootInv, GettyInv
  <2>2. tty[g] \in 1..NR_TTY
    BY SMT, <2>1, BootAssumption
  <2> QED
    BY <2>2, BootNames
<1>4. found \in 1..Len(devices) /\ devices[found].name = Ttys[tty[g]]
  <2>1. devices \in Seq([name : Server \cup Range(Ttys), pid : Server \cup {Idle}])
    BY DEF BootInv, ProgramInv
  <2>2. PICK j \in 1..Len(devices) : devices[j].name = Ttys[tty[g]]
    BY <1>1, <1>3, ConsolesRegistered DEF BootInv
  <2> QED
    BY <2>1, <2>2, FoundInList
<1>5. found # 0 /\ devices[found].pid = "ttyd"
  <2>1. found # 0
    BY SMT, <1>4
  <2> QED
    BY <1>3, <1>4, <2>1 DEF BootInv, ProgramInv
<1>6. Becomes(t) /\ UNCHANGED unknown /\ current' = schedule(g, ready')
      /\ UNCHANGED <<tty_idx, tty, null_consl, bpc, pid, handles, devices, current_consl>>
  BY <1>5 DEF getty, bootVars
<1> HIDE DEF found, s
<1>7. SystemInv(t)
  <2>1. "ttyd" # Idle /\ "DEV_READ" # "MSG_TTY_UPDATE"
    BY DEF Idle
  <2>2. "ttyd" \in Server /\ "DEV_READ" \in Accepts["ttyd"]
    BY AcceptsMails
  <2> QED
    BY <1>2, <2>1, <2>2, SendKeeps
<1> HIDE DEF t
<1>8. /\ SystemInv(System)' /\ ProgramInv' /\ HandlerInv'
      /\ \A x : Woken(x)' <=> Woken(x)
  BY <1>6, <1>7, SystemStep
<1>9. (current # Idle => current \in Thread /\ Woken(current))'
  <2>1. ready' \in Seq(Thread) /\ \A x \in Range(ready') : Woken(x)'
    BY <1>8 DEF SystemInv, System
  <2>2. current' # Idle => current' \in Range(ready')
    BY <1>6, <2>1, ScheduleReady
  <2>3. Range(ready') \subseteq Thread
    BY ZenonT(30), <2>1, SeqLength, SeqElement DEF Range
  <2> QED
    BY <2>1, <2>2, <2>3
<1>10. GettyInv'
  BY <1>6 DEF BootInv, GettyInv, GettysOwnTheirConsoles
<1> QED
  BY <1>6, <1>8, <1>9, <1>10 DEF BootInv, OnlyKeysComeEarly

\* A server takes a message, or a getty its console's name.
LEMMA ThreadStep == ASSUME BootInv, NEW th \in Thread, serve(th) \/ getty(th) PROVE BootInv'
<1>1. CASE serve(th)
  BY <1>1, BlocksStep, HandlesStep DEF serve
<1>2. CASE getty(th) /\ tty[th] = 0
  BY <1>2, NameStep DEF getty
<1>3. CASE getty(th) /\ tty[th] # 0
  <2>1. current = th /\ th \in Range(Getty)
    BY <1>3 DEF getty
  <2> QED
    BY <1>3, <2>1, AskStep
<1> QED
  BY <1>1, <1>2, <1>3

-----------------------------------------------------------------------------
(* Interrupts                                                               *)

\* What irq_handle() calls k-th sends, and the system after it.
Sent(irq, k) == IF k \in DOMAIN handles[irq] THEN Sends(handles[irq][k], jiffy) ELSE {}
Called(irq, s, k) ==
    IF Sent(irq, k) = {} THEN s
    ELSE LET m == CHOOSE m \in Sent(irq, k) : TRUE IN Send(s, pid[m[1]], m[2])

\* What the handlers send.
LEMMA SendsOf ==
    ASSUME NEW f \in Handler, NEW n, Sends(f, n) # {}
    PROVE  \/ Sends(f, n) = {<<"timer", "UPDATE_TIMER">>}
           \/ Sends(f, n) = {<<"ttyd", "MSG_TTY_UPDATE">>} /\ f = "send_updatemsg"
           \/ Sends(f, n) = {<<"ide", "IDE_WRITEBACK">>}
           \/ Sends(f, n) = {<<"ttyd", "MSG_TTY_GETKEY">>}
<1>1. CASE f = "update_jiffy"
  BY <1>1 DEF Sends
<1>2. CASE f = "send_updatemsg"
  BY SMT, <1>2 DEF Sends
<1>3. CASE f = "time_intr"
  BY SMT, <1>3 DEF Sends
<1>4. CASE f = "send_keymsg"
  BY SMT, <1>4 DEF Sends
<1> QED
  BY <1>1, <1>2, <1>3, <1>4 DEF Handler

\* One handler: its message reaches the driver it is for, or pid 0.
LEMMA CalledKeeps ==
    ASSUME BootInv, NEW irq \in {0, 1}, NEW s, SystemInv(s), NEW k
    PROVE  SystemInv(Called(irq, s, k))
<1>1. CASE Sent(irq, k) = {}
  BY <1>1 DEF Called
<1>2. CASE Sent(irq, k) # {}
  <2> DEFINE f == handles[irq][k]
  <2>1. k \in DOMAIN handles[irq] /\ Sent(irq, k) = Sends(f, jiffy)
    BY <1>2 DEF Sent
  <2>2. f \in Handler /\ f \in Range(handles[irq])
    BY <2>1, SeqLength, SeqElement DEF BootInv, HandlerInv, Range
  <2>3. ASSUME NEW th \in {"timer", "ttyd", "ide"}, NEW m,
               Sent(irq, k) = {<<th, m>>}, m \in Accepts[th],
               m \in Early \/ pid[th] = th,
               m = "MSG_TTY_UPDATE" => current_consl
        PROVE  SystemInv(Called(irq, s, k))
    <3>1. (CHOOSE x \in Sent(irq, k) : TRUE) = <<th, m>>
      BY <2>3
    <3>2. <<th, m>>[1] = th /\ <<th, m>>[2] = m
      BY SMT
    <3>3. Called(irq, s, k) = Send(s, pid[th], m)
      BY <1>2, <3>1, <3>2 DEF Called
    <3>4. pid[th] \in {th, Idle} /\ th \in Server /\ Idle \notin Server
      BY ZenonT(30), AcceptsMails, BootNames DEF BootInv, ProgramInv
    <3>5. CASE pid[th] = th
      <4>1. th # Idle
        BY <3>4
      <4>2. SystemInv(Send(s, th, m))
        BY <2>3, <3>4, <4>1, SendKeeps
      <4> QED
        BY <3>3, <3>5, <4>2
    <3>6. CASE pid[th] = Idle
      <4>1. m \in Early
        BY <2>3, <3>4, <3>6
      <4>2. SystemInv(Send(s, Idle, m))
        BY <2>3, <3>4, <4>1, SendKeeps
      <4> QED
        BY <3>3, <3>6, <4>2
    <3> QED
      BY <3>4, <3>5, <3>6
  <2> HIDE DEF f
  <2>4. CASE Sent(irq, k) = {<<"timer", "UPDATE_TIMER">>}
    BY <2>3, <2>4, AcceptsMails DEF Early
  <2>5. CASE Sent(irq, k) = {<<"ide", "IDE_WRITEBACK">>}
    BY <2>3, <2>5, AcceptsMails DEF Early
  <2>6. CASE Sent(irq, k) = {<<"ttyd", "MSG_TTY_GETKEY">>}
    <3>1. "MSG_TTY_GETKEY" \in Accepts["ttyd"] /\ "MSG_TTY_GETKEY" \in Early
      BY AcceptsMails DEF Early
    <3>2. "MSG_TTY_GETKEY" # "MSG_TTY_UPDATE" /\ "ttyd" \in {"timer", "ttyd", "ide"}
      OBVIOUS
    <3> QED
      BY <2>3, <2>6, <3>1, <3>2
  <2>7. CASE Sent(irq, k) = {<<"ttyd", "MSG_TTY_UPDATE">>} /\ f = "send_updatemsg"
    <3>1. current_consl /\ pid["ttyd"] = "ttyd"
      BY <2>2, <2>7 DEF BootInv, HandlerInv
    <3> QED
      BY <2>3, <2>7, <3>1, AcceptsMails
  <2> QED
    BY <1>2, <2>1, <2>2, <2>4, <2>5, <2>6, <2>7, SendsOf
<1> QED
  BY <1>1, <1>2

\* The timer's and the keyboard's interrupt, whatever they interrupt.
LEMMA InterruptStep ==
    ASSUME BootInv, NEW irq \in {0, 1}, irq_handle(irq), UNCHANGED <<ttyVars, bootVars>>
    PROVE  BootInv'
<1> DEFINE a == Called(irq, System, 1)
           b == Called(irq, a, 2)
           c == Called(irq, b, 3)
<1>1. Becomes(c) /\ current' = schedule(current, c.ready)
  BY DEF irq_handle, Called, Sent
<1>2. SystemInv(a)
  BY CalledKeeps DEF BootInv
<1> HIDE DEF a
<1>3. SystemInv(b)
  BY <1>2, CalledKeeps
<1> HIDE DEF b
<1>4. SystemInv(c)
  BY <1>3, CalledKeeps
<1> HIDE DEF c
<1>5. UNCHANGED <<tty_idx, tty, null_consl, unknown, bpc, pid, handles, devices, current_consl>>
  BY DEF ttyVars, bootVars
<1>6. /\ SystemInv(System)' /\ ProgramInv' /\ HandlerInv'
      /\ \A x : Woken(x)' <=> Woken(x)
  BY <1>1, <1>4, <1>5, SystemStep
<1>7. (current # Idle => current \in Thread /\ Woken(current))'
  <2>1. c.ready \in Seq(Thread) /\ \A x \in Range(c.ready) : Woken(x)
    BY <1>4 DEF SystemInv
  <2>2. current' # Idle => current' \in Range(c.ready)
    BY <1>1, <2>1, ScheduleReady
  <2>3. Range(c.ready) \subseteq Thread
    BY SMT, <2>1 DEF Range
  <2> QED
    BY <1>6, <2>1, <2>2, <2>3
<1>8. GettyInv'
  BY <1>5 DEF BootInv, GettyInv, GettysOwnTheirConsoles
<1> QED
  BY <1>5, <1>6, <1>7, <1>8 DEF BootInv, OnlyKeysComeEarly

-----------------------------------------------------------------------------
\* The machine as os_init_cont finds it.
LEMMA BootInvInit == BootInit => BootInv
<1> SUFFICES ASSUME BootInit PROVE BootInv
  OBVIOUS
<1>1. \A x : ~Done(x)
  BY SMT DEF BootInit, Done
<1>2. \A S : <<>> \in Seq(S) /\ DOMAIN <<>> = {} /\ 1..Len(<<>>) = {}
  BY SMT
<1>3. Range(<<>>) = {}
  BY <1>2 DEF Range
<1>4. SystemInv(System)
  <2>1. System.inbox = inbox /\ System.ready = <<>> /\ System.waiting = {}
    BY DEF System, BootInit
  <2>2. inbox \in [Thread \cup {Idle} -> Seq(Mails)] /\ \A th \in Thread \cup {Idle} : Range(inbox[th]) = {}
    BY <1>2, <1>3 DEF BootInit
  <2>3. Server \subseteq Thread /\ "ttyd" \in Thread
    BY BootNames, AcceptsMails
  <2>4. <<>> \in Seq(Thread)
    BY <1>2
  <2> QED
    BY <1>3, <2>1, <2>2, <2>3, <2>4 DEF SystemInv
<1>5. ProgramInv
  <2>1. bpc \in 1..(Len(Program) + 1)
    BY SMT, ProgramOrdered DEF Ordered, BootInit
  <2>2. 1..Len(devices) = {} /\ devices \in Seq([name : Server \cup Range(Ttys), pid : Server \cup {Idle}])
    BY <1>2 DEF BootInit
  <2> QED
    BY <1>1, <2>1, <2>2 DEF ProgramInv, BootInit
<1>6. HandlerInv
  BY <1>2, <1>3 DEF HandlerInv, BootInit
<1>7. GettyInv
  <2>1. {g \in Range(Getty) : tty[g] # 0} = {}
    BY DEF BootInit
  <2>2. Cardinality({}) = 0
    BY FS_EmptySet
  <2>3. tty_idx = Cardinality({g \in Range(Getty) : tty[g] # 0}) + 1 /\ tty_idx \in Nat /\ 0 < tty_idx /\ 0 \in 0..NR_TTY
    BY SMT, <2>1, <2>2, BootAssumption DEF BootInit
  <2> QED
    BY <2>3 DEF GettyInv, GettysOwnTheirConsoles, BootInit
<1> QED
  BY <1>4, <1>5, <1>6, <1>7 DEF BootInv, OnlyKeysComeEarly, BootInit

\* Every step of the start keeps the invariant.
LEMMA BootInvNext == BootInv /\ [BootNext]_machineVars => BootInv'
<1> SUFFICES ASSUME BootInv, [BootNext]_machineVars PROVE BootInv'
  OBVIOUS
<1>1. CASE boot
  BY <1>1, CreateStep, PublishStep, WakeupStep, RegisterStep, IrqStep, ConslStep, InitRtStep, SrandStep,
     CreateProcessStep DEF boot
<1>2. CASE tick
  BY <1>2, InterruptStep DEF tick
<1>3. CASE key
  BY <1>3, InterruptStep DEF key
<1>4. CASE idle_loop \/ UNCHANGED machineVars
  BY <1>4, BootStays DEF idle_loop, machineVars, sysVars, bootVars
<1>5. CASE \E th \in Thread : serve(th) \/ getty(th)
  BY <1>5, ThreadStep
<1> QED
  BY <1>1, <1>2, <1>3, <1>4, <1>5 DEF BootNext

\* At every instant of the boot, whatever interrupts and preempts it, everything an
\* instruction of init_driver or os_init_cont needs has been executed before it, the
\* mailboxes hold what their owners expect, and the gettys number themselves.
THEOREM BootInvariant == BootSpec => []BootInv
<1>1. BootInit => BootInv
  BY BootInvInit
<1>2. BootInv /\ [BootNext]_machineVars => BootInv'
  BY BootInvNext
<1> QED
  BY <1>1, <1>2, PTL DEF BootSpec

\* No two gettys open the same console, and dev_rw finds the device of each,
\* however early the gettys of init_getty run.
THEOREM GettysFindConsoles == BootSpec => []GettysOwnTheirConsoles
<1>1. BootInv => GettysOwnTheirConsoles
  BY DEF BootInv, GettyInv
<1> QED
  BY <1>1, BootInvariant, PTL

\* ttyd draws the banner only once init_console has chosen current_consl.
THEOREM BannerHasConsole == BootSpec => []OnlyKeysComeEarly
<1>1. BootInv => OnlyKeysComeEarly
  BY DEF BootInv
<1> QED
  BY <1>1, BootInvariant, PTL

\* Every message of a handler, a getty or the boot context is in the mailbox of the
\* thread that serves it, or of pid 0 if its driver has no pid yet; every registered
\* device names the thread that serves it.
THEOREM MessagesArrive == BootSpec => []MessagesReachTheirServers
<1>1. BootInv => MessagesReachTheirServers
  <2> SUFFICES ASSUME BootInv PROVE MessagesReachTheirServers
    OBVIOUS
  <2>1. DOMAIN devices = 1..Len(devices)
    BY SeqLength DEF BootInv, ProgramInv
  <2> QED
    BY <2>1 DEF BootInv, ProgramInv, SystemInv, System, MessagesReachTheirServers, Early
<1> QED
  BY <1>1, BootInvariant, PTL

-----------------------------------------------------------------------------
(* Message: the semaphores                                                  *)

\* A process waits for its own semaphore only.
Blocked(p) == waiters[p] = <<p>>

SemTypes ==
    /\ token \in [Proc -> Nat]
    /\ waiters \in [Proc -> Seq(Proc)]
    /\ \A p \in Proc : waiters[p] \in {<<>>, <<p>>}

\* One that waits has no unit, and has moved to the statement after its P.
WaitInv ==
    /\ SemTypes
    /\ pc \in [Proc -> Label] /\ dest \in [Proc -> Proc]
    /\ \A p \in Proc : Blocked(p) => token[p] = 0 /\ pc[p] \in {"take", "scan"}

\* A process has a unit when it is past P and does not wait.
PastP(p) == pc[p] \in {"take", "scan", "again"} /\ ~Blocked(p)

\* The senders that have linked a message for p and not called V.
Giving(p) == {q \in Proc : pc[q] = "V" /\ dest[q] = p}

Units(p) == token[p] + (IF PastP(p) THEN 1 ELSE 0) + Cardinality(Giving(p))

\* The lists, and what the senders put on them, element for element.
ListTypes ==
    /\ msg_list \in [Proc -> Seq(Slot)] /\ sent \in [Proc -> Seq(Src)]
    /\ \A p \in Proc : Len(sent[p]) = Len(msg_list[p])

UnitInv == WaitInv /\ \A p \in Proc : Len(msg_list[p]) = Units(p)

-----------------------------------------------------------------------------
(* The ring of slots                                                        *)

DataTypes ==
    /\ msg_pool \in [Slot -> Src \cup {NoMsg}] /\ p_free \in Slot
    /\ slot \in [Proc -> Slot]
    /\ want \in [Proc -> Src \cup {ANY}]
    /\ due \in [Proc -> Src \cup {NoMsg}]
    /\ since \in [Slot -> 1..MSG_POOL_SIZE]
    /\ raced \in BOOLEAN /\ lapped \in BOOLEAN /\ corrupt \in BOOLEAN

\* A slot linked n sends ago, n less than the size of the ring, is n places
\* before p_free.
Around(i) == IF i >= MSG_POOL_SIZE THEN i - MSG_POOL_SIZE ELSE i
AgeInv == \A i \in Slot : since[i] < MSG_POOL_SIZE => p_free = Around(i + since[i])

\* Until two sends have raced, a sender copies to the slot it will link, and what
\* is there is the message of a sender that has not linked it yet.
PickInv ==
    ~raced => \A q \in Proc :
        /\ pc[q] \in {"copy", "link"} => slot[q] = p_free
        /\ pc[q] = "link" => msg_pool[p_free] \in Proc /\ pc[msg_pool[p_free]] = "link"

InUse(i) == Linked(i) \/ BeingRead(i)

\* A slot with a copy that is not linked yet is on no list.
FreshInv == ~raced /\ ~lapped => \A q \in Proc : pc[q] = "link" => ~InUse(p_free)

WantInv == \A p \in Proc : pc[p] = "take" => want[p] = ANY

\* What DeliveredAsSent says of process p.
Faithful(p) ==
    /\ \A i \in DOMAIN msg_list[p] : msg_pool[msg_list[p][i]] = sent[p][i]
    /\ pc[p] = "read" => msg_pool[slot[p]] = due[p] /\ want[p] \in {ANY, due[p]}

Delivered == ~raced /\ ~lapped => ~corrupt /\ \A p \in Proc : Faithful(p)

RingInv == AgeInv /\ PickInv /\ FreshInv /\ WantInv /\ Delivered

-----------------------------------------------------------------------------
(* P and V                                                                  *)

\* A process waits only for its own semaphore.
LEMMA WaitsForOwn ==
    ASSUME SemTypes, NEW p \in Proc
    PROVE  Waiting(p) <=> Blocked(p)
<1>1. \A q \in Proc : Range(<<q>>) = {q} /\ Range(<<>>) = {}
  BY SMT DEF Range
<1>2. ASSUME NEW s \in Proc, p \in Range(waiters[s]) PROVE waiters[p] = <<p>>
  BY <1>1, <1>2 DEF SemTypes
<1> QED
  BY <1>1, <1>2 DEF Waiting, Blocked

\* What P does to the units and the waiters.
LEMMA PEffect ==
    ASSUME SemTypes, NEW p \in Proc, Take(p) \/ Wait(p, p), ~Blocked(p)
    PROVE  /\ SemTypes'
           /\ \A q \in Proc \ {p} : token'[q] = token[q] /\ (Blocked(q)' <=> Blocked(q))
           /\ \/ token'[p] = token[p] - 1 /\ ~Blocked(p)'
              \/ token[p] = 0 /\ token'[p] = 0 /\ Blocked(p)'
<1>1. token \in [Proc -> Nat] /\ waiters \in [Proc -> Seq(Proc)] /\ waiters[p] = <<>>
  BY DEF SemTypes, Blocked
<1>2. CASE Take(p)
  BY SMT, <1>1, <1>2 DEF Take, SemTypes, Blocked
<1>3. CASE Wait(p, p)
  <2>1. Append(<<>>, p) = <<p>> /\ <<p>> \in Seq(Proc)
    BY SMT
  <2>2. token[p] = 0 /\ token' = token /\ waiters' = [waiters EXCEPT ![p] = <<p>>]
    BY <1>1, <1>3, <2>1 DEF Wait
  <2>3. waiters' \in [Proc -> Seq(Proc)] /\ waiters'[p] = <<p>> /\ \A q \in Proc \ {p} : waiters'[q] = waiters[q]
    BY <1>1, <2>1, <2>2
  <2> QED
    BY <1>1, <2>2, <2>3 DEF SemTypes, Blocked
<1> QED
  BY <1>2, <1>3

\* What V does to the units and the waiters.
LEMMA VEffect ==
    ASSUME SemTypes, NEW s \in Proc, V(s)
    PROVE  /\ SemTypes'
           /\ \A q \in Proc \ {s} : token'[q] = token[q] /\ (Blocked(q)' <=> Blocked(q))
           /\ ~Blocked(s)'
           /\ \/ ~Blocked(s) /\ token'[s] = token[s] + 1
              \/ Blocked(s) /\ token[s] = 0 /\ token'[s] = 0
<1>1. token \in [Proc -> Nat] /\ waiters \in [Proc -> Seq(Proc)] /\ waiters[s] \in {<<>>, <<s>>}
  BY DEF SemTypes
<1>2. <<>> # <<s>>
  OBVIOUS
<1>3. CASE Release(s)
  BY SMT, <1>1, <1>2, <1>3 DEF Release, SemTypes, Blocked
<1>4. CASE HandOff(s)
  <2>1. Tail(<<s>>) = <<>> /\ Tail(<<s>>) \in Seq(Proc)
    BY SMT
  <2>2. waiters[s] = <<s>> /\ token[s] = 0 /\ token' = token /\ waiters' = [waiters EXCEPT ![s] = Tail(@)]
    BY <1>1, <1>4 DEF HandOff
  <2>3. waiters' = [waiters EXCEPT ![s] = Tail(<<s>>)]
    BY <2>2
  <2>4. waiters' \in [Proc -> Seq(Proc)] /\ waiters'[s] = <<>> /\ \A q \in Proc \ {s} : waiters'[q] = waiters[q]
    BY <1>1, <2>1, <2>3
  <2> QED
    BY <1>1, <1>2, <2>2, <2>4 DEF SemTypes, Blocked
<1> QED
  BY <1>3, <1>4 DEF V

\* What a step of p does to the statements.
LEMMA StepFacts ==
    ASSUME WaitInv, NEW p \in Proc, NEW from, NEW to \in Label, Step(p, from, to)
    PROVE  /\ pc[p] = from /\ pc'[p] = to /\ pc' \in [Proc -> Label]
           /\ \A q \in Proc \ {p} : pc'[q] = pc[q]
           /\ ~Blocked(p) /\ ~corrupt
<1>1. pc[p] = from /\ ~Waiting(p) /\ ~corrupt /\ pc' = [pc EXCEPT ![p] = to] /\ pc \in [Proc -> Label]
  BY DEF Step, WaitInv
<1>2. ~Blocked(p)
  BY <1>1, WaitsForOwn DEF WaitInv
<1> QED
  BY <1>1, <1>2

-----------------------------------------------------------------------------
(* The semaphores count the lists                                           *)

\* The senders between link and V can be counted.
LEMMA GivingFinite ==
    ASSUME NEW p
    PROVE  IsFiniteSet(Giving(p)) /\ Cardinality(Giving(p)) \in Nat
<1>1. Giving(p) \subseteq Proc
  BY DEF Giving
<1> QED
  BY <1>1, MessageAssumption, FS_Subset, FS_CardinalityType

\* A step that leaves the semaphores and the lists alone.
QuietLabel(from, to) ==
    \/ {from, to} \cap {"V", "take", "scan", "again"} = {}
    \/ from = "scan" /\ to = "again"

\* Steps that neither link, take, P nor V.
LEMMA QuietUnits ==
    ASSUME UnitInv, NEW p \in Proc, NEW from, NEW to \in Label, Step(p, from, to),
           QuietLabel(from, to), UNCHANGED <<token, waiters, msg_list>>,
           dest' \in [Proc -> Proc], \A q \in Proc \ {p} : dest'[q] = dest[q]
    PROVE  UnitInv'
<1>1. /\ pc[p] = from /\ pc'[p] = to /\ pc' \in [Proc -> Label]
      /\ \A q \in Proc \ {p} : pc'[q] = pc[q]
      /\ ~Blocked(p)
  BY StepFacts DEF UnitInv
<1>2. SemTypes' /\ \A q \in Proc : Blocked(q)' <=> Blocked(q)
  BY DEF UnitInv, WaitInv, SemTypes, Blocked
<1>3. WaitInv'
  BY <1>1, <1>2 DEF UnitInv, WaitInv
<1>4. ASSUME NEW q \in Proc PROVE Units(q)' = Units(q)
  <2>1. PastP(q)' <=> PastP(q)
    BY <1>1, <1>2 DEF QuietLabel, PastP
  <2>2. Giving(q)' = Giving(q)
    BY <1>1 DEF Giving, QuietLabel
  <2> QED
    BY <2>1, <2>2 DEF Units
<1> QED
  BY <1>3, <1>4 DEF UnitInv

\* A sender more or less that has linked its message.
LEMMA GivingCount ==
    ASSUME NEW p, NEW q
    PROVE  /\ q \notin Giving(p) /\ Giving(p)' = Giving(p) \cup {q}
                => Cardinality(Giving(p)') = Cardinality(Giving(p)) + 1
           /\ q \in Giving(p) /\ Giving(p)' = Giving(p) \ {q}
                => Cardinality(Giving(p)') = Cardinality(Giving(p)) - 1
  BY SMT, GivingFinite, FS_AddElement, FS_RemoveElement

\* send: the message is linked, and p is to call V for it.
LEMMA LinkUnits ==
    ASSUME UnitInv, ListTypes, p_free \in Slot, NEW p \in Proc, send_link(p)
    PROVE  UnitInv'
<1>d. PICK d \in Proc : d = dest[p]
  BY DEF UnitInv, WaitInv
<1>0. Step(p, "link", "V") /\ UNCHANGED <<token, waiters, dest>>
  BY DEF send_link
<1>1. /\ pc[p] = "link" /\ pc'[p] = "V" /\ pc' \in [Proc -> Label]
      /\ \A q \in Proc \ {p} : pc'[q] = pc[q]
  <2>1. "V" \in Label
    BY DEF Label
  <2> QED
    BY <1>0, <2>1, StepFacts DEF UnitInv
<1>2. SemTypes' /\ \A q \in Proc : Blocked(q)' <=> Blocked(q)
  BY <1>0 DEF UnitInv, WaitInv, SemTypes, Blocked
<1>3. WaitInv'
  BY <1>0, <1>1, <1>2 DEF UnitInv, WaitInv
<1>4. Len(msg_list'[d]) = Len(msg_list[d]) + 1 /\ \A q \in Proc \ {d} : msg_list'[q] = msg_list[q]
  <2>1. msg_list' = [msg_list EXCEPT ![d] = Append(@, p_free)]
    BY <1>d DEF send_link, LinkSlot
  <2>2. Len(Append(msg_list[d], p_free)) = Len(msg_list[d]) + 1
    BY SMT, SeqAppend DEF ListTypes
  <2> QED
    BY <2>1, <2>2 DEF ListTypes
<1>5. ASSUME NEW q \in Proc PROVE Len(msg_list'[q]) = Units(q)'
  <2>1. PastP(q)' <=> PastP(q)
    BY <1>1, <1>2 DEF PastP
  <2>2. CASE q = d
    <3>1. p \notin Giving(d) /\ Giving(d)' = Giving(d) \cup {p}
      BY <1>d, <1>0, <1>1 DEF Giving
    <3>2. Cardinality(Giving(d)') = Cardinality(Giving(d)) + 1 /\ Cardinality(Giving(d)) \in Nat
      BY <3>1, GivingCount, GivingFinite
    <3>3. token'[q] = token[q] /\ token[q] \in Nat /\ Len(msg_list[q]) = Units(q)
      BY <1>0 DEF UnitInv, WaitInv, SemTypes
    <3> QED
      BY SMTT(30), <1>4, <2>1, <2>2, <3>2, <3>3 DEF Units
  <2>3. CASE q # d
    <3>1. Giving(q)' = Giving(q)
      BY <1>d, <1>0, <1>1, <2>3 DEF Giving
    <3> QED
      BY <1>0, <1>4, <2>1, <2>3, <3>1 DEF Units, UnitInv
  <2> QED
    BY <2>2, <2>3
<1> QED
  BY <1>3, <1>5 DEF UnitInv

\* send: V passes the unit to the semaphore, or to the receiver itself.
LEMMA GiveUnits ==
    ASSUME UnitInv, NEW p \in Proc, send_V(p)
    PROVE  UnitInv'
<1>d. PICK d \in Proc : d = dest[p]
  BY DEF UnitInv, WaitInv
<1>0. /\ Step(p, "V", "run") /\ V(d) /\ dest' = [dest EXCEPT ![p] = p] /\ msg_list' = msg_list
      /\ dest \in [Proc -> Proc] /\ token \in [Proc -> Nat]
  BY <1>d DEF send_V, UnitInv, WaitInv, SemTypes
<1>1. /\ pc[p] = "V" /\ pc'[p] = "run" /\ pc' \in [Proc -> Label]
      /\ \A q \in Proc \ {p} : pc'[q] = pc[q]
  <2>1. "run" \in Label
    BY DEF Label
  <2> QED
    BY <1>0, <2>1, StepFacts DEF UnitInv
<1>2. /\ SemTypes'
      /\ \A q \in Proc \ {d} : token'[q] = token[q] /\ (Blocked(q)' <=> Blocked(q))
      /\ ~Blocked(d)'
      /\ \/ ~Blocked(d) /\ token'[d] = token[d] + 1
         \/ Blocked(d) /\ token[d] = 0 /\ token'[d] = 0
  BY <1>0, VEffect DEF UnitInv, WaitInv
<1>3. WaitInv'
  BY <1>0, <1>1, <1>2 DEF UnitInv, WaitInv
<1>4. ASSUME NEW q \in Proc PROVE Units(q)' = Units(q)
  <2>1. CASE q = d
    <3>1. p \in Giving(d) /\ Giving(d)' = Giving(d) \ {p}
      BY <1>d, <1>0, <1>1 DEF Giving
    <3>2. Cardinality(Giving(d)') = Cardinality(Giving(d)) - 1 /\ Cardinality(Giving(d)) \in Nat
      BY <3>1, GivingCount, GivingFinite
    <3>3. CASE ~Blocked(d) /\ token'[d] = token[d] + 1
      <4>1. PastP(d)' <=> PastP(d)
        BY <1>1, <1>2, <3>3 DEF PastP
      <4> QED
        BY SMTT(30), <1>0, <2>1, <3>2, <3>3, <4>1 DEF Units
    <3>4. CASE Blocked(d) /\ token[d] = 0 /\ token'[d] = 0
      <4>1. pc[d] \in {"take", "scan"}
        BY <3>4 DEF UnitInv, WaitInv
      <4>2. PastP(d)' /\ ~PastP(d)
        BY <1>1, <1>2, <3>4, <4>1 DEF PastP
      <4> QED
        BY SMTT(30), <1>0, <2>1, <3>2, <3>4, <4>2 DEF Units
    <3> QED
      BY <1>2, <3>3, <3>4
  <2>2. CASE q # d
    <3>1. Giving(q)' = Giving(q)
      BY <1>d, <1>0, <1>1, <2>2 DEF Giving
    <3>2. PastP(q)' <=> PastP(q)
      BY <1>1, <1>2, <2>2 DEF PastP
    <3> QED
      BY <1>2, <2>2, <3>1, <3>2 DEF Units
  <2> QED
    BY <2>1, <2>2
<1> QED
  BY <1>0, <1>3, <1>4 DEF UnitInv

\* send by an interrupt handler: a message and its unit in one step.
LEMMA IrqUnits ==
    ASSUME UnitInv, ListTypes, p_free \in Slot, NEW d \in Proc, irq_send(d)
    PROVE  UnitInv'
<1>0. V(d) /\ UNCHANGED <<pc, dest>> /\ msg_list' = [msg_list EXCEPT ![d] = Append(@, p_free)]
  BY DEF irq_send
<1>1. \A q \in Proc : token[q] \in Nat /\ Cardinality(Giving(q)) \in Nat
  BY GivingFinite DEF UnitInv, WaitInv, SemTypes
<1>2. /\ SemTypes'
      /\ \A q \in Proc \ {d} : token'[q] = token[q] /\ (Blocked(q)' <=> Blocked(q))
      /\ ~Blocked(d)'
      /\ \/ ~Blocked(d) /\ token'[d] = token[d] + 1
         \/ Blocked(d) /\ token[d] = 0 /\ token'[d] = 0
  BY <1>0, VEffect DEF UnitInv, WaitInv
<1>3. WaitInv'
  BY <1>0, <1>2 DEF UnitInv, WaitInv
<1>4. Len(msg_list'[d]) = Len(msg_list[d]) + 1 /\ \A q \in Proc \ {d} : msg_list'[q] = msg_list[q]
  <2>1. Len(Append(msg_list[d], p_free)) = Len(msg_list[d]) + 1
    BY SMT, SeqAppend DEF ListTypes
  <2> QED
    BY <1>0, <2>1 DEF ListTypes
<1>5. \A q \in Proc : Giving(q)' = Giving(q)
  BY <1>0 DEF Giving
<1>6. Units(d)' = Units(d) + 1
  <2>1. CASE ~Blocked(d) /\ token'[d] = token[d] + 1
    <3>1. PastP(d)' <=> PastP(d)
      BY <1>0, <1>2, <2>1 DEF PastP
    <3> QED
      BY SMTT(30), <1>1, <1>5, <2>1, <3>1 DEF Units
  <2>2. CASE Blocked(d) /\ token[d] = 0 /\ token'[d] = 0
    <3>1. pc[d] \in {"take", "scan"}
      BY <2>2 DEF UnitInv, WaitInv
    <3>2. PastP(d)' /\ ~PastP(d)
      BY <1>0, <1>2, <2>2, <3>1 DEF PastP
    <3> QED
      BY SMTT(30), <1>1, <1>5, <2>2, <3>2 DEF Units
  <2> QED
    BY ZenonT(30), <1>2, <2>1, <2>2
<1>7. ASSUME NEW q \in Proc \ {d} PROVE Units(q)' = Units(q)
  <2>1. PastP(q)' <=> PastP(q)
    BY <1>0, <1>2 DEF PastP
  <2> QED
    BY <1>2, <1>5, <2>1 DEF Units
<1> QED
  BY <1>3, <1>4, <1>6, <1>7 DEF UnitInv

\* receive: P takes a unit of the semaphore, or waits without one.
LEMMA TakeUnits ==
    ASSUME UnitInv, NEW p \in Proc, receive_P(p)
    PROVE  UnitInv'
<1> DEFINE to == IF want[p] = ANY THEN "take" ELSE "scan"
<1>0. Step(p, "P", to) /\ (Take(p) \/ Wait(p, p)) /\ UNCHANGED <<msg_list, dest>>
  BY DEF receive_P, sendVars
<1>1. /\ pc[p] = "P" /\ pc'[p] \in {"take", "scan"} /\ pc' \in [Proc -> Label]
      /\ \A q \in Proc \ {p} : pc'[q] = pc[q]
      /\ ~Blocked(p)
  <2>1. to \in Label /\ to \in {"take", "scan"}
    BY DEF Label
  <2> HIDE DEF to
  <2> QED
    BY <1>0, <2>1, StepFacts DEF UnitInv
<1>2. /\ SemTypes'
      /\ \A q \in Proc \ {p} : token'[q] = token[q] /\ (Blocked(q)' <=> Blocked(q))
      /\ \/ token'[p] = token[p] - 1 /\ ~Blocked(p)'
         \/ token[p] = 0 /\ token'[p] = 0 /\ Blocked(p)'
  BY <1>0, <1>1, PEffect DEF UnitInv, WaitInv
<1>3. WaitInv'
  BY <1>0, <1>1, <1>2 DEF UnitInv, WaitInv
<1>4. \A q \in Proc : Giving(q)' = Giving(q)
  BY <1>0, <1>1 DEF Giving
<1>5. Units(p)' = Units(p)
  <2>1. ~PastP(p) /\ (PastP(p)' <=> ~Blocked(p)')
    BY <1>1 DEF PastP
  <2>2. token[p] \in Nat /\ Cardinality(Giving(p)) \in Nat
    BY GivingFinite DEF UnitInv, WaitInv, SemTypes
  <2> QED
    BY SMTT(30), <1>2, <1>4, <2>1, <2>2 DEF Units
<1>6. ASSUME NEW q \in Proc \ {p} PROVE Units(q)' = Units(q)
  <2>1. PastP(q)' <=> PastP(q)
    BY <1>1, <1>2 DEF PastP
  <2> QED
    BY <1>2, <1>4, <2>1 DEF Units
<1> QED
  BY <1>0, <1>3, <1>5, <1>6 DEF UnitInv

\* receive: the unit goes with the message.
LEMMA UnlinkUnits ==
    ASSUME UnitInv, ListTypes, NEW p \in Proc, NEW i \in 1..Len(msg_list[p]), Unlinks(p, i),
           Step(p, "take", "read") \/ Step(p, "scan", "read")
    PROVE  UnitInv'
<1>0. /\ msg_list' = [msg_list EXCEPT ![p] = RemoveAt(@, i)]
      /\ UNCHANGED <<token, waiters, dest>>
  BY DEF Unlinks
<1>1. /\ pc[p] \in {"take", "scan"} /\ pc'[p] = "read" /\ pc' \in [Proc -> Label]
      /\ \A q \in Proc \ {p} : pc'[q] = pc[q]
      /\ ~Blocked(p)
  <2>1. "read" \in Label
    BY DEF Label
  <2> QED
    BY <2>1, StepFacts DEF UnitInv
<1>2. SemTypes' /\ \A q \in Proc : Blocked(q)' <=> Blocked(q)
  BY <1>0 DEF UnitInv, WaitInv, SemTypes, Blocked
<1>3. WaitInv'
  BY <1>0, <1>1, <1>2 DEF UnitInv, WaitInv
<1>4. Len(msg_list'[p]) = Len(msg_list[p]) - 1 /\ \A q \in Proc \ {p} : msg_list'[q] = msg_list[q]
  <2>1. Len(RemoveAt(msg_list[p], i)) = Len(msg_list[p]) - 1
    BY RemoveAtProperties DEF ListTypes
  <2> QED
    BY <1>0, <2>1 DEF ListTypes
<1>5. \A q \in Proc : Giving(q)' = Giving(q)
  BY <1>0, <1>1 DEF Giving
<1>6. Units(p)' = Units(p) - 1
  <2>1. PastP(p) /\ ~PastP(p)'
    BY <1>1 DEF PastP
  <2>2. token[p] \in Nat /\ Cardinality(Giving(p)) \in Nat
    BY GivingFinite DEF UnitInv, WaitInv, SemTypes
  <2> QED
    BY SMTT(30), <1>0, <1>5, <2>1, <2>2 DEF Units
<1>7. ASSUME NEW q \in Proc \ {p} PROVE Units(q)' = Units(q)
  <2>1. PastP(q)' <=> PastP(q)
    BY <1>1, <1>2 DEF PastP
  <2> QED
    BY <1>0, <1>5, <2>1 DEF Units
<1> QED
  BY <1>3, <1>4, <1>6, <1>7 DEF UnitInv

\* receive: V gives the unit back when there is no message of the one asked for.
LEMMA AgainUnits ==
    ASSUME UnitInv, NEW p \in Proc, receive_again(p)
    PROVE  UnitInv'
<1>0. Step(p, "again", "hlt") /\ V(p) /\ UNCHANGED <<msg_list, dest>>
  BY DEF receive_again, sendVars
<1>1. /\ pc[p] = "again" /\ pc'[p] = "hlt" /\ pc' \in [Proc -> Label]
      /\ \A q \in Proc \ {p} : pc'[q] = pc[q]
      /\ ~Blocked(p)
  <2>1. "hlt" \in Label
    BY DEF Label
  <2> QED
    BY <1>0, <2>1, StepFacts DEF UnitInv
<1>2. /\ SemTypes'
      /\ \A q \in Proc \ {p} : token'[q] = token[q] /\ (Blocked(q)' <=> Blocked(q))
      /\ ~Blocked(p)' /\ token'[p] = token[p] + 1
  BY <1>0, <1>1, VEffect DEF UnitInv, WaitInv
<1>3. WaitInv'
  BY <1>0, <1>1, <1>2 DEF UnitInv, WaitInv
<1>4. \A q \in Proc : Giving(q)' = Giving(q)
  BY <1>0, <1>1 DEF Giving
<1>5. Units(p)' = Units(p)
  <2>1. PastP(p) /\ ~PastP(p)'
    BY <1>1 DEF PastP
  <2>2. token[p] \in Nat /\ Cardinality(Giving(p)) \in Nat
    BY GivingFinite DEF UnitInv, WaitInv, SemTypes
  <2> QED
    BY SMT, <1>2, <1>4, <2>1, <2>2 DEF Units
<1>6. ASSUME NEW q \in Proc \ {p} PROVE Units(q)' = Units(q)
  <2>1. PastP(q)' <=> PastP(q)
    BY <1>1, <1>2 DEF PastP
  <2> QED
    BY <1>2, <1>4, <2>1 DEF Units
<1> QED
  BY <1>0, <1>3, <1>5, <1>6 DEF UnitInv

-----------------------------------------------------------------------------
(* The lists and the ring                                                   *)

\* What is on the lists now was there before, or is slot e from sender x.
OneMore(e, x) ==
    \A q \in Proc : \A i \in DOMAIN msg_list'[q] :
       \/ i \in DOMAIN msg_list[q] /\ msg_list'[q][i] = msg_list[q][i] /\ sent'[q][i] = sent[q][i]
       \/ msg_list'[q][i] = e /\ sent'[q][i] = x

\* A message is put at the end of a list.
LEMMA LinkTypes ==
    ASSUME ListTypes, NEW d \in Proc, NEW e \in Slot, NEW x \in Src,
           msg_list' = [msg_list EXCEPT ![d] = Append(@, e)],
           sent' = [sent EXCEPT ![d] = Append(@, x)]
    PROVE  /\ ListTypes'
           /\ OneMore(e, x)
<1>1. /\ msg_list[d] \in Seq(Slot) /\ sent[d] \in Seq(Src) /\ Len(sent[d]) = Len(msg_list[d])
      /\ msg_list \in [Proc -> Seq(Slot)] /\ sent \in [Proc -> Seq(Src)]
  BY DEF ListTypes
<1>2. PICK l \in Seq(Slot) : l = Append(msg_list[d], e)
  BY <1>1, SeqAppend
<1>3. PICK t \in Seq(Src) : t = Append(sent[d], x)
  BY <1>1, SeqAppend
<1>4. /\ Len(l) = Len(msg_list[d]) + 1 /\ l[Len(msg_list[d]) + 1] = e
      /\ \A i \in 1..Len(msg_list[d]) : l[i] = msg_list[d][i]
  BY SMTT(30), <1>1, <1>2, SeqAppend
<1>5. /\ Len(t) = Len(msg_list[d]) + 1 /\ t[Len(msg_list[d]) + 1] = x
      /\ \A i \in 1..Len(msg_list[d]) : t[i] = sent[d][i]
  BY SMT, <1>1, <1>3, SeqAppend
<1>6. /\ msg_list' = [msg_list EXCEPT ![d] = l] /\ sent' = [sent EXCEPT ![d] = t]
  BY <1>2, <1>3
<1>7. ListTypes'
  BY SMT, <1>1, <1>4, <1>5, <1>6 DEF ListTypes
<1>8. Len(msg_list[d]) \in Nat /\ DOMAIN msg_list[d] = 1..Len(msg_list[d]) /\ DOMAIN l = 1..(Len(msg_list[d]) + 1)
  BY <1>1, <1>4, SeqLength
<1>9. ASSUME NEW i \in DOMAIN l
      PROVE  \/ i \in DOMAIN msg_list[d] /\ l[i] = msg_list[d][i] /\ t[i] = sent[d][i]
             \/ l[i] = e /\ t[i] = x
  <2>1. i \in 1..Len(msg_list[d]) \/ i = Len(msg_list[d]) + 1
    BY SMT, <1>8
  <2> QED
    BY <1>4, <1>5, <1>8, <2>1
<1>10. /\ msg_list'[d] = l /\ sent'[d] = t
       /\ \A q \in Proc \ {d} : msg_list'[q] = msg_list[q] /\ sent'[q] = sent[q]
  BY <1>1, <1>6
<1> QED
  BY <1>7, <1>9, <1>10 DEF OneMore

\* The message at place n is taken from the list of p.
LEMMA UnlinkTypes ==
    ASSUME ListTypes, NEW p \in Proc, NEW n \in 1..Len(msg_list[p]), Unlinks(p, n)
    PROVE  /\ ListTypes' /\ msg_list[p][n] \in Slot /\ sent[p][n] \in Src
           /\ n \in DOMAIN msg_list[p]
           /\ \A q \in Proc : \A i \in DOMAIN msg_list'[q] :
                 \E j \in DOMAIN msg_list[q] : msg_list'[q][i] = msg_list[q][j] /\ sent'[q][i] = sent[q][j]
<1>1. /\ msg_list[p] \in Seq(Slot) /\ sent[p] \in Seq(Src) /\ Len(sent[p]) = Len(msg_list[p])
      /\ msg_list \in [Proc -> Seq(Slot)] /\ sent \in [Proc -> Seq(Src)]
      /\ Len(msg_list[p]) \in Nat /\ DOMAIN msg_list[p] = 1..Len(msg_list[p])
  BY SeqLength DEF ListTypes
<1>2. PICK l \in Seq(Slot) : l = RemoveAt(msg_list[p], n)
  BY <1>1, RemoveAtProperties
<1>3. PICK t \in Seq(Src) : t = RemoveAt(sent[p], n)
  BY <1>1, RemoveAtProperties
<1>4. /\ Len(l) = Len(msg_list[p]) - 1
      /\ \A i \in 1..(Len(msg_list[p]) - 1) : l[i] = IF i < n THEN msg_list[p][i] ELSE msg_list[p][i + 1]
  BY <1>1, <1>2, RemoveAtProperties
<1>5. /\ Len(t) = Len(msg_list[p]) - 1
      /\ \A i \in 1..(Len(msg_list[p]) - 1) : t[i] = IF i < n THEN sent[p][i] ELSE sent[p][i + 1]
  BY SMT, <1>1, <1>3, RemoveAtProperties
<1>6. /\ msg_list' = [msg_list EXCEPT ![p] = l] /\ sent' = [sent EXCEPT ![p] = t]
  BY <1>2, <1>3 DEF Unlinks
<1>7. ListTypes'
  BY <1>1, <1>4, <1>5, <1>6 DEF ListTypes
<1>8. msg_list[p][n] \in Slot /\ sent[p][n] \in Src
  BY <1>1, SeqElement
<1>9. ASSUME NEW i \in DOMAIN l
      PROVE  \E j \in DOMAIN msg_list[p] : l[i] = msg_list[p][j] /\ t[i] = sent[p][j]
  <2>1. i \in 1..(Len(msg_list[p]) - 1)
    BY <1>4, SeqLength
  <2>2. CASE i < n
    <3>1. i \in DOMAIN msg_list[p]
      BY SMT, <1>1, <2>1
    <3>2. l[i] = msg_list[p][i] /\ t[i] = sent[p][i]
      BY <1>4, <1>5, <2>1, <2>2
    <3> QED
      BY <3>1, <3>2
  <2>3. CASE ~(i < n)
    <3>1. i + 1 \in DOMAIN msg_list[p]
      BY SMT, <1>1, <2>1
    <3>2. l[i] = msg_list[p][i + 1] /\ t[i] = sent[p][i + 1]
      BY <1>4, <1>5, <2>1, <2>3
    <3> QED
      BY <3>1, <3>2
  <2> QED
    BY <2>2, <2>3
<1>10. /\ msg_list'[p] = l /\ sent'[p] = t
       /\ \A q \in Proc \ {p} : msg_list'[q] = msg_list[q] /\ sent'[q] = sent[q]
  BY <1>1, <1>6
<1>11. ASSUME NEW q \in Proc, NEW i \in DOMAIN msg_list'[q]
       PROVE  \E j \in DOMAIN msg_list[q] : msg_list'[q][i] = msg_list[q][j] /\ sent'[q][i] = sent[q][j]
  <2>1. CASE q = p
    BY <1>9, <1>10, <2>1
  <2>2. CASE q # p
    <3>1. i \in DOMAIN msg_list[q] /\ msg_list'[q][i] = msg_list[q][i] /\ sent'[q][i] = sent[q][i]
      BY <1>10, <2>2
    <3> QED
      BY <3>1
  <2> QED
    BY <2>1, <2>2
<1>12. n \in DOMAIN msg_list[p]
  BY <1>1
<1> QED
  BY <1>7, <1>8, <1>11, <1>12

\* The next slot is the one that was linked longest ago.
LEMMA FreeIsOld ==
    ASSUME DataTypes, AgeInv
    PROVE  since[p_free] = MSG_POOL_SIZE
<1>1. MSG_POOL_SIZE \in Nat \ {0}
  BY MessageAssumption
<1>2. p_free \in 0..(MSG_POOL_SIZE - 1) /\ since[p_free] \in 1..MSG_POOL_SIZE
  BY DEF DataTypes, Slot
<1>3. since[p_free] < MSG_POOL_SIZE => p_free = Around(p_free + since[p_free])
  BY DEF AgeInv, DataTypes
<1> QED
  BY SMT, <1>1, <1>2, <1>3 DEF Around

\* One more send, and every slot is one place further from p_free.
LEMMA CountAges ==
    ASSUME DataTypes, AgeInv, Count(p_free), p_free' = Wrap(p_free + 1)
    PROVE  AgeInv' /\ since' \in [Slot -> 1..MSG_POOL_SIZE] /\ p_free' \in Slot
<1>1. MSG_POOL_SIZE \in Nat \ {0}
  BY MessageAssumption
<1>2. p_free \in Slot /\ since \in [Slot -> 1..MSG_POOL_SIZE]
  BY DEF DataTypes
<1>3. p_free' \in Slot
  BY SMT, <1>1, <1>2 DEF Wrap, Slot
<1>4. ASSUME NEW i \in Slot
      PROVE  /\ since'[i] \in 1..MSG_POOL_SIZE
             /\ since'[i] < MSG_POOL_SIZE => p_free' = Around(i + since'[i])
  <2>1. since'[i] = IF i = p_free THEN 1 ELSE IF since[i] = MSG_POOL_SIZE THEN since[i] ELSE since[i] + 1
    BY DEF Count
  <2>2. since[i] \in 1..MSG_POOL_SIZE /\ i \in 0..(MSG_POOL_SIZE - 1) /\ p_free \in 0..(MSG_POOL_SIZE - 1)
    BY <1>2 DEF Slot
  <2>3. CASE i = p_free
    BY SMTT(30), <1>1, <2>1, <2>2, <2>3 DEF Wrap, Around
  <2>4. CASE i # p_free /\ since[i] = MSG_POOL_SIZE
    BY SMTT(30), <1>1, <2>1, <2>2, <2>4
  <2>5. CASE i # p_free /\ since[i] # MSG_POOL_SIZE
    <3>1. since[i] < MSG_POOL_SIZE /\ since'[i] = since[i] + 1
      BY SMT, <1>1, <2>1, <2>2, <2>5
    <3>2. p_free = Around(i + since[i])
      BY <3>1 DEF AgeInv
    <3> QED
      BY SMTT(30), <1>1, <2>2, <3>1, <3>2 DEF Wrap, Around
  <2> QED
    BY <2>3, <2>4, <2>5
<1>5. since' \in [Slot -> 1..MSG_POOL_SIZE]
  BY <1>4 DEF Count
<1> QED
  BY <1>3, <1>4, <1>5 DEF AgeInv

\* A step that leaves the ring and the lists alone.
LEMMA QuietRing ==
    ASSUME WaitInv, DataTypes, ListTypes, RingInv,
           NEW p \in Proc, NEW from, NEW to \in Label, Step(p, from, to),
           {from, to} \cap {"copy", "link", "read"} = {},
           UNCHANGED <<msg_list, slot, msg_pool, p_free, sent, due, raced, since, lapped, corrupt>>,
           want' \in [Proc -> Src \cup {ANY}],
           \A q \in Proc \ {p} : want'[q] = want[q],
           to = "take" => want'[p] = ANY
    PROVE  DataTypes' /\ ListTypes' /\ RingInv'
<1>1. /\ pc[p] = from /\ pc'[p] = to /\ \A q \in Proc \ {p} : pc'[q] = pc[q]
  BY StepFacts
<1>2. \A q \in Proc : \A l \in {"copy", "link", "read"} : pc'[q] = l <=> pc[q] = l
  BY <1>1
<1>3. DataTypes' /\ ListTypes'
  BY DEF DataTypes, ListTypes
<1>4. AgeInv'
  BY DEF RingInv, AgeInv
<1>5. PickInv'
  BY <1>2 DEF RingInv, PickInv
<1>6. FreshInv'
  <2>1. ASSUME NEW i PROVE InUse(i)' <=> InUse(i)
    <3>1. Linked(i)' <=> Linked(i)
      BY DEF Linked
    <3>2. BeingRead(i)' <=> BeingRead(i)
      BY <1>2 DEF BeingRead
    <3> QED
      BY <3>1, <3>2 DEF InUse
  <2> QED
    BY <1>2, <2>1 DEF RingInv, FreshInv
<1>7. WantInv'
  BY <1>1 DEF RingInv, WantInv
<1>8. Delivered'
  <2>1. ASSUME NEW q \in Proc, Faithful(q) PROVE Faithful(q)'
    <3>1. pc'[q] = "read" => pc[q] = "read" /\ want'[q] = want[q]
      BY <1>1
    <3> QED
      BY <2>1, <3>1 DEF Faithful
  <2> QED
    BY <2>1 DEF RingInv, Delivered
<1> QED
  BY <1>3, <1>4, <1>5, <1>6, <1>7, <1>8 DEF RingInv

\* send, up to the copy
LEMMA SendRing ==
    ASSUME WaitInv, DataTypes, ListTypes, RingInv, NEW p \in Proc, NEW d \in Proc, send(p, d)
    PROVE  DataTypes' /\ ListTypes' /\ RingInv'
<1>0. /\ Step(p, "run", "copy") /\ slot' = [slot EXCEPT ![p] = p_free]
      /\ UNCHANGED <<msg_list, msg_pool, p_free, sent, want, due, raced, since, lapped, corrupt>>
  BY DEF send, recvVars, histVars
<1>1. /\ pc[p] = "run" /\ pc'[p] = "copy" /\ \A q \in Proc \ {p} : pc'[q] = pc[q]
  <2>1. "copy" \in Label
    BY DEF Label
  <2> QED
    BY <1>0, <2>1, StepFacts
<1>2. slot'[p] = p_free /\ \A q \in Proc \ {p} : slot'[q] = slot[q]
  BY <1>0 DEF DataTypes
<1>3. DataTypes' /\ ListTypes'
  BY <1>0 DEF DataTypes, ListTypes
<1>4. AgeInv'
  BY <1>0 DEF RingInv, AgeInv
<1>5. PickInv'
  BY <1>0, <1>1, <1>2 DEF RingInv, PickInv
<1>6. FreshInv'
  <2>1. ASSUME NEW i PROVE InUse(i)' <=> InUse(i)
    <3>1. Linked(i)' <=> Linked(i)
      BY <1>0 DEF Linked
    <3>2. BeingRead(i)' <=> BeingRead(i)
      BY <1>1, <1>2 DEF BeingRead
    <3> QED
      BY <3>1, <3>2 DEF InUse
  <2> QED
    BY <1>0, <1>1, <2>1 DEF RingInv, FreshInv
<1>7. WantInv'
  BY <1>0, <1>1 DEF RingInv, WantInv
<1>8. Delivered'
  <2>1. ASSUME NEW q \in Proc, Faithful(q) PROVE Faithful(q)'
    BY <1>0, <1>1, <1>2, <2>1 DEF Faithful
  <2> QED
    BY <1>0, <2>1 DEF RingInv, Delivered
<1> QED
  BY <1>3, <1>4, <1>5, <1>6, <1>7, <1>8 DEF RingInv

\* A slot that is not in use can be written.
LEMMA WriteUnused ==
    ASSUME NEW e, ~InUse(e), NEW q \in Proc
    PROVE  /\ \A i \in DOMAIN msg_list[q] : msg_list[q][i] # e
           /\ pc[q] = "read" => slot[q] # e
  BY DEF InUse, Linked, BeingRead, Range

\* send: the copy.  While no sends race, it goes to the slot after the newest.
LEMMA CopyRing ==
    ASSUME WaitInv, DataTypes, ListTypes, RingInv, NEW p \in Proc, send_copy(p)
    PROVE  DataTypes' /\ ListTypes' /\ RingInv'
<1>0. /\ Step(p, "copy", "link") /\ msg_pool' = [msg_pool EXCEPT ![slot[p]] = p]
      /\ corrupt' = Linked(slot[p]) /\ lapped' = (lapped \/ Laps(slot[p]))
      /\ UNCHANGED <<msg_list, slot, p_free, sent, want, due, raced, since>>
  BY DEF send_copy, recvVars
<1>1. /\ pc[p] = "copy" /\ pc'[p] = "link" /\ \A q \in Proc \ {p} : pc'[q] = pc[q]
      /\ ~corrupt
  <2>1. "link" \in Label
    BY DEF Label
  <2> QED
    BY <1>0, <2>1, StepFacts
<1>2. slot[p] \in Slot /\ msg_pool \in [Slot -> Src \cup {NoMsg}] /\ p \in Src /\ p_free \in Slot
  BY DEF DataTypes, Src
<1>3. DataTypes'
  <2>1. corrupt' \in BOOLEAN /\ lapped' \in BOOLEAN
    BY <1>0 DEF Linked, Laps
  <2>2. msg_pool' \in [Slot -> Src \cup {NoMsg}]
    BY <1>0, <1>2
  <2> QED
    BY <1>0, <2>1, <2>2 DEF DataTypes
<1>4. ListTypes' /\ AgeInv' /\ WantInv'
  BY <1>0, <1>1 DEF RingInv, ListTypes, AgeInv, WantInv
<1>5. PickInv'
  <2> SUFFICES ASSUME ~raced PROVE PickInv'
    BY <1>0 DEF PickInv
  <2>1. slot[p] = p_free
    BY <1>1 DEF RingInv, PickInv
  <2>2. msg_pool'[p_free] = p
    BY <1>0, <1>2, <2>1
  <2> QED
    BY <1>0, <1>1, <2>1, <2>2 DEF RingInv, PickInv
<1>6. ASSUME ~raced, ~lapped' PROVE slot[p] = p_free /\ ~InUse(p_free) /\ ~lapped
  <2>1. slot[p] = p_free
    BY <1>1, <1>6 DEF RingInv, PickInv
  <2>2. since[p_free] = MSG_POOL_SIZE
    BY FreeIsOld DEF RingInv
  <2>3. ~lapped /\ ~Laps(p_free)
    BY <1>0, <1>6, <2>1
  <2> QED
    BY <2>1, <2>2, <2>3 DEF Laps, InUse
<1>7. ASSUME NEW i PROVE InUse(i)' => InUse(i)
  <2>1. Linked(i)' <=> Linked(i)
    BY <1>0 DEF Linked
  <2>2. BeingRead(i)' => BeingRead(i)
    BY <1>0, <1>1 DEF BeingRead
  <2> QED
    BY <2>1, <2>2 DEF InUse
<1>8. FreshInv'
  BY <1>0, <1>6, <1>7 DEF FreshInv
<1>9. Delivered'
  <2> SUFFICES ASSUME ~raced, ~lapped' PROVE ~corrupt' /\ \A q \in Proc : Faithful(q)'
    BY <1>0 DEF Delivered
  <2>1. slot[p] = p_free /\ ~InUse(p_free) /\ ~lapped
    BY <1>6
  <2>2. ~corrupt'
    BY <1>0, <2>1 DEF InUse
  <2>3. ASSUME NEW q \in Proc PROVE Faithful(q)'
    <3>1. Faithful(q)
      BY <2>1 DEF RingInv, Delivered
    <3>2. /\ \A i \in DOMAIN msg_list[q] : msg_list[q][i] # p_free
          /\ pc[q] = "read" => slot[q] # p_free
      BY <2>1, WriteUnused
    <3>3. \A i \in DOMAIN msg_list[q] : msg_list[q][i] \in Slot
      BY SeqElement, SeqLength DEF ListTypes
    <3>4. \A e \in Slot \ {p_free} : msg_pool'[e] = msg_pool[e]
      BY <1>0, <1>2, <2>1
    <3>5. slot[q] \in Slot /\ (pc'[q] = "read" => pc[q] = "read")
      BY <1>1 DEF DataTypes
    <3> QED
      BY <1>0, <3>1, <3>2, <3>3, <3>4, <3>5 DEF Faithful
  <2> QED
    BY <2>2, <2>3
<1> QED
  BY <1>3, <1>4, <1>5, <1>8, <1>9 DEF RingInv

\* The process d has one message more, in a slot that was not in use.
LEMMA LinkFaithful ==
    ASSUME DataTypes, ListTypes, NEW d \in Proc, NEW x \in Src, ~InUse(p_free),
           msg_list' = [msg_list EXCEPT ![d] = Append(@, p_free)],
           sent' = [sent EXCEPT ![d] = Append(@, x)],
           msg_pool'[p_free] = x,
           \A e \in Slot \ {p_free} : msg_pool'[e] = msg_pool[e],
           NEW q \in Proc, Faithful(q),
           pc'[q] = "read" => pc[q] = "read" /\ slot'[q] = slot[q],
           UNCHANGED <<want, due>>
    PROVE  Faithful(q)'
<1>0. p_free \in Slot
  BY DEF DataTypes
<1>1. OneMore(p_free, x)
  BY <1>0, LinkTypes
<1>2. /\ \A i \in DOMAIN msg_list[q] : msg_list[q][i] # p_free
      /\ pc[q] = "read" => slot[q] # p_free
  BY WriteUnused
<1>3. \A i \in DOMAIN msg_list[q] : msg_list[q][i] \in Slot
  BY SeqElement, SeqLength DEF ListTypes
<1>4. slot[q] \in Slot
  BY DEF DataTypes
<1>5. \A i \in DOMAIN msg_list'[q] : msg_pool'[msg_list'[q][i]] = sent'[q][i]
  <2> SUFFICES ASSUME NEW i \in DOMAIN msg_list'[q]
               PROVE  msg_pool'[msg_list'[q][i]] = sent'[q][i]
    OBVIOUS
  <2>1. CASE i \in DOMAIN msg_list[q] /\ msg_list'[q][i] = msg_list[q][i] /\ sent'[q][i] = sent[q][i]
    <3>1. msg_pool[msg_list[q][i]] = sent[q][i]
      BY <2>1 DEF Faithful
    <3>2. msg_list[q][i] \in Slot \ {p_free}
      BY <1>2, <1>3, <2>1
    <3> QED
      BY <2>1, <3>1, <3>2
  <2>2. CASE msg_list'[q][i] = p_free /\ sent'[q][i] = x
    BY <2>2
  <2> QED
    BY <1>1, <2>1, <2>2 DEF OneMore
<1>6. pc'[q] = "read" => msg_pool'[slot'[q]] = due'[q] /\ want'[q] \in {ANY, due'[q]}
  BY <1>2, <1>4 DEF Faithful
<1> QED
  BY <1>5, <1>6 DEF Faithful

\* send: the link.  Alone between copy and link, a sender links its own copy.
LEMMA LinkRing ==
    ASSUME WaitInv, DataTypes, ListTypes, RingInv, NEW p \in Proc, send_link(p)
    PROVE  DataTypes' /\ ListTypes' /\ RingInv'
<1>d. PICK d \in Proc : d = dest[p]
  BY DEF WaitInv
<1>0. /\ Step(p, "link", "V") /\ msg_list' = [msg_list EXCEPT ![d] = Append(@, p_free)]
      /\ p_free' = Wrap(p_free + 1) /\ sent' = [sent EXCEPT ![d] = Append(@, p)]
      /\ raced' = (raced \/ OthersSending(p)) /\ corrupt' = Linked(p_free)
      /\ Count(p_free) /\ slot' = [slot EXCEPT ![p] = 0]
      /\ UNCHANGED <<msg_pool, want, due, lapped>>
  BY <1>d DEF send_link, LinkSlot, recvVars
<1>1. /\ pc[p] = "link" /\ pc'[p] = "V" /\ \A q \in Proc \ {p} : pc'[q] = pc[q]
      /\ ~corrupt
  <2>1. "V" \in Label
    BY DEF Label
  <2> QED
    BY <1>0, <2>1, StepFacts
<1>2. p \in Src /\ p_free \in Slot /\ slot \in [Proc -> Slot]
  BY DEF DataTypes, Src
<1>3. ListTypes'
  BY <1>0, <1>2, LinkTypes
<1>4. AgeInv' /\ since' \in [Slot -> 1..MSG_POOL_SIZE] /\ p_free' \in Slot
  BY <1>0, CountAges DEF RingInv
<1>5. DataTypes'
  <2>1. corrupt' \in BOOLEAN /\ raced' \in BOOLEAN
    BY <1>0 DEF Linked, OthersSending
  <2>2. 0 \in Slot
    BY SMT, MessageAssumption DEF Slot
  <2>3. slot' \in [Proc -> Slot]
    BY <1>0, <1>2, <2>2
  <2> QED
    BY <1>0, <1>4, <2>1, <2>3 DEF DataTypes
<1>6. WantInv'
  BY <1>0, <1>1 DEF RingInv, WantInv
<1>7. ASSUME ~raced' PROVE ~raced /\ \A q \in Proc : pc'[q] \notin {"copy", "link"}
  BY <1>0, <1>1, <1>7 DEF OthersSending
<1>8. PickInv' /\ FreshInv'
  BY <1>7 DEF PickInv, FreshInv
<1>9. Delivered'
  <2> SUFFICES ASSUME ~raced', ~lapped' PROVE ~corrupt' /\ \A q \in Proc : Faithful(q)'
    BY DEF Delivered
  <2>1. ~raced /\ ~lapped /\ \A q \in Proc \ {p} : pc[q] \notin {"copy", "link"}
    BY <1>0, <1>1, <1>7
  <2>2. msg_pool[p_free] = p
    BY <1>1, <2>1 DEF RingInv, PickInv
  <2>3. ~InUse(p_free)
    BY <1>1, <2>1 DEF RingInv, FreshInv
  <2>4. ~corrupt'
    BY <1>0, <2>3 DEF InUse
  <2>5. ASSUME NEW q \in Proc PROVE Faithful(q)'
    <3>1. Faithful(q)
      BY <2>1 DEF RingInv, Delivered
    <3>2. pc'[q] = "read" => pc[q] = "read" /\ slot'[q] = slot[q]
      BY <1>0, <1>1, <1>2
    <3> QED
      BY <1>0, <1>2, <2>2, <2>3, <3>1, <3>2, LinkFaithful
  <2> QED
    BY <2>4, <2>5
<1> QED
  BY <1>3, <1>4, <1>5, <1>6, <1>8, <1>9 DEF RingInv

\* send by an interrupt handler: copy and link in one step
LEMMA IrqRing ==
    ASSUME WaitInv, DataTypes, ListTypes, RingInv, NEW d \in Proc, irq_send(d)
    PROVE  DataTypes' /\ ListTypes' /\ RingInv'
<1>0. /\ msg_pool' = [msg_pool EXCEPT ![p_free] = HARD_INTR]
      /\ msg_list' = [msg_list EXCEPT ![d] = Append(@, p_free)]
      /\ p_free' = Wrap(p_free + 1) /\ sent' = [sent EXCEPT ![d] = Append(@, HARD_INTR)]
      /\ raced' = (raced \/ \E q \in Proc : pc[q] \in {"copy", "link"})
      /\ lapped' = (lapped \/ Laps(p_free)) /\ corrupt' = Linked(p_free)
      /\ Count(p_free) /\ UNCHANGED <<pc, slot, want, due>>
  BY DEF irq_send, recvVars
<1>1. /\ HARD_INTR \in Src /\ p_free \in Slot
      /\ msg_pool \in [Slot -> Src \cup {NoMsg}]
  BY DEF DataTypes, Src
<1>2. ListTypes'
  BY <1>0, <1>1, LinkTypes
<1>3. AgeInv' /\ since' \in [Slot -> 1..MSG_POOL_SIZE] /\ p_free' \in Slot
  BY <1>0, CountAges DEF RingInv
<1>4. DataTypes'
  <2>1. corrupt' \in BOOLEAN /\ raced' \in BOOLEAN /\ lapped' \in BOOLEAN
    BY <1>0 DEF Linked, Laps
  <2>2. msg_pool' \in [Slot -> Src \cup {NoMsg}]
    BY <1>0, <1>1
  <2> QED
    BY <1>0, <1>3, <2>1, <2>2 DEF DataTypes
<1>5. WantInv'
  BY <1>0 DEF RingInv, WantInv
<1>6. PickInv' /\ FreshInv'
  BY <1>0 DEF PickInv, FreshInv
<1>7. Delivered'
  <2> SUFFICES ASSUME ~raced', ~lapped' PROVE ~corrupt' /\ \A q \in Proc : Faithful(q)'
    BY DEF Delivered
  <2>1. ~raced /\ ~lapped /\ ~Laps(p_free)
    BY <1>0
  <2>2. since[p_free] = MSG_POOL_SIZE
    BY FreeIsOld DEF RingInv
  <2>3. ~InUse(p_free)
    BY <2>1, <2>2 DEF Laps, InUse
  <2>4. ~corrupt'
    BY <1>0, <2>3 DEF InUse
  <2>5. msg_pool'[p_free] = HARD_INTR /\ \A e \in Slot \ {p_free} : msg_pool'[e] = msg_pool[e]
    BY <1>0, <1>1
  <2>6. ASSUME NEW q \in Proc PROVE Faithful(q)'
    <3>1. Faithful(q)
      BY <2>1 DEF RingInv, Delivered
    <3>2. pc'[q] = "read" => pc[q] = "read" /\ slot'[q] = slot[q]
      BY <1>0
    <3> QED
      BY <1>0, <1>1, <2>3, <2>5, <3>1, <3>2, LinkFaithful
  <2> QED
    BY <2>4, <2>6
<1> QED
  BY <1>2, <1>3, <1>4, <1>5, <1>6, <1>7 DEF RingInv

\* receive: the message p is to read keeps its slot and its sender.
LEMMA UnlinkRing ==
    ASSUME WaitInv, DataTypes, ListTypes, RingInv,
           NEW p \in Proc, NEW n \in 1..Len(msg_list[p]), Unlinks(p, n),
           \/ Step(p, "take", "read")
           \/ Step(p, "scan", "read") /\ msg_pool[msg_list[p][n]] = want[p]
    PROVE  DataTypes' /\ ListTypes' /\ RingInv'
<1>0. /\ slot' = [slot EXCEPT ![p] = msg_list[p][n]] /\ due' = [due EXCEPT ![p] = sent[p][n]]
      /\ UNCHANGED <<msg_pool, p_free, want, raced, since, lapped, corrupt>>
  BY DEF Unlinks, histVars
<1>1. /\ pc[p] \in {"take", "scan"} /\ pc'[p] = "read"
      /\ \A q \in Proc \ {p} : pc'[q] = pc[q]
      /\ pc[p] = "scan" => msg_pool[msg_list[p][n]] = want[p]
  <2>1. "read" \in Label
    BY DEF Label
  <2> QED
    BY SMT, <2>1, StepFacts
<1>2. /\ ListTypes' /\ msg_list[p][n] \in Slot /\ sent[p][n] \in Src
      /\ n \in DOMAIN msg_list[p]
      /\ \A q \in Proc : \A i \in DOMAIN msg_list'[q] :
            \E j \in DOMAIN msg_list[q] : msg_list'[q][i] = msg_list[q][j] /\ sent'[q][i] = sent[q][j]
  BY UnlinkTypes
<1>3. /\ slot'[p] = msg_list[p][n] /\ due'[p] = sent[p][n]
      /\ \A q \in Proc \ {p} : slot'[q] = slot[q] /\ due'[q] = due[q]
      /\ DataTypes'
  BY <1>0, <1>2 DEF DataTypes
<1>4. AgeInv' /\ WantInv'
  BY <1>0, <1>1 DEF RingInv, AgeInv, WantInv
<1>5. PickInv'
  BY <1>0, <1>1, <1>3 DEF RingInv, PickInv
<1>6. ASSUME NEW i PROVE InUse(i)' => InUse(i)
  <2>1. ASSUME Linked(i)' PROVE Linked(i)
    <3>1. PICK q \in Proc : i \in Range(msg_list'[q])
      BY ZenonT(30), <2>1 DEF Linked
    <3>2. i \in Range(msg_list[q])
      BY SMT, <1>2, <3>1 DEF Range
    <3> QED
      BY <3>2 DEF Linked
  <2>2. ASSUME BeingRead(i)' PROVE InUse(i)
    <3>1. PICK q \in Proc : pc'[q] = "read" /\ slot'[q] = i
      BY <2>2 DEF BeingRead
    <3>2. CASE q = p
      <4>1. i \in Range(msg_list[p])
        BY <1>2, <1>3, <3>1, <3>2 DEF Range
      <4> QED
        BY <4>1 DEF InUse, Linked
    <3>3. CASE q # p
      BY <1>1, <1>3, <3>1, <3>3 DEF InUse, BeingRead
    <3> QED
      BY <3>2, <3>3
  <2> QED
    BY <2>1, <2>2 DEF InUse
<1>7. FreshInv'
  BY <1>0, <1>1, <1>6 DEF RingInv, FreshInv
<1>8. Delivered'
  <2> SUFFICES ASSUME ~raced, ~lapped PROVE ~corrupt' /\ \A q \in Proc : Faithful(q)'
    BY <1>0 DEF Delivered
  <2>1. ~corrupt /\ \A q \in Proc : Faithful(q)
    BY DEF RingInv, Delivered
  <2>2. ASSUME NEW q \in Proc PROVE Faithful(q)'
    <3>1. ASSUME NEW i \in DOMAIN msg_list'[q] PROVE msg_pool'[msg_list'[q][i]] = sent'[q][i]
      <4>1. PICK j \in DOMAIN msg_list[q] : msg_list'[q][i] = msg_list[q][j] /\ sent'[q][i] = sent[q][j]
        BY <1>2
      <4>2. msg_pool[msg_list[q][j]] = sent[q][j]
        BY <2>1 DEF Faithful
      <4> QED
        BY <1>0, <4>1, <4>2
    <3>2. ASSUME pc'[q] = "read"
          PROVE  msg_pool'[slot'[q]] = due'[q] /\ want'[q] \in {ANY, due'[q]}
      <4>1. CASE q = p
        <5>1. msg_pool[msg_list[p][n]] = sent[p][n]
          BY <1>2, <2>1 DEF Faithful
        <5>2. want[p] \in {ANY, sent[p][n]}
          BY <1>1, <5>1 DEF RingInv, WantInv
        <5> QED
          BY <1>0, <1>3, <4>1, <5>1, <5>2
      <4>2. CASE q # p
        BY <1>0, <1>1, <1>3, <2>1, <3>2, <4>2 DEF Faithful
      <4> QED
        BY <4>1, <4>2
    <3> QED
      BY <3>1, <3>2 DEF Faithful
  <2> QED
    BY <1>0, <2>1, <2>2
<1> QED
  BY <1>2, <1>3, <1>4, <1>5, <1>7, <1>8 DEF RingInv

\* receive: the last copy, and the return
LEMMA ReadRing ==
    ASSUME WaitInv, DataTypes, ListTypes, RingInv, NEW p \in Proc, receive_read(p)
    PROVE  DataTypes' /\ ListTypes' /\ RingInv'
<1>0. /\ Step(p, "read", "run") /\ slot' = [slot EXCEPT ![p] = 0]
      /\ want' = [want EXCEPT ![p] = ANY] /\ due' = [due EXCEPT ![p] = NoMsg]
      /\ UNCHANGED <<msg_list, msg_pool, p_free, sent, raced, since, lapped, corrupt>>
  BY DEF receive_read, sendVars, histVars
<1>1. /\ pc[p] = "read" /\ pc'[p] = "run" /\ \A q \in Proc \ {p} : pc'[q] = pc[q]
  <2>1. "run" \in Label
    BY DEF Label
  <2> QED
    BY <1>0, <2>1, StepFacts
<1>2. 0 \in Slot
  BY SMT, MessageAssumption DEF Slot
<1>3. /\ \A q \in Proc \ {p} : slot'[q] = slot[q] /\ due'[q] = due[q] /\ want'[q] = want[q]
      /\ DataTypes' /\ ListTypes'
  BY <1>0, <1>2 DEF DataTypes, ListTypes
<1>4. AgeInv' /\ WantInv'
  BY <1>0, <1>1, <1>3 DEF RingInv, AgeInv, WantInv
<1>5. PickInv'
  BY <1>0, <1>1, <1>3 DEF RingInv, PickInv
<1>6. ASSUME NEW i PROVE InUse(i)' => InUse(i)
  <2>1. Linked(i)' <=> Linked(i)
    BY <1>0 DEF Linked
  <2>2. BeingRead(i)' => BeingRead(i)
    BY <1>1, <1>3 DEF BeingRead
  <2> QED
    BY <2>1, <2>2 DEF InUse
<1>7. FreshInv'
  BY <1>0, <1>1, <1>6 DEF RingInv, FreshInv
<1>8. Delivered'
  <2>1. ASSUME NEW q \in Proc, Faithful(q) PROVE Faithful(q)'
    BY <1>0, <1>1, <1>3, <2>1 DEF Faithful
  <2> QED
    BY <1>0, <2>1 DEF RingInv, Delivered
<1> QED
  BY <1>3, <1>4, <1>5, <1>7, <1>8 DEF RingInv

-----------------------------------------------------------------------------
(* The theorems                                                             *)

MessageInv == ListTypes /\ DataTypes /\ UnitInv /\ RingInv

\* No messages and no senders at the start.
LEMMA MessageInit == Init => MessageInv
<1> SUFFICES ASSUME Init PROVE MessageInv
  OBVIOUS
<1> USE DEF Init
<1>1. 0 \in Slot /\ MSG_POOL_SIZE \in 1..MSG_POOL_SIZE
  BY SMT, MessageAssumption DEF Slot
<1>2. token = [p \in Proc |-> 0] /\ waiters = [p \in Proc |-> <<>>]
  BY DEF SemInit
<1>3. ASSUME NEW S PROVE <<>> \in Seq(S)
  BY SMT
<1>4. Len(<<>>) = 0 /\ DOMAIN <<>> = {}
  BY SMT
<1>5. ListTypes
  <2>1. \A p \in Proc : msg_list[p] = <<>> /\ sent[p] = <<>>
    OBVIOUS
  <2>2. msg_list \in [Proc -> Seq(Slot)] /\ sent \in [Proc -> Seq(Src)]
    BY <1>3
  <2> QED
    BY <2>1, <2>2 DEF ListTypes
<1>6. DataTypes
  BY <1>1 DEF DataTypes
<1>7. SemTypes /\ \A p \in Proc : ~Blocked(p)
  <2>1. waiters \in [Proc -> Seq(Proc)]
    BY <1>2, <1>3
  <2>2. \A p \in Proc : waiters[p] = <<>> /\ <<>> # <<p>>
    BY <1>2
  <2> QED
    BY <1>2, <2>1, <2>2 DEF SemTypes, Blocked
<1>8. WaitInv
  BY <1>7 DEF WaitInv, Label
<1>9. ASSUME NEW p \in Proc PROVE Len(msg_list[p]) = Units(p)
  <2>1. Giving(p) = {} /\ ~PastP(p) /\ token[p] = 0
    BY <1>2 DEF Giving, PastP
  <2>2. Cardinality(Giving(p)) = 0
    BY <2>1, FS_EmptySet
  <2>3. msg_list[p] = <<>>
    OBVIOUS
  <2> QED
    BY SMTT(30), <1>4, <2>1, <2>2, <2>3 DEF Units
<1>10. AgeInv
  BY SMT, MessageAssumption DEF AgeInv
<1>11. PickInv /\ FreshInv /\ WantInv
  BY DEF PickInv, FreshInv, WantInv
<1>12. Delivered
  <2>1. \A p \in Proc : msg_list[p] = <<>> /\ pc[p] = "run"
    OBVIOUS
  <2>2. ASSUME NEW p \in Proc PROVE Faithful(p)
    BY <1>4, <2>1 DEF Faithful
  <2> QED
    BY <2>2 DEF Delivered
<1> QED
  BY <1>5, <1>6, <1>8, <1>9, <1>10, <1>11, <1>12 DEF MessageInv, UnitInv, RingInv

\* The steps that leave the lists, the ring and the semaphores alone.
LEMMA QuietSteps ==
    ASSUME MessageInv, NEW p \in Proc,
           \/ \E src \in Src \cup {ANY} : receive(p, src)
           \/ receive_none(p) \/ wait_intr(p)
    PROVE  MessageInv'
<1>0. WaitInv /\ UnitInv /\ ListTypes /\ DataTypes /\ RingInv
  BY DEF MessageInv, UnitInv
<1>1. ASSUME NEW src \in Src \cup {ANY}, receive(p, src) PROVE MessageInv'
  <2>1. /\ Step(p, "run", "P") /\ want' = [want EXCEPT ![p] = src] /\ UNCHANGED <<token, waiters, msg_list>>
        /\ UNCHANGED <<msg_list, slot, msg_pool, p_free, sent, due, raced, since, lapped, corrupt>>
        /\ dest' = dest
    BY <1>1 DEF receive, sendVars, histVars
  <2>2. /\ "P" \in Label /\ QuietLabel("run", "P") /\ {"run", "P"} \cap {"copy", "link", "read"} = {}
    BY DEF Label, QuietLabel
  <2>3. UnitInv'
    BY <1>0, <2>1, <2>2, QuietUnits DEF WaitInv
  <2>4. want' \in [Proc -> Src \cup {ANY}] /\ \A q \in Proc \ {p} : want'[q] = want[q]
    BY <1>0, <2>1 DEF DataTypes
  <2>5. DataTypes' /\ ListTypes' /\ RingInv'
    BY <1>0, <2>1, <2>2, <2>4, QuietRing
  <2> QED
    BY <2>3, <2>5 DEF MessageInv
<1>2. ASSUME NEW from, NEW to \in Label, Step(p, from, to), QuietLabel(from, to), to # "take",
             {from, to} \cap {"copy", "link", "read"} = {},
             UNCHANGED <<token, waiters, msg_list, slot, sendVars, recvVars, histVars>>
      PROVE  MessageInv'
  <2>1. /\ UNCHANGED <<token, waiters, msg_list>> /\ dest' = dest /\ want' = want
        /\ UNCHANGED <<msg_list, slot, msg_pool, p_free, sent, due, raced, since, lapped, corrupt>>
    BY <1>2 DEF sendVars, recvVars, histVars
  <2>2. UnitInv'
    BY <1>0, <1>2, <2>1, QuietUnits DEF WaitInv
  <2>3. want' \in [Proc -> Src \cup {ANY}]
    BY <1>0, <2>1 DEF DataTypes
  <2>4. DataTypes' /\ ListTypes' /\ RingInv'
    BY <1>0, <1>2, <2>1, <2>3, QuietRing
  <2> QED
    BY <2>2, <2>4 DEF MessageInv
<1>3. CASE receive_none(p)
  <2>1. "again" \in Label /\ QuietLabel("scan", "again") /\ {"scan", "again"} \cap {"copy", "link", "read"} = {}
    BY DEF Label, QuietLabel
  <2> QED
    BY <1>2, <1>3, <2>1 DEF receive_none
<1>4. CASE wait_intr(p)
  <2>1. "P" \in Label /\ QuietLabel("hlt", "P") /\ {"hlt", "P"} \cap {"copy", "link", "read"} = {}
    BY DEF Label, QuietLabel
  <2> QED
    BY <1>2, <1>4, <2>1 DEF wait_intr
<1> QED
  BY <1>1, <1>3, <1>4

\* P and V leave the lists and the ring alone.
LEMMA SemSteps ==
    ASSUME MessageInv, NEW p \in Proc, send_V(p) \/ receive_P(p) \/ receive_again(p)
    PROVE  MessageInv'
<1>0. WaitInv /\ UnitInv /\ ListTypes /\ DataTypes /\ RingInv
  BY DEF MessageInv, UnitInv
<1>1. ASSUME NEW from, NEW to \in Label, Step(p, from, to), to = "take" => want[p] = ANY,
             {from, to} \cap {"copy", "link", "read"} = {},
             UNCHANGED <<msg_list, slot, msg_pool, p_free, sent, recvVars, histVars>>
      PROVE  DataTypes' /\ ListTypes' /\ RingInv'
  <2>1. /\ UNCHANGED <<msg_list, slot, msg_pool, p_free, sent, due, raced, since, lapped, corrupt>>
        /\ want' = want
    BY <1>1 DEF recvVars, histVars
  <2>2. want' \in [Proc -> Src \cup {ANY}]
    BY <1>0, <2>1 DEF DataTypes
  <2> QED
    BY <1>0, <1>1, <2>1, <2>2, QuietRing
<1>2. CASE send_V(p)
  <2>1. UnitInv'
    BY <1>0, <1>2, GiveUnits
  <2>2. "run" \in Label /\ {"V", "run"} \cap {"copy", "link", "read"} = {}
    BY DEF Label
  <2> QED
    BY <1>1, <1>2, <2>1, <2>2 DEF send_V, MessageInv
<1>3. CASE receive_P(p)
  <2>1. UnitInv'
    BY <1>0, <1>3, TakeUnits
  <2>2. PICK to \in {"take", "scan"} : Step(p, "P", to) /\ (to = "take" => want[p] = ANY)
    BY <1>3 DEF receive_P
  <2>3. to \in Label /\ {"P", to} \cap {"copy", "link", "read"} = {}
    BY DEF Label
  <2> QED
    BY <1>1, <1>3, <2>1, <2>2, <2>3 DEF receive_P, sendVars, MessageInv
<1>4. CASE receive_again(p)
  <2>1. UnitInv'
    BY <1>0, <1>4, AgainUnits
  <2>2. "hlt" \in Label /\ {"again", "hlt"} \cap {"copy", "link", "read"} = {}
    BY DEF Label
  <2> QED
    BY <1>1, <1>4, <2>1, <2>2 DEF receive_again, sendVars, MessageInv
<1> QED
  BY <1>2, <1>3, <1>4

\* Every step of send and receive keeps the invariant.
LEMMA MessageStep == MessageInv /\ [Next]_vars => MessageInv'
<1> SUFFICES ASSUME MessageInv, [Next]_vars PROVE MessageInv'
  OBVIOUS
<1>0. /\ WaitInv /\ UnitInv /\ ListTypes /\ DataTypes /\ RingInv
      /\ p_free \in Slot
  BY DEF MessageInv, UnitInv, DataTypes
<1>1. ASSUME NEW p \in Proc, NEW d \in Proc, send(p, d) PROVE MessageInv'
  <2>1. /\ Step(p, "run", "copy") /\ dest' = [dest EXCEPT ![p] = d] /\ UNCHANGED <<token, waiters, msg_list>>
    BY <1>1 DEF send
  <2>2. "copy" \in Label /\ QuietLabel("run", "copy")
    BY DEF Label, QuietLabel
  <2>3. dest' \in [Proc -> Proc] /\ \A q \in Proc \ {p} : dest'[q] = dest[q]
    BY <1>0, <2>1 DEF WaitInv
  <2>4. UnitInv'
    BY <1>0, <2>1, <2>2, <2>3, QuietUnits
  <2> QED
    BY <1>0, <1>1, <2>4, SendRing DEF MessageInv
<1>2. ASSUME NEW p \in Proc, send_copy(p) PROVE MessageInv'
  <2>1. /\ Step(p, "copy", "link") /\ dest' = dest /\ UNCHANGED <<token, waiters, msg_list>>
    BY <1>2 DEF send_copy
  <2>2. "link" \in Label /\ QuietLabel("copy", "link")
    BY DEF Label, QuietLabel
  <2>3. UnitInv'
    BY <1>0, <2>1, <2>2, QuietUnits DEF WaitInv
  <2> QED
    BY <1>0, <1>2, <2>3, CopyRing DEF MessageInv
<1>3. ASSUME NEW p \in Proc, send_link(p) PROVE MessageInv'
  BY <1>0, <1>3, LinkUnits, LinkRing DEF MessageInv
<1>4. ASSUME NEW p \in Proc, receive_take(p) PROVE MessageInv'
  <2>1. Step(p, "take", "read") /\ msg_list[p] # <<>> /\ Unlinks(p, 1)
    BY <1>4 DEF receive_take
  <2>2. 1 \in 1..Len(msg_list[p])
    BY <1>0, <2>1, HeadInRange DEF ListTypes
  <2> QED
    BY <1>0, <2>1, <2>2, UnlinkUnits, UnlinkRing DEF MessageInv
<1>5. ASSUME NEW p \in Proc, receive_found(p) PROVE MessageInv'
  <2>1. PICK i \in From(p) : Step(p, "scan", "read") /\ Unlinks(p, i)
    BY <1>5 DEF receive_found
  <2>2. i \in DOMAIN msg_list[p] /\ msg_pool[msg_list[p][i]] = want[p]
    BY DEF From
  <2>3. i \in 1..Len(msg_list[p])
    BY <1>0, <2>2, SeqLength DEF ListTypes
  <2> QED
    BY <1>0, <2>1, <2>2, <2>3, UnlinkUnits, UnlinkRing DEF MessageInv
<1>6. ASSUME NEW p \in Proc, receive_read(p) PROVE MessageInv'
  <2>1. /\ Step(p, "read", "run") /\ dest' = dest /\ UNCHANGED <<token, waiters, msg_list>>
    BY <1>6 DEF receive_read, sendVars
  <2>2. "run" \in Label /\ QuietLabel("read", "run")
    BY DEF Label, QuietLabel
  <2>3. UnitInv'
    BY <1>0, <2>1, <2>2, QuietUnits DEF WaitInv
  <2> QED
    BY <1>0, <1>6, <2>3, ReadRing DEF MessageInv
<1>7. ASSUME NEW d \in Driver, irq_send(d) PROVE MessageInv'
  <2>1. d \in Proc
    BY MessageAssumption
  <2> QED
    BY <1>0, <1>7, <2>1, IrqUnits, IrqRing DEF MessageInv
<1>8. CASE UNCHANGED vars
  <2>1. UNCHANGED <<token, waiters, msg_list, pc, slot, msg_pool, p_free, dest, sent, want, due,
                    raced, since, lapped, corrupt>>
    BY <1>8 DEF vars, sendVars, recvVars, histVars
  <2>2. ListTypes' /\ DataTypes'
    BY <1>0, <2>1 DEF ListTypes, DataTypes
  <2>3. UnitInv'
    BY <1>0, <2>1 DEF UnitInv, WaitInv, SemTypes, Blocked, Units, PastP, Giving
  <2>4. AgeInv' /\ PickInv' /\ WantInv'
    BY <1>0, <2>1 DEF RingInv, AgeInv, PickInv, WantInv
  <2>5. FreshInv' /\ Delivered'
    BY <1>0, <2>1 DEF RingInv, FreshInv, Delivered, Faithful, InUse, Linked, BeingRead
  <2> QED
    BY <2>2, <2>3, <2>4, <2>5 DEF MessageInv, RingInv
<1>9. CASE Next
  <2>1. ASSUME NEW p \in Proc, MsgCall(p) PROVE MessageInv'
    BY <1>1, <2>1, QuietSteps DEF MsgCall
  <2>2. ASSUME NEW p \in Proc, MsgStep(p) PROVE MessageInv'
    BY <1>2, <1>3, <1>4, <1>5, <1>6, <2>2, QuietSteps, SemSteps DEF MsgStep
  <2> QED
    BY <1>7, <1>8, <1>9, <2>1, <2>2 DEF Next, Corrupted
<1> QED
  BY <1>8, <1>9

\* The invariant of send and receive.
LEMMA MessageInvariant == Spec => []MessageInv
  BY MessageInit, MessageStep, PTL DEF Spec

\* The semaphore of every process counts the messages on its list, however the
\* sends of processes and handlers, P, V and the search of receive interleave:
\* for any number of processes and any size of the pool.
THEOREM UnitsMatchMessagesHolds == Spec => []UnitsMatchMessages
<1>1. MessageInv => UnitsMatchMessages
  <2> SUFFICES ASSUME MessageInv, NEW p \in Proc
               PROVE  Len(msg_list[p]) = token[p] + (IF HasUnit(p) THEN 1 ELSE 0)
                          + Cardinality({q \in Proc : pc[q] = "V" /\ dest[q] = p})
    BY DEF UnitsMatchMessages
  <2>1. SemTypes /\ Len(msg_list[p]) = Units(p)
    BY DEF MessageInv, UnitInv, WaitInv
  <2>2. HasUnit(p) <=> PastP(p)
    BY <2>1, WaitsForOwn DEF HasUnit, PastP
  <2> QED
    BY <2>1, <2>2 DEF Units, Giving
<1> QED
  BY <1>1, MessageInvariant, PTL

\* receive gets the messages as they were sent, in order and from whom it asked,
\* unless a send ran between another's copy and link, or the ring was lapped:
\* the two are the only ways the code can deliver something else.
THEOREM DeliveredAsSentHolds == Spec => []DeliveredAsSent
<1>1. MessageInv => DeliveredAsSent
  BY DEF MessageInv, RingInv, Delivered, Faithful, DeliveredAsSent, Received
<1> QED
  BY <1>1, MessageInvariant, PTL
=============================================================================

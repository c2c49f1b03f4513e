------------------------------- MODULE Timer -------------------------------
(***************************************************************************)
(* The alarms of the timer driver (src/src/kernel/drivers/timer/timer.c):  *)
(* a thread with a table of NR_TIMER alarms and a bit mask of those in     *)
(* use, a mailbox it shares with the handler of the timer's interrupt, and *)
(* clients that ask for an alarm and wait for it, as test_timer (main.c)   *)
(* does.  timer[t].expire is kept as the ticks still missing to it, so     *)
(* that jiffy itself need not be bounded.                                  *)
(***************************************************************************)
EXTENDS Integers, Sequences, FiniteSets, Functions, FiniteSetsExt

CONSTANTS Client, Nobody,
          NR_TIMER,   \* 32, the bits of timer_active
          HZ,         \* ticks per second
          MaxSec,     \* bound: the longest alarm a client asks for
          MaxPending  \* bound: UPDATE_TIMER messages in the mailbox

ASSUME TimerAssumption ==
    /\ {NR_TIMER, HZ} \subseteq Nat \ {0}
    /\ MaxSec \in Nat /\ MaxPending \in Nat
    /\ Nobody \notin Client /\ "UPDATE_TIMER" \notin Client

TimerId == 0..(NR_TIMER - 1)

VARIABLES
    timer_active, \* the alarms in use
    expire,       \* timer[].expire - jiffy, or 0 once that is past
    pid,          \* timer[].pid
    inbox,        \* the messages waiting for the driver
    sec,          \* what each client asked for (m.i[0])
    state,        \* each client: "idle", "waiting", or "rung": TIME_UP is in its mailbox
    owed,         \* history: ticks from a client's request until its time is up
    driver_pc, t,        \* where the driver is, and run_timers' position in the table
    panic         \* assert(i<32) in set_timer

tableVars == <<timer_active, expire, pid>>
timerVars == <<timer_active, expire, pid, inbox, sec, state, owed, driver_pc, t, panic>>

-----------------------------------------------------------------------------
(* Clients and the interrupt handler                                        *)

\* send(TIMER, NEW_TIMER), then receive(TIMER)
ask(c) ==
    /\ ~panic
    /\ state[c] = "idle"
    /\ \E s \in 0..MaxSec :
          /\ sec' = [sec EXCEPT ![c] = s]
          /\ owed' = [owed EXCEPT ![c] = s * HZ]
    /\ state' = [state EXCEPT ![c] = "waiting"]
    /\ inbox' = Append(inbox, c)
    /\ UNCHANGED <<tableVars, driver_pc, t, panic>>

receive_time_up(c) ==
    /\ ~panic
    /\ state[c] = "rung"
    /\ state' = [state EXCEPT ![c] = "idle"]
    /\ sec' = [sec EXCEPT ![c] = 0]
    /\ UNCHANGED <<tableVars, inbox, owed, driver_pc, t, panic>>

Less(n) == IF n > 0 THEN n - 1 ELSE 0

\* jiffy ++, and UPDATE_TIMER to the driver.
update_jiffy ==
    /\ ~panic
    /\ Cardinality({k \in DOMAIN inbox : inbox[k] = "UPDATE_TIMER"}) < MaxPending
    /\ expire' = [k \in TimerId |-> Less(expire[k])]
    /\ owed' = [c \in Client |-> Less(owed[c])]
    /\ inbox' = Append(inbox, "UPDATE_TIMER")
    /\ UNCHANGED <<timer_active, pid, sec, state, driver_pc, t, panic>>

-----------------------------------------------------------------------------
(* set_timer                                                                *)

Free == TimerId \ timer_active

\* Mutant: the first alarm is taken, in use or not.
first_timer == 0

usable_timer == Min(Free)

\* Mutant: the seconds are taken for ticks.
Ticks_sec(s) == s

Ticks(s) == s * HZ

set_timer ==
    /\ driver_pc = "receive" /\ ~panic
    /\ inbox # <<>> /\ Head(inbox) \in Client
    /\ Free # {}
    /\ expire' = [expire EXCEPT ![usable_timer] = Ticks(sec[Head(inbox)])]
    /\ pid' = [pid EXCEPT ![usable_timer] = Head(inbox)]
    /\ timer_active' = timer_active \cup {usable_timer}
    /\ inbox' = Tail(inbox)
    /\ UNCHANGED <<sec, state, owed, driver_pc, t, panic>>

set_timer_assert ==
    /\ driver_pc = "receive" /\ ~panic
    /\ inbox # <<>> /\ Head(inbox) \in Client
    /\ Free = {}
    /\ panic' = TRUE
    /\ UNCHANGED <<tableVars, inbox, sec, state, owed, driver_pc, t>>

-----------------------------------------------------------------------------
(* run_timers                                                               *)

update_timer ==
    /\ driver_pc = "receive" /\ ~panic
    /\ inbox # <<>> /\ Head(inbox) = "UPDATE_TIMER"
    /\ inbox' = Tail(inbox)
    /\ driver_pc' = "run"
    /\ t' = 0
    /\ UNCHANGED <<tableVars, sec, state, owed, panic>>

\* Mutant: the loop ends at the first alarm not in use.
AtEnd_first == t \notin timer_active

\* mask > timer_active, or the mask is shifted out: no alarm from t on is in use.
AtEnd == \A k \in timer_active : k < t

run_break ==
    /\ driver_pc = "run" /\ ~panic
    /\ AtEnd
    /\ driver_pc' = "receive"
    /\ t' = 0
    /\ UNCHANGED <<tableVars, inbox, sec, state, owed, panic>>

run_continue ==
    /\ driver_pc = "run" /\ ~panic
    /\ ~AtEnd
    /\ t \notin timer_active \/ expire[t] > 0
    /\ t' = t + 1
    /\ UNCHANGED <<tableVars, inbox, sec, state, owed, driver_pc, panic>>

\* timer_active &= ~mask; send(tp->pid, TIME_UP)
run_expired ==
    /\ driver_pc = "run" /\ ~panic
    /\ t \in timer_active
    /\ expire[t] <= 0
    /\ timer_active' = timer_active \ {t}
    /\ state' = [state EXCEPT ![pid[t]] = "rung"]
    /\ t' = t + 1
    /\ UNCHANGED <<expire, pid, inbox, sec, owed, driver_pc, panic>>

-----------------------------------------------------------------------------
TimerInit ==
    /\ timer_active = {}
    /\ expire = [k \in TimerId |-> 0]
    /\ pid = [k \in TimerId |-> Nobody]
    /\ inbox = <<>>
    /\ sec = [c \in Client |-> 0]
    /\ state = [c \in Client |-> "idle"]
    /\ owed = [c \in Client |-> 0]
    /\ driver_pc = "receive"
    /\ t = 0
    /\ panic = FALSE

timer_driver_thread ==
    \/ set_timer \/ set_timer_assert
    \/ update_timer \/ run_break \/ run_continue \/ run_expired

Panicked == panic /\ UNCHANGED timerVars

TimerNext ==
    \/ \E c \in Client : ask(c) \/ receive_time_up(c)
    \/ update_jiffy
    \/ timer_driver_thread
    \/ Panicked

TimerSpec == TimerInit /\ [][TimerNext]_timerVars

\* The timer ticks, and the scheduler runs the driver (Kernel's NoStarvation).
FairTimerSpec == TimerSpec /\ WF_timerVars(update_jiffy) /\ WF_timerVars(timer_driver_thread)

-----------------------------------------------------------------------------
(* Correctness                                                              *)

\* Every variable keeps its type.
TimerTypeOK ==
    /\ timer_active \subseteq TimerId
    /\ expire \in [TimerId -> 0..(MaxSec * HZ)]
    /\ pid \in [TimerId -> Client \cup {Nobody}]
    /\ inbox \in Seq(Client \cup {"UPDATE_TIMER"})
    /\ sec \in [Client -> 0..MaxSec]
    /\ state \in [Client -> {"idle", "waiting", "rung"}]
    /\ owed \in [Client -> 0..(MaxSec * HZ)]
    /\ driver_pc \in {"receive", "run"}
    /\ t \in 0..NR_TIMER
    /\ panic \in BOOLEAN

Queued(c) == {k \in DOMAIN inbox : inbox[k] = c}
Alarms(c) == {k \in timer_active : pid[k] = c}

\* A client's request is in one place only, the mailbox or the table, until its
\* TIME_UP is sent: set_timer overwrites no alarm, run_timers loses none and
\* rings none twice.
OneAlarmEach ==
    \A c \in Client :
        Cardinality(Queued(c)) + Cardinality(Alarms(c)) = IF state[c] = "waiting" THEN 1 ELSE 0

\* No TIME_UP before the seconds asked for are over, counted from the request.
NeverEarly == \A c \in Client : state[c] = "rung" => owed[c] = 0

\* Every alarm rings, however the ticks and the requests queue up in the mailbox.
EveryAlarmRings == \A c \in Client : (state[c] = "waiting") ~> (state[c] = "rung" \/ panic)
=============================================================================

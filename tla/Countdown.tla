----------------------------- MODULE Countdown -----------------------------
(***************************************************************************)
(* countdown.cpp: the timer's loop against the wall clock.  The loop       *)
(* sleeps with `timeout /t 2', which any key cuts short and a busy machine *)
(* draws out; it counts two seconds for each sleep whatever it took, and   *)
(* looks at the clock again only when the seconds it shows run out.  All   *)
(* it knows of the clock is the minute and the second.                     *)
(***************************************************************************)
EXTENDS Integers

CONSTANTS
  SecBase,    \* 60: seconds in a minute
  MinBase,    \* 60: minutes in an hour
  Naps,       \* the seconds one sleep may take
  MaxOverrun  \* bound: the seconds that sleeps take beyond their two

ASSUME CountdownAssumption ==
  /\ SecBase \in Nat /\ SecBase > 2 /\ SecBase % 2 = 0
  /\ MinBase \in Nat /\ MinBase > 1
  /\ Naps \subseteq Nat
  /\ MaxOverrun \in Nat

Hour  == SecBase * MinBase
Times == [min : 0..MinBase - 1, sec : 0..SecBase - 1]

VARIABLES
  timer,
  remain, target, cur, is_last_min,  \* main()'s
  wall,     \* the clock, in seconds of its hour
  duration, \* history: the seconds the user asked for
  elapsed,  \* history: the seconds since the program started
  overrun   \* history: the seconds that sleeps took beyond their two

timing == <<timer, remain, target, cur, is_last_min, wall, duration, elapsed, overrun>>

Seconds(t) == t.min * SecBase + t.sec

\* get_cur_time()
CurTime(w) == [min |-> w \div SecBase, sec |-> w % SecBase]

Mut_time_add(t1, t2) ==
  LET sec == t1.sec + t2.sec
      min == t1.min + t2.min
  IN  [min |-> min % MinBase, sec |-> sec % SecBase]

time_add(t1, t2) ==
  LET carry == IF t1.sec + t2.sec >= SecBase THEN 1 ELSE 0
      sec == t1.sec + t2.sec - carry * SecBase
      min == t1.min + t2.min + carry
  IN  [min |-> IF min >= MinBase THEN min - MinBase ELSE min, sec |-> sec]

Mut_time_sub(t1, t2) ==
  LET borrow == IF t1.sec - t2.sec < 0 THEN 1 ELSE 0
  IN  [min |-> t1.min - t2.min - borrow, sec |-> t1.sec - t2.sec + borrow * SecBase]

time_sub(t1, t2) ==
  LET borrow == IF t1.sec - t2.sec < 0 THEN 1 ELSE 0
      sec == t1.sec - t2.sec + borrow * SecBase
      min == t1.min - t2.min - borrow
  IN  [min |-> IF min < 0 THEN min + MinBase ELSE min, sec |-> sec]

\* The arguments are bounded to 0..59; the program starts at any time.
TimerInit ==
  /\ timer = "loop"
  /\ remain \in Times
  /\ wall \in 0..Hour - 1
  /\ cur = CurTime(wall)
  /\ target = time_add(cur, remain)
  /\ is_last_min = (remain.min = 0)
  /\ duration = Seconds(remain)
  /\ elapsed = 0 /\ overrun = 0

Mut_Refresh(w) ==
  IF remain.sec - 2 < 0
  THEN cur' = CurTime(w) /\ remain' = [remain EXCEPT !.sec = @ - 2 + SecBase]
  ELSE cur' = cur /\ remain' = [remain EXCEPT !.sec = @ - 2]

\* remain.sec -= 2; when it underflows, remain is computed afresh.
Refresh(w) ==
  IF remain.sec - 2 < 0
  THEN cur' = CurTime(w) /\ remain' = time_sub(target, cur')
  ELSE cur' = cur /\ remain' = [remain EXCEPT !.sec = @ - 2]

Mut_Over == is_last_min' /\ cur'.min = target.min /\ cur'.sec > target.sec

\* The condition of the break.
Over == is_last_min' /\ (cur'.min # target.min \/ cur'.sec > target.sec)

\* One turn of the while loop.
Turn ==
  /\ timer = "loop"
  /\ \E nap \in Naps :
       /\ overrun' = IF nap > 2 THEN overrun + nap - 2 ELSE overrun
       /\ overrun' <= MaxOverrun
       /\ wall' = (wall + nap) % Hour
       /\ elapsed' = elapsed + nap
       /\ Refresh(wall')
  /\ is_last_min' = (is_last_min \/ cur'.min = target.min)
  /\ timer' = IF Over THEN "done" ELSE "loop"
  /\ UNCHANGED <<target, duration>>

TimerSpec == TimerInit /\ [][Turn]_timing

-----------------------------------------------------------------------------

TimerTypeOK ==
  /\ timer \in {"loop", "done"}
  /\ remain \in Times /\ target \in Times /\ cur \in Times
  /\ is_last_min \in BOOLEAN
  /\ wall \in 0..Hour - 1
  /\ duration \in 0..Hour - 1
  /\ elapsed \in Nat /\ overrun \in 0..MaxOverrun

\* The flag is_last_min is TRUE too early when the seconds asked for carry into
\* the next minute and the minutes asked for are none, so that it is TRUE from
\* the start, or all but one of the hour, so that the target is in the minute
\* of the start.
FlagTooEarly ==
  /\ duration \div SecBase \in {0, MinBase - 1}
  /\ target.sec < duration % SecBase

\* The timer does not go off before the time asked for has passed, except
\* where the flag was set too early: comparing minutes and seconds of a clock
\* that turns over every hour is enough everywhere else.
NotEarly == timer = "done" => elapsed > duration \/ FlagTooEarly

\* With sleeps that are not longer than asked for, the timer goes off within
\* one of them of its time: the clock is always looked at in the target's
\* minute, or in the one after it when the flag is set already.  A second too
\* much in all makes it miss a target at the end of its minute, and run for
\* another hour; a target further from it is only late by what was too much.
EndsPromptly ==
  elapsed <= duration + 2 + IF target.sec + 2 + overrun < SecBase THEN overrun ELSE overrun * Hour

\* Until the time is over, sleeps that a key cuts short make it show less than
\* what is left, and only those drawn out more, by no more than they were.
ShownNotMore == timer = "loop" /\ elapsed <= duration => Seconds(remain) <= duration - elapsed + overrun
=============================================================================

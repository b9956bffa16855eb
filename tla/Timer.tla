------------------------------- MODULE Timer -------------------------------
(***************************************************************************)
(* What sleep() of time.c promises its caller, without a word about how:   *)
(* a call that asks for Ticks timer interrupts returns only after that     *)
(* many have been counted since the call, and it does return, unless the   *)
(* timer's interrupts are lost for good.                                   *)
(***************************************************************************)
EXTENDS Naturals

CONSTANT Ticks            \* the argument of the call

VARIABLES phase,          \* "idle", or "asleep" inside a call
          elapsed,        \* ticks counted since the call, up to Ticks
          ticking         \* the timer's interrupts are known to arrive

timerVars == <<phase, elapsed, ticking>>

TimerInit == phase = "idle" /\ elapsed = 0 /\ ticking = TRUE

\* The caller enters sleep().
Call == phase = "idle" /\ phase' = "asleep" /\ elapsed' = 0 /\ UNCHANGED ticking

\* A timer interrupt is counted while the caller sleeps.
Tick == /\ phase = "asleep" /\ elapsed < Ticks
        /\ elapsed' = elapsed + 1
        /\ UNCHANGED <<phase, ticking>>

\* sleep() returns, and not before all its ticks have been counted.
Return == /\ phase = "asleep" /\ elapsed = Ticks
          /\ phase' = "idle" /\ elapsed' = 0
          /\ UNCHANGED ticking

\* From here on nobody vouches for the timer's interrupts.
Lose == ticking /\ ticking' = FALSE /\ UNCHANGED <<phase, elapsed>>

TimerNext == Call \/ Tick \/ Return \/ Lose

TimerSafety == TimerInit /\ [][TimerNext]_timerVars

TimerSpec == TimerSafety /\ WF_timerVars(ticking /\ Tick) /\ WF_timerVars(ticking /\ Return)
============================================================================

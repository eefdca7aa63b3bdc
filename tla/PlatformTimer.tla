---------------------------- MODULE PlatformTimer ----------------------------
(***************************************************************************)
(* The timers of the mobile node's platform (src/bin/mobile-node/src/     *)
(* platform/): Instant is a CLOCK_MONOTONIC reading held as a Duration;   *)
(* now() reads the clock, Instant + Duration and Instant - Instant are    *)
(* Duration arithmetic, sleep(d) and sleep_until(when) hand a Duration to *)
(* tokio::time::sleep. Time is counted in whole ticks.                    *)
(*                                                                         *)
(* The caller computes deadlines with now() + d and passes them later to  *)
(* sleep_until; the clock may advance in between. Duration subtraction    *)
(* panics when the result would be negative ("overflow when subtracting  *)
(* durations"); the panic is recorded in panicked and no step follows it. *)
(***************************************************************************)
EXTENDS Naturals

CONSTANTS
  MaxTime,    \* last clock reading explored
  Durations   \* durations the caller sleeps for or adds to now()

VARIABLES
  clock,      \* the CLOCK_MONOTONIC reading
  deadlines,  \* Instants the caller has computed and holds
  delays,     \* wake-up instants of the Delay futures not yet completed
  panicked    \* a panic of the code has happened

vars == <<clock, deadlines, delays, panicked>>

Init ==
  /\ clock = 0
  /\ deadlines = {}
  /\ delays = {}
  /\ panicked = FALSE

\* Instant - Instant: Duration subtraction, defined only when it does not
\* go below zero.
CanSub(a, b) == a >= b

\* The monotonic clock advances.
Tick ==
  /\ ~panicked
  /\ clock < MaxTime
  /\ clock' = clock + 1
  /\ UNCHANGED <<deadlines, delays, panicked>>

\* Platform::now() + d: the caller keeps a deadline d ticks from now.
NowPlus(d) ==
  /\ ~panicked
  /\ clock + d <= MaxTime
  /\ deadlines' = deadlines \cup {clock + d}
  /\ UNCHANGED <<clock, delays, panicked>>

\* Platform::sleep(d): a delay that completes d ticks from now.
Sleep(d) ==
  /\ ~panicked
  /\ clock + d <= MaxTime
  /\ delays' = delays \cup {clock + d}
  /\ UNCHANGED <<clock, deadlines, panicked>>

\* Platform::sleep_until(when): tokio::time::sleep(when - Instant::now()).
\* The delay wakes at now + (when - now) = when; the subtraction panics if
\* the deadline has already passed.
SleepUntil(when) ==
  /\ ~panicked
  /\ \/ /\ CanSub(when, clock)
        /\ delays' = delays \cup {clock + (when - clock)}
        /\ UNCHANGED panicked
     \/ /\ ~CanSub(when, clock)
        /\ panicked' = TRUE
        /\ UNCHANGED delays
  /\ UNCHANGED <<clock, deadlines>>

\* The tokio timer completes a delay whose instant has been reached.
Fire(w) ==
  /\ ~panicked
  /\ w <= clock
  /\ delays' = delays \ {w}
  /\ UNCHANGED <<clock, deadlines, panicked>>

Next ==
  \/ Tick
  \/ \E d \in Durations : NowPlus(d) \/ Sleep(d)
  \/ \E w \in deadlines : SleepUntil(w)
  \/ \E w \in delays : Fire(w)

Spec == Init /\ [][Next]_vars

-----------------------------------------------------------------------------

TypeOK ==
  /\ clock \in 0..MaxTime
  /\ deadlines \subseteq 0..MaxTime
  /\ delays \subseteq 0..MaxTime
  /\ panicked \in BOOLEAN

\* Platform::sleep_until, like tokio::time::sleep_until, is handed a
\* deadline that may already have passed when the future is created (a
\* deadline computed before an await); such a call must return a delay
\* that completes at once, never panic.
SleepUntilNeverPanics == ~panicked

=============================================================================

---------------------------- MODULE FailsafeTimer ----------------------------
(***************************************************************************)
(* The failsafe timer of a MASH device (mash-go/pkg/failsafe/timer.go).    *)
(*                                                                         *)
(* A Timer is a four-state machine guarded by one mutex.  Two Go timers    *)
(* (time.AfterFunc) drive it: one that enters failsafe, one that ends the  *)
(* grace period.  An AfterFunc callback runs in a goroutine of its own, so *)
(* a timer that has expired may still be waiting for the mutex when Stop,  *)
(* Reset or Restore gives it up; the code ignores the result of            *)
(* time.Timer.Stop.  Every method below is one action, because it holds    *)
(* the mutex throughout; expiry and the callback are two separate actions. *)
(*                                                                         *)
(* Time is relative: an armed timer records the ticks it has left, a       *)
(* running Timer the ticks since startedAt, a snapshot the ticks since its *)
(* StartedAt, each saturating, so that the state space is finite without a *)
(* bound on the length of a behaviour.                                     *)
(***************************************************************************)
EXTENDS Naturals

CONSTANTS
    Timers,           \* identities of Go timers that may exist at one time
    NoTimer,          \* a nil time.Timer
    NoSnapshot,       \* nothing has been persisted yet
    MinDuration,      \* shortest failsafe duration SetDuration accepts
    MaxDuration,      \* longest failsafe duration SetDuration accepts
    DefaultDuration,  \* duration of a new Timer
    GracePeriod       \* grace period after failsafe, 0 when not configured

ASSUME TimersAssumption == NoTimer \notin Timers

ASSUME DurationsAssumption ==
    /\ MinDuration \in Nat /\ MinDuration > 0
    /\ MaxDuration \in Nat /\ MinDuration <= MaxDuration
    /\ DefaultDuration \in MinDuration..MaxDuration
    /\ GracePeriod \in Nat

VARIABLES
    state,             \* Timer.state
    duration,          \* Timer.duration
    failsafeTimer,     \* Timer.failsafeTimer, an element of Timers or NoTimer
    gracePeriodTimer,  \* Timer.gracePeriodTimer
    elapsed,           \* ticks since Timer.startedAt, saturating at MaxDuration
    timers,            \* the Go runtime's timers
    snapshot,          \* the TimerSnapshot persisted last
    armedFor,          \* history: ticks the current countdown was armed for
    lostRace           \* history: a method gave up an already expired timer

timerVars == <<state, duration, failsafeTimer, gracePeriodTimer, elapsed, timers,
          snapshot, armedFor, lostRace>>

States == {"Normal", "TimerRunning", "Failsafe", "GracePeriod"}

GoTimers == [phase : {"free", "armed", "fired"},
             kind  : {"failsafe", "grace"},
             left  : Nat]

Snapshots == [state : States, duration : 1..MaxDuration,
              startedAgo : 0..MaxDuration, remaining : 0..MaxDuration]

TimerTypeOK ==
    /\ state \in States
    /\ duration \in 1..MaxDuration
    /\ failsafeTimer \in Timers \cup {NoTimer}
    /\ gracePeriodTimer \in Timers \cup {NoTimer}
    /\ elapsed \in 0..MaxDuration
    /\ timers \in [Timers -> GoTimers]
    /\ snapshot \in Snapshots \cup {NoSnapshot}
    /\ armedFor \in 0..MaxDuration
    /\ lostRace \in BOOLEAN

-----------------------------------------------------------------------------
(* Go runtime timers. *)

Idle == [phase |-> "free", kind |-> "failsafe", left |-> 0]

\* A timer object that neither the runtime nor the Timer refers to.
Unused(t) ==
    /\ timers[t].phase = "free"
    /\ t # failsafeTimer
    /\ t # gracePeriodTimer

\* time.AfterFunc(d, ...) for a callback of the given kind.
AfterFunc(kind, d) == [phase |-> "armed", kind |-> kind, left |-> d]

\* time.Timer.Stop on the timers of hs: an armed timer is disarmed, one
\* whose callback has been started is not affected.
Stopped(hs) ==
    [t \in Timers |->
        IF t \in hs /\ timers[t].phase = "armed" THEN Idle ELSE timers[t]]

\* Some timer of hs has expired and its callback waits for the mutex.
HasFired(hs) == \E t \in hs \cap Timers : timers[t].phase = "fired"

-----------------------------------------------------------------------------
TimerInit ==
    /\ state = "Normal"
    /\ duration = DefaultDuration
    /\ failsafeTimer = NoTimer
    /\ gracePeriodTimer = NoTimer
    /\ elapsed = 0
    /\ timers = [t \in Timers |-> Idle]
    /\ snapshot = NoSnapshot
    /\ armedFor = 0
    /\ lostRace = FALSE

(* Methods of Timer. *)

SetDuration(d) ==
    /\ d >= MinDuration
    /\ d <= MaxDuration
    /\ duration' = d
    /\ UNCHANGED <<state, failsafeTimer, gracePeriodTimer, elapsed, timers,
                   snapshot, armedFor, lostRace>>

\* A running or triggered Timer is left alone.  A grace period timer that
\* is still pending is not stopped.
Start ==
    /\ state \notin {"TimerRunning", "Failsafe"}
    /\ \E t \in Timers :
        /\ Unused(t)
        /\ timers' = [timers EXCEPT ![t] = AfterFunc("failsafe", duration)]
        /\ failsafeTimer' = t
    /\ state' = "TimerRunning"
    /\ elapsed' = 0
    /\ armedFor' = duration
    /\ UNCHANGED <<duration, gracePeriodTimer, snapshot, lostRace>>

\* Leaving failsafe opens the grace period if one is configured; any other
\* state returns to normal, and a pending grace period timer is not stopped.
Stop ==
    /\ state # "Normal"
    /\ lostRace' = (lostRace \/ HasFired({failsafeTimer}))
    /\ failsafeTimer' = NoTimer
    /\ \/ /\ state = "Failsafe" /\ GracePeriod > 0
          /\ \E t \in Timers :
              /\ Unused(t)
              /\ timers' = [Stopped({failsafeTimer}) EXCEPT
                                ![t] = AfterFunc("grace", GracePeriod)]
              /\ gracePeriodTimer' = t
          /\ state' = "GracePeriod"
       \/ /\ ~(state = "Failsafe" /\ GracePeriod > 0)
          /\ timers' = Stopped({failsafeTimer})
          /\ state' = "Normal"
          /\ UNCHANGED gracePeriodTimer
    /\ UNCHANGED <<duration, elapsed, snapshot, armedFor>>

ResetKeepsTimer ==  \* mutant: the failsafe timer is dropped, not stopped
    /\ lostRace' = (lostRace \/ HasFired({failsafeTimer}))
    /\ timers' = Stopped({gracePeriodTimer})
    /\ failsafeTimer' = NoTimer
    /\ gracePeriodTimer' = NoTimer
    /\ state' = "Normal"
    /\ elapsed' = 0
    /\ UNCHANGED <<duration, snapshot, armedFor>>

Reset ==
    /\ lostRace' = (lostRace \/ HasFired({failsafeTimer}))
    /\ timers' = Stopped({failsafeTimer, gracePeriodTimer})
    /\ failsafeTimer' = NoTimer
    /\ gracePeriodTimer' = NoTimer
    /\ state' = "Normal"
    /\ elapsed' = 0
    /\ UNCHANGED <<duration, snapshot, armedFor>>

\* RemainingTime, also computed by Snapshot.
RemainingTime ==
    IF state # "TimerRunning" \/ duration < elapsed THEN 0 ELSE duration - elapsed

Snapshot ==
    /\ snapshot' = [state |-> state,
                    duration |-> duration,
                    startedAgo |-> IF state = "TimerRunning" THEN elapsed ELSE 0,
                    remaining |-> RemainingTime]
    /\ UNCHANGED <<state, duration, failsafeTimer, gracePeriodTimer, elapsed,
                   timers, armedFor, lostRace>>

\* What Restore counts down from: the saved remaining time, or the time left
\* since the saved StartedAt when that is 0.
RestoredRemaining ==
    IF snapshot.remaining > 0 THEN snapshot.remaining
    ELSE IF snapshot.duration < snapshot.startedAgo THEN 0
    ELSE snapshot.duration - snapshot.startedAgo

\* The countdown of the snapshot has expired: failsafe without a timer.
RestoreExpired ==
    /\ snapshot.state = "TimerRunning" /\ RestoredRemaining = 0
    /\ state' = "Failsafe"
    /\ duration' = snapshot.duration
    /\ timers' = Stopped({failsafeTimer, gracePeriodTimer})
    /\ failsafeTimer' = NoTimer
    /\ elapsed' = 0
    /\ UNCHANGED armedFor

RestoreNotArmed ==  \* mutant: the state is restored, the timer is not
    /\ snapshot.state = "TimerRunning" /\ RestoredRemaining > 0
    /\ state' = "TimerRunning"
    /\ duration' = RestoredRemaining
    /\ timers' = Stopped({failsafeTimer, gracePeriodTimer})
    /\ failsafeTimer' = NoTimer
    /\ elapsed' = 0
    /\ armedFor' = RestoredRemaining

\* The countdown resumes; the Timer's duration becomes what was left of it.
RestoreRunning ==
    /\ snapshot.state = "TimerRunning" /\ RestoredRemaining > 0
    /\ state' = "TimerRunning"
    /\ duration' = RestoredRemaining
    /\ \E t \in Timers :
        /\ Unused(t)
        /\ timers' = [Stopped({failsafeTimer, gracePeriodTimer}) EXCEPT
                          ![t] = AfterFunc("failsafe", RestoredRemaining)]
        /\ failsafeTimer' = t
    /\ elapsed' = 0
    /\ armedFor' = RestoredRemaining

\* A grace period is not persisted: it restores as normal.
RestoreOther ==
    /\ snapshot.state # "TimerRunning"
    /\ state' = IF snapshot.state = "Failsafe" THEN "Failsafe" ELSE "Normal"
    /\ duration' = snapshot.duration
    /\ timers' = Stopped({failsafeTimer, gracePeriodTimer})
    /\ failsafeTimer' = NoTimer
    /\ elapsed' = 0
    /\ UNCHANGED armedFor

Restore ==
    /\ snapshot # NoSnapshot
    /\ lostRace' = (lostRace \/ HasFired({failsafeTimer}))
    /\ gracePeriodTimer' = NoTimer
    /\ RestoreExpired \/ RestoreRunning \/ RestoreOther
    /\ UNCHANGED snapshot

-----------------------------------------------------------------------------
(* Callbacks of the Go timers. *)

EnterFailsafeRechecks(t) ==  \* mutant: compares with the current duration
    /\ timers[t].phase = "fired" /\ timers[t].kind = "failsafe"
    /\ timers' = [timers EXCEPT ![t] = Idle]
    /\ \/ /\ state = "TimerRunning" /\ elapsed >= duration
          /\ state' = "Failsafe"
          /\ failsafeTimer' = NoTimer
       \/ /\ ~(state = "TimerRunning" /\ elapsed >= duration)
          /\ UNCHANGED <<state, failsafeTimer>>
    /\ UNCHANGED <<duration, gracePeriodTimer, elapsed, snapshot, armedFor,
                   lostRace>>

\* enterFailsafe: only a running Timer is triggered, whichever timer the
\* callback belongs to.
EnterFailsafe(t) ==
    /\ timers[t].phase = "fired" /\ timers[t].kind = "failsafe"
    /\ timers' = [timers EXCEPT ![t] = Idle]
    /\ \/ /\ state = "TimerRunning"
          /\ state' = "Failsafe"
          /\ failsafeTimer' = NoTimer
       \/ /\ state # "TimerRunning"
          /\ UNCHANGED <<state, failsafeTimer>>
    /\ UNCHANGED <<duration, gracePeriodTimer, elapsed, snapshot, armedFor,
                   lostRace>>

ExitGracePeriod(t) ==
    /\ timers[t].phase = "fired" /\ timers[t].kind = "grace"
    /\ timers' = [timers EXCEPT ![t] = Idle]
    /\ \/ /\ state = "GracePeriod"
          /\ state' = "Normal"
          /\ gracePeriodTimer' = NoTimer
       \/ /\ state # "GracePeriod"
          /\ UNCHANGED <<state, gracePeriodTimer>>
    /\ UNCHANGED <<duration, failsafeTimer, elapsed, snapshot, armedFor,
                   lostRace>>

-----------------------------------------------------------------------------
(* The environment: expiry, time, and the death of the process. *)

\* The runtime starts the callback's goroutine, at the deadline or later.
Expire(t) ==
    /\ timers[t].phase = "armed" /\ timers[t].left = 0
    /\ timers' = [timers EXCEPT ![t].phase = "fired"]
    /\ UNCHANGED <<state, duration, failsafeTimer, gracePeriodTimer, elapsed,
                   snapshot, armedFor, lostRace>>

\* n + 1, saturating at MaxDuration.
Later(n) == IF n < MaxDuration THEN n + 1 ELSE n

TickedTimers ==
    [t \in Timers |->
        IF timers[t].phase = "armed" /\ timers[t].left > 0
        THEN [timers[t] EXCEPT !.left = @ - 1]
        ELSE timers[t]]

TickedSnapshot ==
    IF snapshot # NoSnapshot /\ snapshot.state = "TimerRunning"
    THEN [snapshot EXCEPT !.startedAgo = Later(@)]
    ELSE snapshot

Tick ==
    /\ timers' = TickedTimers
    /\ elapsed' = IF state = "TimerRunning" THEN Later(elapsed) ELSE elapsed
    /\ snapshot' = TickedSnapshot
    /\ UNCHANGED <<state, duration, failsafeTimer, gracePeriodTimer, armedFor,
                   lostRace>>

\* The process dies and starts again with a new Timer (NewTimer); only the
\* snapshot survives.
Crash ==
    /\ state' = "Normal"
    /\ duration' = DefaultDuration
    /\ failsafeTimer' = NoTimer
    /\ gracePeriodTimer' = NoTimer
    /\ elapsed' = 0
    /\ timers' = [t \in Timers |-> Idle]
    /\ armedFor' = 0
    /\ lostRace' = FALSE
    /\ UNCHANGED snapshot

-----------------------------------------------------------------------------
TimerNext ==
    \/ \E d \in 0..MaxDuration + 1 : SetDuration(d)
    \/ Start
    \/ Stop
    \/ Reset
    \/ Snapshot
    \/ Restore
    \/ \E t \in Timers : EnterFailsafe(t)
    \/ \E t \in Timers : ExitGracePeriod(t)
    \/ \E t \in Timers : Expire(t)
    \/ Tick
    \/ Crash

TimerSpec == TimerInit /\ [][TimerNext]_timerVars

\* Time advances, an expired timer's goroutine is started, and a goroutine
\* that waits for the mutex gets it.  Callers of the methods owe nothing.
Fairness ==
    /\ WF_timerVars(Tick)
    /\ \A t \in Timers :
        WF_timerVars(Expire(t)) /\ WF_timerVars(EnterFailsafe(t)) /\ WF_timerVars(ExitGracePeriod(t))

FairSpec == TimerSpec /\ Fairness

-----------------------------------------------------------------------------
(* Properties. *)

\* Goroutines or armed timers of the given kind.
Live(kind) == {t \in Timers : timers[t].phase # "free" /\ timers[t].kind = kind}

\* A Timer that shows TIMER_RUNNING or GRACE_PERIOD always has a Go timer, or
\* a callback on its way, that will take it out of that state: Start, Stop and
\* Restore never leave the machine in a state nothing will end, whatever
\* stale callbacks run in between (timer.go Start, Stop, Restore, Reset).
CountdownIsBacked ==
    /\ state = "TimerRunning" => Live("failsafe") # {}
    /\ state = "GracePeriod" => Live("grace") # {}

\* Failsafe is never triggered before the countdown that Start or Restore
\* began has run out, as long as no Stop, Reset or Restore has given up a
\* timer that had already expired (timer.go enterFailsafe does not check
\* which timer it belongs to).
NoEarlyFailsafeWithoutRace ==
    ~lostRace /\ state = "TimerRunning" =>
        \A t \in Live("failsafe") :
            timers[t].phase = "fired" => elapsed >= armedFor

\* A countdown ends: a Timer does not stay in TIMER_RUNNING for ever, unless
\* it is restored again and again (timer.go Start, Restore, enterFailsafe).
CountdownEnds ==
    \/ state = "TimerRunning" ~> state # "TimerRunning"
    \/ []<><<Restore>>_timerVars

\* What the proof of NoEarlyFailsafeWithoutRace needs: without a lost race
\* the only failsafe timer is the one the Timer holds, and it never runs
\* ahead of the countdown.
OnlyCurrentTimer ==
    ~lostRace =>
        \A t \in Live("failsafe") :
            /\ t = failsafeTimer
            /\ state = "TimerRunning"
            /\ timers[t].phase = "armed" => timers[t].left + elapsed >= armedFor
            /\ timers[t].phase = "fired" => elapsed >= armedFor

-----------------------------------------------------------------------------
(* Statements of documents and comments that the code does not keep, listed in
   README.md; no configuration checks them. *)

\* The same without the proviso: the package comment promises that the timer
\* measures the time since the loss of the connection and resets when a zone
\* reconnects.
NoEarlyFailsafe ==
    state = "TimerRunning" =>
        \A t \in Live("failsafe") :
            timers[t].phase = "fired" => elapsed >= armedFor

\* The failsafe duration stays in the configurable range.
DurationInRange == duration \in MinDuration..MaxDuration
=============================================================================

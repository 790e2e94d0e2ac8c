------------------------- MODULE DebouncedController -------------------------
(***************************************************************************)
(* The reference-counted scale-to-zero switch of lib/scaletozero.          *)
(*                                                                         *)
(* Holders call Disable and Enable, the control plane calls Pin and Unpin, *)
(* and time.AfterFunc runs the delayed re-enable.  Every operation runs    *)
(* under c.mu, so each is one step; the timer is two steps, because its    *)
(* callback goroutine can start (the timer fires, Stop is too late) long   *)
(* before it gets the mutex.                                               *)
(*                                                                         *)
(* This module offers the operations; ScaleToZero and Recorder compose     *)
(* them with the goroutines that call them.  In every operation `ok' tells *)
(* whether it returns a nil error.                                         *)
(***************************************************************************)
EXTENDS Naturals

CONSTANTS
    Timers,     \* the timers that can exist at once (a bound on AfterFunc)
    NoTimer,    \* the nil *time.Timer
    Cooldowns   \* the configurations considered: TRUE is cooldown > 0

ASSUME TimersAssumption == NoTimer \notin Timers
ASSUME CooldownsAssumption == Cooldowns # {} /\ Cooldowns \subseteq BOOLEAN

VARIABLES
    cooldown,       \* whether re-enabling is delayed (fixed at construction)
    disabled,       \* the controller believes that scale-to-zero is off
    activeCount,    \* request-driven holders
    pinned,         \* the out-of-band hold
    reenableTimer,  \* the timer c.reenableTimer points to, or NoTimer
    timers,         \* the state of every timer: free, armed, or fired
    control,        \* last value written to the platform's control file
    reenableFailed  \* history: the last attempt to re-enable failed and no
                    \* hold or timer has come since

ctrlVars == <<cooldown, disabled, activeCount, pinned, reenableTimer, timers,
              control, reenableFailed>>

TimerStates == {"free", "armed", "fired"}

CtrlTypeOK ==
    /\ cooldown \in BOOLEAN
    /\ disabled \in BOOLEAN
    /\ activeCount \in Nat
    /\ pinned \in BOOLEAN
    /\ reenableTimer \in Timers \cup {NoTimer}
    /\ timers \in [Timers -> TimerStates]
    /\ control \in {"+", "-"}
    /\ reenableFailed \in BOOLEAN

CtrlInit ==
    /\ cooldown \in Cooldowns
    /\ disabled = FALSE
    /\ activeCount = 0
    /\ pinned = FALSE
    /\ reenableTimer = NoTimer
    /\ timers = [t \in Timers |-> "free"]
    /\ control = "-"
    /\ reenableFailed = FALSE

-----------------------------------------------------------------------------
(* Stop the current timer.  One that has fired already has a goroutine of  *)
(* its own, which Stop does not touch.                                     *)
CancelTimer ==
    /\ timers' = [t \in Timers |->
                    IF t = reenableTimer /\ timers[t] = "armed"
                      THEN "free" ELSE timers[t]]
    /\ reenableTimer' = NoTimer

(* Write "+": scale-to-zero goes off.  A failed write changes nothing.     *)
WriteDisable(ok) ==
    /\ disabled' = ok
    /\ control' = IF ok THEN "+" ELSE control

(* Write "-": the platform may put the VM to sleep again.                  *)
WriteEnable(ok) ==
    /\ disabled' = ~ok
    /\ control' = IF ok THEN "-" ELSE control
    /\ reenableFailed' = ~ok

Disable(ok) ==
    /\ CancelTimer
    /\ \/ /\ disabled
          /\ ok
          /\ UNCHANGED <<disabled, control>>
       \/ /\ ~disabled
          /\ WriteDisable(ok)
    /\ activeCount' = IF ok THEN activeCount + 1 ELSE activeCount
    /\ reenableFailed' = (reenableFailed /\ ~ok)
    /\ UNCHANGED <<cooldown, pinned>>

(* Nothing may be re-enabled: somebody holds, or it is enabled already.    *)
NothingToReenable(count, pin) == count > 0 \/ pin \/ ~disabled

MaybeReenable(count, pin, ok) ==
    \/ /\ NothingToReenable(count, pin)
       /\ ok
       /\ UNCHANGED <<disabled, control, reenableTimer, timers, reenableFailed>>
    \/ /\ ~NothingToReenable(count, pin)
       /\ ~cooldown
       /\ WriteEnable(ok)
       /\ UNCHANGED <<reenableTimer, timers>>
    \/ /\ ~NothingToReenable(count, pin)
       /\ cooldown
       /\ ok
       /\ \E t \in Timers :
            /\ timers[t] = "free"
            /\ timers' = [timers EXCEPT ![t] = "armed"]
            /\ reenableTimer' = t
       /\ reenableFailed' = FALSE
       /\ UNCHANGED <<disabled, control>>

(* Mutant of Enable: the last holder re-enables under a pin.               *)
EnableIgnoresPin(ok) ==
    LET count == IF activeCount > 0 THEN activeCount - 1 ELSE 0
    IN  /\ activeCount' = count
        /\ MaybeReenable(count, FALSE, ok)
        /\ UNCHANGED <<cooldown, pinned>>

Enable(ok) ==
    LET count == IF activeCount > 0 THEN activeCount - 1 ELSE 0
    IN  /\ activeCount' = count
        /\ MaybeReenable(count, pinned, ok)
        /\ UNCHANGED <<cooldown, pinned>>

Pin(ok) ==
    /\ CancelTimer
    /\ \/ /\ pinned \/ disabled
          /\ ok
          /\ UNCHANGED <<disabled, control>>
       \/ /\ ~pinned /\ ~disabled
          /\ WriteDisable(ok)
    /\ pinned' = (pinned \/ ok)
    /\ reenableFailed' = (reenableFailed /\ ~ok)
    /\ UNCHANGED <<cooldown, activeCount>>

(* A failed re-enable restores the pin, so that the caller can retry.      *)
Unpin(ok) ==
    /\ \/ /\ pinned
          /\ MaybeReenable(activeCount, FALSE, ok)
          /\ pinned' = ~ok
       \/ /\ ~pinned
          /\ ok
          /\ UNCHANGED <<pinned, disabled, control, reenableTimer, timers,
                         reenableFailed>>
    /\ UNCHANGED <<cooldown, activeCount>>

(* The cooldown passes: the runtime starts the callback's goroutine.       *)
TimerFires(t) ==
    /\ timers[t] = "armed"
    /\ timers' = [timers EXCEPT ![t] = "fired"]
    /\ UNCHANGED <<cooldown, disabled, activeCount, pinned, reenableTimer,
                   control, reenableFailed>>

(* Mutants of the callback: it does not look at the state again; it takes  *)
(* `disabled' for the state it should establish, and does nothing.         *)
CallbackUnchecked(t, ok) ==
    /\ timers[t] = "fired"
    /\ timers' = [timers EXCEPT ![t] = "free"]
    /\ WriteEnable(ok)
    /\ UNCHANGED <<cooldown, activeCount, pinned, reenableTimer>>

CallbackGivesUp(t, ok) ==
    /\ timers[t] = "fired"
    /\ timers' = [timers EXCEPT ![t] = "free"]
    /\ ok
    /\ UNCHANGED <<cooldown, disabled, control, reenableFailed, activeCount,
                   pinned, reenableTimer>>

(* The callback gets the mutex and looks at the state again.               *)
ReenableCallback(t, ok) ==
    /\ timers[t] = "fired"
    /\ timers' = [timers EXCEPT ![t] = "free"]
    /\ \/ /\ NothingToReenable(activeCount, pinned)
          /\ ok
          /\ UNCHANGED <<disabled, control, reenableFailed>>
       \/ /\ ~NothingToReenable(activeCount, pinned)
          /\ WriteEnable(ok)
    /\ UNCHANGED <<cooldown, activeCount, pinned, reenableTimer>>
=============================================================================

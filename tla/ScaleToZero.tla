----------------------------- MODULE ScaleToZero -----------------------------
(***************************************************************************)
(* DebouncedController with its well-behaved callers: HTTP requests (the   *)
(* middleware's response hold), managed processes and the REPL, which call *)
(* Enable exactly once for every Disable that returned nil, and the control *)
(* plane, which pins and unpins through the API.                           *)
(***************************************************************************)
EXTENDS DebouncedController, FiniteSets

CONSTANT Holders    \* the callers that can hold at once

VARIABLE holders    \* those whose Disable succeeded and that owe an Enable

vars == <<ctrlVars, holders>>

TypeOK == CtrlTypeOK /\ holders \subseteq Holders

Init == CtrlInit /\ holders = {}

(* A caller whose Disable fails goes on without a hold.                    *)
Acquire(h) ==
    /\ h \notin holders
    /\ \E ok \in BOOLEAN :
        /\ Disable(ok)
        /\ holders' = IF ok THEN holders \cup {h} ELSE holders

(* A caller logs the error of Enable and never calls it again.             *)
Release(h) ==
    /\ h \in holders
    /\ \E ok \in BOOLEAN : Enable(ok)
    /\ holders' = holders \ {h}

PinRequest == (\E ok \in BOOLEAN : Pin(ok)) /\ UNCHANGED holders

UnpinRequest == (\E ok \in BOOLEAN : Unpin(ok)) /\ UNCHANGED holders

Fire(t) == TimerFires(t) /\ UNCHANGED holders

Callback(t) == (\E ok \in BOOLEAN : ReenableCallback(t, ok)) /\ UNCHANGED holders

Next ==
    \/ \E h \in Holders : Acquire(h) \/ Release(h)
    \/ PinRequest
    \/ UnpinRequest
    \/ \E t \in Timers : Fire(t) \/ Callback(t)

(* Timers fire and their goroutines get the mutex; nothing obliges a       *)
(* caller to release or the control plane to unpin.                        *)
Fairness == \A t \in Timers : WF_vars(Fire(t)) /\ WF_vars(Callback(t))

Spec == Init /\ [][Next]_vars /\ Fairness

-----------------------------------------------------------------------------
Idle == holders = {} /\ ~pinned

(* While a caller holds or the pin is set, the last thing the platform was *)
(* told is to stay awake: no interleaving of a late timer callback, a      *)
(* failed write and a new hold lets the machine sleep under a holder.      *)
(* (DebouncedController.Disable, Enable, Pin, Unpin and the callback.)     *)
HeldMeansAwake == ~Idle => control = "+"

(* The counter is the number of callers that hold, whatever failed.        *)
(* (The activeCount-- of the failing Disable, the > 0 test of Enable.)     *)
CountsHolders == activeCount = Cardinality(holders)

(* When nobody holds and the machine is still kept awake, either the       *)
(* current timer is going to re-enable it or the platform refused the last *)
(* attempt: a cancelled timer is never the only one there was.             *)
(* (maybeReenableLocked, and reenableTimer.Stop in Disable and Pin.)       *)
AwakeOnlyForAReason ==
    (Idle /\ disabled) =>
        \/ reenableFailed
        \/ reenableTimer # NoTimer /\ timers[reenableTimer] # "free"

(* Once nobody holds, the machine is eventually allowed to sleep, unless   *)
(* somebody holds again or the platform refused.                           *)
(* (The timer armed by maybeReenableLocked and its callback.)              *)
EventuallySleepable == Idle ~> (~Idle \/ control = "-" \/ reenableFailed)

(* The controller implements what lib/scaletozero promises.                *)
Abstract == INSTANCE WakeLock WITH sleepable <- control = "-"

ImplementsWakeLock == Abstract!Spec
=============================================================================

-------------------------- MODULE ScaleToZeroProofs --------------------------
(***************************************************************************)
(* Theorems about ScaleToZero, for any number of holders and timers and    *)
(* either configuration of the cooldown.                                   *)
(***************************************************************************)
EXTENDS ScaleToZero, DebouncedControllerProofs

(* The inductive invariant: the callers' view (holders) agrees with the    *)
(* controller's counter, and the counter with the flag and the file.       *)
IInv ==
    /\ TypeOK
    /\ IsFiniteSet(holders)
    /\ CountsHolders
    /\ CtrlInv
    /\ AwakeOnlyForAReason

-----------------------------------------------------------------------------
(* Nobody holds the switch at first.                                       *)
LEMMA InitIInv == Init => IInv
<1> SUFFICES ASSUME Init PROVE IInv
  OBVIOUS
<1>1. IsFiniteSet(holders) /\ CountsHolders
  BY FS_EmptySet DEF Init, CtrlInit, CountsHolders
<1>2. cooldown \in BOOLEAN
  BY CooldownsAssumption DEF Init, CtrlInit
<1>3. TypeOK
  BY <1>2 DEF Init, CtrlInit, TypeOK, CtrlTypeOK, TimerStates
<1>4. CtrlInv /\ AwakeOnlyForAReason
  BY DEF Init, CtrlInit, CtrlInv, AwakeOnlyForAReason
<1> QED
  BY <1>1, <1>3, <1>4 DEF IInv

(* Acquire: a successful Disable makes a holder, a failed one none.        *)
LEMMA AcquireStep ==
    ASSUME IInv, NEW h \in Holders, Acquire(h)
    PROVE  IInv'
<1>1. PICK ok \in BOOLEAN :
         /\ Disable(ok)
         /\ holders' = IF ok THEN holders \cup {h} ELSE holders
  BY DEF Acquire
<1>2. /\ CtrlTypeOK' /\ CtrlInv' /\ pinned' = pinned /\ disabled' = ok
      /\ activeCount' = IF ok THEN activeCount + 1 ELSE activeCount
  BY <1>1, DisableStep DEF IInv, TypeOK
<1>3. h \notin holders
  BY DEF Acquire
<1>4. IsFiniteSet(holders') /\ CountsHolders'
  BY <1>1, <1>2, <1>3, HolderCount DEF IInv, CountsHolders
<1>5. TypeOK'
  BY <1>1, <1>2 DEF IInv, TypeOK
<1>6. AwakeOnlyForAReason'
  BY <1>1, <1>2 DEF AwakeOnlyForAReason, Idle
<1> QED
  BY <1>2, <1>4, <1>5, <1>6 DEF IInv

(* Release: Enable sees one holder less, and arms a timer or re-enables    *)
(* only when there is none left.                                           *)
LEMMA ReleaseStep ==
    ASSUME IInv, NEW h \in Holders, Release(h)
    PROVE  IInv'
<1>1. PICK ok \in BOOLEAN : Enable(ok)
  BY DEF Release
<1>2. h \in holders /\ holders' = holders \ {h}
  BY DEF Release
<1>3. /\ Cardinality(holders) \in Nat
      /\ Cardinality(holders) # 0
      /\ IsFiniteSet(holders')
      /\ Cardinality(holders') = Cardinality(holders) - 1
      /\ Cardinality(holders') = 0 <=> holders' = {}
  BY <1>2, HolderCount DEF IInv
<1>4. /\ activeCount \in Nat /\ activeCount > 0
      /\ activeCount - 1 \in Nat
      /\ activeCount' = activeCount - 1
      /\ MaybeReenable(activeCount - 1, pinned, ok)
      /\ UNCHANGED <<cooldown, pinned>>
  BY <1>1, <1>3 DEF IInv, CountsHolders, Enable
<1>5. CountsHolders'
  BY <1>3, <1>4 DEF IInv, CountsHolders
<1>6. /\ disabled' \in BOOLEAN /\ control' \in {"+", "-"}
      /\ reenableFailed' \in BOOLEAN
      /\ reenableTimer' \in Timers \cup {NoTimer}
      /\ timers' \in [Timers -> TimerStates]
      /\ disabled' <=> control' = "+"
      /\ (activeCount - 1 > 0 \/ pinned) => disabled' = disabled
      /\ (activeCount - 1 = 0 /\ ~pinned /\ disabled') =>
            \/ reenableFailed'
            \/ reenableTimer' # NoTimer /\ timers'[reenableTimer'] # "free"
  BY <1>4, MaybeReenableStep DEF IInv, TypeOK, CtrlTypeOK, CtrlInv
<1>7. TypeOK'
  BY <1>2, <1>4, <1>6 DEF IInv, TypeOK, CtrlTypeOK
<1>8. CtrlInv'
  <2>1. disabled
    BY <1>4 DEF IInv, CtrlInv
  <2>2. (activeCount' > 0 \/ pinned') => disabled'
    BY <1>4, <1>6, <2>1
  <2> QED
    BY <1>6, <2>2 DEF CtrlInv
<1>9. AwakeOnlyForAReason'
  BY <1>3, <1>4, <1>5, <1>6 DEF AwakeOnlyForAReason, Idle, CountsHolders
<1> QED
  BY <1>3, <1>5, <1>7, <1>8, <1>9 DEF IInv

(* Pin and Unpin leave the request-driven holders alone.                   *)
LEMMA PinStep ==
    ASSUME IInv, PinRequest
    PROVE  IInv'
<1>1. PICK ok \in BOOLEAN : Pin(ok)
  BY DEF PinRequest
<1>2. /\ CtrlTypeOK' /\ CtrlInv'
      /\ activeCount' = activeCount /\ holders' = holders
      /\ pinned' \/ ~disabled'
  BY <1>1 DEF IInv, TypeOK, CtrlTypeOK, CtrlInv, Pin, PinRequest, CancelTimer,
              WriteDisable, TimerStates
<1> QED
  BY <1>2 DEF IInv, TypeOK, CountsHolders, AwakeOnlyForAReason, Idle

(* A pin is taken away.                                                    *)
LEMMA UnpinStep ==
    ASSUME IInv, UnpinRequest
    PROVE  IInv'
<1>1. PICK ok \in BOOLEAN : Unpin(ok)
  BY DEF UnpinRequest
<1>2. holders' = holders /\ UNCHANGED <<cooldown, activeCount>>
  BY <1>1 DEF UnpinRequest, Unpin
<1>3. activeCount = 0 <=> holders = {}
  BY HolderCount DEF IInv, CountsHolders
<1>4. CASE ~pinned
  <2>1. UNCHANGED vars
    BY <1>1, <1>2, <1>4 DEF Unpin, vars, ctrlVars
  <2> QED
    BY <2>1 DEF vars, ctrlVars, IInv, TypeOK, CtrlTypeOK, CountsHolders,
                CtrlInv, AwakeOnlyForAReason, Idle
<1>5. CASE pinned
  <2>1. MaybeReenable(activeCount, FALSE, ok) /\ pinned' = ~ok
    BY <1>1, <1>5 DEF Unpin
  <2>2. /\ disabled' \in BOOLEAN /\ control' \in {"+", "-"}
        /\ reenableFailed' \in BOOLEAN
        /\ reenableTimer' \in Timers \cup {NoTimer}
        /\ timers' \in [Timers -> TimerStates]
        /\ disabled' <=> control' = "+"
        /\ activeCount > 0 => disabled' = disabled
        /\ (activeCount = 0 /\ disabled') =>
              \/ reenableFailed'
              \/ reenableTimer' # NoTimer /\ timers'[reenableTimer'] # "free"
        /\ ~ok => disabled'
    BY <2>1, MaybeReenableStep DEF IInv, TypeOK, CtrlTypeOK, CtrlInv
  <2>3. TypeOK'
    BY <1>2, <2>1, <2>2 DEF IInv, TypeOK, CtrlTypeOK
  <2>4. CtrlInv'
    <3>1. disabled
      BY <1>5 DEF IInv, CtrlInv
    <3>2. (activeCount' > 0 \/ pinned') => disabled'
      BY <1>2, <2>1, <2>2, <3>1
    <3> QED
      BY <2>2, <3>2 DEF CtrlInv
  <2>5. AwakeOnlyForAReason'
    BY <1>2, <1>3, <2>2 DEF AwakeOnlyForAReason, Idle
  <2> QED
    BY <1>2, <2>3, <2>4, <2>5 DEF IInv, CountsHolders
<1> QED
  BY <1>4, <1>5

(* The timer firing and its callback: the callback re-enables only when it *)
(* finds, under the mutex, that nobody holds.                              *)
LEMMA TimerStep ==
    ASSUME IInv, NEW t \in Timers, Fire(t) \/ Callback(t)
    PROVE  IInv'
<1>1. holders' = holders /\ UNCHANGED <<cooldown, activeCount, pinned, reenableTimer>>
  BY DEF Fire, Callback, TimerFires, ReenableCallback
<1>2. activeCount = 0 <=> holders = {}
  BY HolderCount DEF IInv, CountsHolders
<1>3. CASE Fire(t)
  <2>1. /\ UNCHANGED <<disabled, control, reenableFailed>>
        /\ timers' = [timers EXCEPT ![t] = "fired"]
    BY <1>3 DEF Fire, TimerFires
  <2>2. TypeOK' /\ CtrlInv'
    BY <1>1, <2>1 DEF IInv, TypeOK, CtrlTypeOK, CtrlInv, TimerStates
  <2>3. AwakeOnlyForAReason'
    BY <1>1, <2>1 DEF IInv, TypeOK, CtrlTypeOK, AwakeOnlyForAReason, Idle
  <2> QED
    BY <1>1, <2>2, <2>3 DEF IInv, CountsHolders
<1>4. CASE Callback(t)
  <2>1. PICK ok \in BOOLEAN : ReenableCallback(t, ok)
    BY <1>4 DEF Callback
  <2>2. timers' = [timers EXCEPT ![t] = "free"]
    BY <2>1 DEF ReenableCallback
  <2>3. CASE NothingToReenable(activeCount, pinned)
    <3>1. UNCHANGED <<disabled, control, reenableFailed>>
      BY <2>1, <2>3 DEF ReenableCallback
    <3>2. TypeOK' /\ CtrlInv'
      BY <1>1, <2>2, <3>1 DEF IInv, TypeOK, CtrlTypeOK, CtrlInv, TimerStates
    <3>3. AwakeOnlyForAReason'
      BY <1>1, <1>2, <2>3, <3>1
      DEF IInv, TypeOK, CtrlTypeOK, AwakeOnlyForAReason, Idle, NothingToReenable
    <3> QED
      BY <1>1, <3>2, <3>3 DEF IInv, CountsHolders
  <2>4. CASE ~NothingToReenable(activeCount, pinned)
    <3>1. WriteEnable(ok)
      BY <2>1, <2>4 DEF ReenableCallback
    <3>2. TypeOK' /\ CtrlInv'
      BY <1>1, <2>2, <2>4, <3>1
      DEF IInv, TypeOK, CtrlTypeOK, CtrlInv, TimerStates, WriteEnable,
          NothingToReenable
    <3>3. AwakeOnlyForAReason'
      BY <3>1 DEF AwakeOnlyForAReason, WriteEnable
    <3> QED
      BY <1>1, <3>2, <3>3 DEF IInv, CountsHolders
  <2> QED
    BY <2>3, <2>4
<1> QED
  BY <1>3, <1>4

(* Every step keeps the strengthened invariant.                            *)
LEMMA NextIInv == IInv /\ [Next]_vars => IInv'
<1> SUFFICES ASSUME IInv, [Next]_vars
             PROVE  IInv'
  OBVIOUS
<1>1. ASSUME NEW h \in Holders, Acquire(h) PROVE IInv'
  BY <1>1, AcquireStep
<1>2. ASSUME NEW h \in Holders, Release(h) PROVE IInv'
  BY <1>2, ReleaseStep
<1>3. CASE PinRequest
  BY <1>3, PinStep
<1>4. CASE UnpinRequest
  BY <1>4, UnpinStep
<1>5. ASSUME NEW t \in Timers, Fire(t) \/ Callback(t) PROVE IInv'
  BY <1>5, TimerStep
<1>6. CASE UNCHANGED vars
  BY <1>6 DEF vars, ctrlVars, IInv, TypeOK, CtrlTypeOK, CountsHolders,
              CtrlInv, AwakeOnlyForAReason, Idle
<1> QED
  BY <1>1, <1>2, <1>3, <1>4, <1>5, <1>6 DEF Next

(* The inductive invariant holds in every reachable state.                 *)
LEMMA Invariance == Spec => []IInv
  BY InitIInv, NextIInv, PTL DEF Spec

-----------------------------------------------------------------------------
(* The controller's state always has its type: in particular the counter   *)
(* never goes below zero (the > 0 test of Enable).                         *)
THEOREM TypeCorrect == Spec => []TypeOK
<1>1. IInv => TypeOK
  BY DEF IInv
<1> QED
  BY <1>1, Invariance, PTL

(* While somebody holds or the pin is set, the platform was last told to   *)
(* stay awake (Disable, Enable, Pin, Unpin and the timer callback).        *)
THEOREM HoldersKeepAwake == Spec => []HeldMeansAwake
<1>1. IInv => HeldMeansAwake
  <2> SUFFICES ASSUME IInv, ~Idle PROVE control = "+"
    BY DEF HeldMeansAwake
  <2>1. activeCount \in Nat /\ (activeCount = 0 <=> holders = {})
    BY HolderCount DEF IInv, CountsHolders
  <2> QED
    BY <2>1 DEF IInv, CtrlInv, Idle
<1> QED
  BY <1>1, Invariance, PTL

(* The counter is the number of callers that hold (activeCount).           *)
THEOREM CounterIsExact == Spec => []CountsHolders
<1>1. IInv => CountsHolders
  BY DEF IInv
<1> QED
  BY <1>1, Invariance, PTL

(* The machine is kept awake with no holder only while the current timer   *)
(* is on its way or after the platform refused (maybeReenableLocked).      *)
THEOREM NoForgottenReenable == Spec => []AwakeOnlyForAReason
<1>1. IInv => AwakeOnlyForAReason
  BY DEF IInv
<1> QED
  BY <1>1, Invariance, PTL

-----------------------------------------------------------------------------
(* A step that lets the machine sleep leaves nobody holding.               *)
LEMMA SleepNeedsNobody ==
    ASSUME IInv, [Next]_vars
    PROVE  control' = "-" => (control = "-" \/ (holders' = {} /\ ~pinned'))
<1>1. IInv'
  BY NextIInv
<1>2. activeCount' \in Nat /\ (activeCount' = 0 <=> holders' = {})
  <2>1. IsFiniteSet(holders') /\ activeCount' = Cardinality(holders')
    BY <1>1 DEF IInv, CountsHolders
  <2> QED
    BY <2>1, HolderCount
<1>3. disabled' => control' = "+"
  BY <1>1 DEF IInv, CtrlInv
<1>4. (activeCount' > 0 \/ pinned') => disabled'
  BY <1>1 DEF IInv, CtrlInv
<1> QED
  BY <1>2, <1>3, <1>4

(* Every step of the controller is a step of the wake lock or changes      *)
(* nothing it promises.                                                    *)
LEMMA StepRefines ==
    ASSUME IInv, [Next]_vars
    PROVE  [Abstract!Next]_<<holders, pinned, control = "-">>
<1>0. control' = "-" => (control = "-" \/ (holders' = {} /\ ~pinned'))
  BY SleepNeedsNobody
<1>1. ASSUME NEW h \in Holders, Acquire(h)
      PROVE  Abstract!Acquire(h) \/ UNCHANGED <<holders, pinned, control>>
  <2>1. PICK ok \in BOOLEAN :
          /\ Disable(ok)
          /\ holders' = IF ok THEN holders \cup {h} ELSE holders
    BY <1>1 DEF Acquire
  <2>2. CASE ok
    BY <1>1, <2>1, <2>2
    DEF Acquire, Disable, WriteDisable, IInv, CtrlInv, Abstract!Acquire
  <2>3. CASE ~ok
    BY <2>1, <2>3 DEF Disable, WriteDisable
  <2> QED
    BY <2>2, <2>3
<1>2. ASSUME NEW h \in Holders, Release(h)
      PROVE  Abstract!Release(h)
  BY <1>0, <1>2 DEF Release, Enable, Abstract!Release, Abstract!MaySleep
<1>3. CASE PinRequest
  <2>1. PICK ok \in BOOLEAN : Pin(ok)
    BY <1>3 DEF PinRequest
  <2>2. CASE pinned' /\ control' = "+"
    BY <1>3, <2>2 DEF PinRequest, Abstract!Next, Abstract!Pin, Pin, IInv, TypeOK, CtrlTypeOK
  <2>3. CASE UNCHANGED <<holders, pinned, control>>
    BY <2>3
  <2>4. (pinned' /\ control' = "+") \/ UNCHANGED <<holders, pinned, control>>
    BY <1>3, <2>1
    DEF PinRequest, Pin, WriteDisable, IInv, CtrlInv, TypeOK, CtrlTypeOK
  <2> QED
    BY <2>2, <2>3, <2>4
<1>4. CASE UnpinRequest
  <2>1. PICK ok \in BOOLEAN : Unpin(ok)
    BY <1>4 DEF UnpinRequest
  <2>2. holders' = holders
    BY <1>4 DEF UnpinRequest
  <2>3. CASE ~pinned' 
    BY <1>0, <2>2, <2>3, <2>1
    DEF Abstract!Next, Abstract!Unpin, Abstract!MaySleep, Unpin, IInv, TypeOK, CtrlTypeOK
  <2>4. CASE pinned'
    <3>1. pinned /\ control' = control
      BY <2>1, <2>4
      DEF Unpin, MaybeReenable, WriteEnable, IInv, TypeOK, CtrlTypeOK
    <3> QED
      BY <2>2, <2>4, <3>1 DEF IInv, TypeOK, CtrlTypeOK
  <2> QED
    BY <2>3, <2>4
<1>5. ASSUME NEW t \in Timers, Fire(t) \/ Callback(t)
      PROVE  Abstract!Sleep \/ UNCHANGED <<holders, pinned, control>>
  <2>1. UNCHANGED <<holders, pinned>>
    BY <1>5 DEF Fire, Callback, TimerFires, ReenableCallback
  <2>2. control' = control \/ control' = "-"
    BY <1>5 DEF Fire, Callback, TimerFires, ReenableCallback, WriteEnable
  <2> QED
    BY <1>0, <2>1, <2>2 DEF Abstract!Sleep
<1>6. CASE UNCHANGED vars
  BY <1>6 DEF vars, ctrlVars
<1> QED
  BY <1>1, <1>2, <1>3, <1>4, <1>5, <1>6 DEF Next, Abstract!Next

(* The controller implements the wake lock that lib/scaletozero promises.  *)
THEOREM Refinement == Spec => ImplementsWakeLock
<1>1. Init => Abstract!Init
  BY DEF Init, CtrlInit, Abstract!Init
<1>2. IInv /\ [Next]_vars => [Abstract!Next]_<<holders, pinned, control = "-">>
  BY StepRefines
<1> QED
  BY <1>1, <1>2, Invariance, PTL DEF Spec, ImplementsWakeLock, Abstract!Spec
=============================================================================

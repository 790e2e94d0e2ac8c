---------------------- MODULE DebouncedControllerProofs ----------------------
(***************************************************************************)
(* What the operations of the scale-to-zero switch do to its state, for    *)
(* the modules that compose it with the goroutines that hold it: a flag    *)
(* that agrees with the file, and a counter that follows a set of holds.   *)
(***************************************************************************)
EXTENDS DebouncedController, FiniteSetTheorems, TLAPS

(* The controller's own view of its holders, and what it decides from it.  *)
CtrlInv ==
    /\ disabled <=> control = "+"
    /\ (activeCount > 0 \/ pinned) => disabled

-----------------------------------------------------------------------------
(* A hold more or less moves the number of holders by one, and it is zero  *)
(* only when there is none.                                                *)
LEMMA HolderCount ==
    ASSUME NEW S, IsFiniteSet(S), NEW h
    PROVE  /\ Cardinality(S) \in Nat
           /\ Cardinality(S) = 0 <=> S = {}
           /\ IsFiniteSet(S \cup {h}) /\ IsFiniteSet(S \ {h})
           /\ h \notin S => Cardinality(S \cup {h}) = Cardinality(S) + 1
           /\ h \in S => Cardinality(S \ {h}) = Cardinality(S) - 1
  BY FS_CardinalityType, FS_EmptySet, FS_AddElement, FS_RemoveElement

(* Disable keeps the controller's types and its flag in step.              *)
LEMMA DisableStep ==
    ASSUME CtrlTypeOK, CtrlInv, NEW ok \in BOOLEAN, Disable(ok)
    PROVE  /\ CtrlTypeOK'
           /\ CtrlInv'
           /\ activeCount' = IF ok THEN activeCount + 1 ELSE activeCount
           /\ disabled' = ok
           /\ pinned' = pinned
  BY DEF CtrlTypeOK, CtrlInv, Disable, CancelTimer, WriteDisable, TimerStates

(* Re-enabling, at once or by a timer, is for nobody's hold.               *)
LEMMA MaybeReenableStep ==
    ASSUME CtrlTypeOK, disabled <=> control = "+",
           NEW count \in Nat, NEW pin \in BOOLEAN, NEW ok \in BOOLEAN,
           MaybeReenable(count, pin, ok)
    PROVE  /\ disabled' \in BOOLEAN /\ control' \in {"+", "-"}
           /\ reenableFailed' \in BOOLEAN
           /\ reenableTimer' \in Timers \cup {NoTimer}
           /\ timers' \in [Timers -> TimerStates]
           /\ disabled' <=> control' = "+"
           /\ (count > 0 \/ pin) => disabled' = disabled
           /\ (count = 0 /\ ~pin /\ disabled') =>
                 \/ reenableFailed'
                 \/ /\ reenableTimer' # NoTimer
                    /\ timers'[reenableTimer'] # "free"
           /\ ~ok => disabled'
<1>1. CASE NothingToReenable(count, pin)
  BY <1>1 DEF MaybeReenable, NothingToReenable, CtrlTypeOK
<1>2. CASE ~NothingToReenable(count, pin) /\ ~cooldown
  BY <1>2 DEF MaybeReenable, NothingToReenable, CtrlTypeOK, WriteEnable
<1>3. CASE ~NothingToReenable(count, pin) /\ cooldown
  <2>1. PICK t \in Timers : /\ timers' = [timers EXCEPT ![t] = "armed"]
                            /\ reenableTimer' = t
    BY <1>3 DEF MaybeReenable
  <2>2. UNCHANGED <<disabled, control>> /\ reenableFailed' = FALSE /\ ok
    BY <1>3 DEF MaybeReenable
  <2> QED
    BY <2>1, <2>2, <1>3, TimersAssumption
    DEF CtrlTypeOK, TimerStates, NothingToReenable
<1> QED
  BY <1>1, <1>2, <1>3

(* A hold is taken by Disable: the counter counts it if that succeeds.     *)
LEMMA HoldTaken ==
    ASSUME CtrlTypeOK, CtrlInv, NEW S, IsFiniteSet(S), activeCount = Cardinality(S),
           NEW h, h \notin S, NEW ok \in BOOLEAN, Disable(ok)
    PROVE  /\ CtrlTypeOK' /\ CtrlInv'
           /\ ok => /\ IsFiniteSet(S \cup {h})
                    /\ activeCount' = Cardinality(S \cup {h})
           /\ ~ok => activeCount' = Cardinality(S)
  BY DisableStep, HolderCount

(* Enable keeps the types and the flag in step as well, and does nothing   *)
(* to the platform as long as another hold is counted.                     *)
LEMMA EnableStep ==
    ASSUME CtrlTypeOK, CtrlInv, NEW ok \in BOOLEAN, Enable(ok)
    PROVE  /\ CtrlTypeOK' /\ CtrlInv'
           /\ activeCount' = IF activeCount > 0 THEN activeCount - 1 ELSE 0
<1> DEFINE count == IF activeCount > 0 THEN activeCount - 1 ELSE 0
<1>1. /\ count \in Nat /\ activeCount \in Nat
      /\ activeCount' = count /\ MaybeReenable(count, pinned, ok)
      /\ UNCHANGED <<cooldown, pinned>>
      /\ count > 0 => activeCount > 0
  BY DEF Enable, CtrlTypeOK
<1> HIDE DEF count
<1>2. /\ disabled' \in BOOLEAN /\ control' \in {"+", "-"} /\ reenableFailed' \in BOOLEAN
      /\ reenableTimer' \in Timers \cup {NoTimer} /\ timers' \in [Timers -> TimerStates]
      /\ disabled' <=> control' = "+"
      /\ (count > 0 \/ pinned) => disabled' = disabled
  BY <1>1, MaybeReenableStep DEF CtrlTypeOK, CtrlInv
<1>3. CtrlTypeOK' /\ CtrlInv'
  BY <1>1, <1>2 DEF CtrlTypeOK, CtrlInv
<1> QED
  BY <1>1, <1>3 DEF count

(* A hold is released by Enable, whatever the platform answers.            *)
LEMMA HoldReleased ==
    ASSUME CtrlTypeOK, CtrlInv, NEW S, IsFiniteSet(S), activeCount = Cardinality(S),
           NEW h, h \in S, NEW ok \in BOOLEAN, Enable(ok)
    PROVE  /\ CtrlTypeOK' /\ CtrlInv'
           /\ IsFiniteSet(S \ {h})
           /\ activeCount' = Cardinality(S \ {h})
<1>1. /\ Cardinality(S) \in Nat /\ Cardinality(S) # 0
      /\ IsFiniteSet(S \ {h}) /\ Cardinality(S \ {h}) = Cardinality(S) - 1
  BY HolderCount
<1> QED
  BY <1>1, EnableStep
=============================================================================

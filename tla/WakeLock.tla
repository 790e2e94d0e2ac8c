------------------------------- MODULE WakeLock -------------------------------
(***************************************************************************)
(* What lib/scaletozero promises to its callers: the machine may be put to *)
(* sleep only while nobody holds it and it is not pinned.  When that       *)
(* becomes so, the machine is allowed to sleep at once, later, or (if the  *)
(* platform refuses) not before the next release.                          *)
(***************************************************************************)
CONSTANT Holders

VARIABLES
    holders,    \* who holds the machine awake
    pinned,     \* the control plane holds it too
    sleepable   \* the platform may put it to sleep

TypeOK ==
    /\ holders \subseteq Holders
    /\ pinned \in BOOLEAN
    /\ sleepable \in BOOLEAN

Init ==
    /\ holders = {}
    /\ pinned = FALSE
    /\ sleepable = TRUE

(* Allowed only in a step after which nobody holds.                        *)
MaySleep == sleepable' => (sleepable \/ (holders' = {} /\ ~pinned'))

Acquire(h) ==
    /\ h \notin holders
    /\ holders' = holders \cup {h}
    /\ sleepable' = FALSE
    /\ UNCHANGED pinned

Release(h) ==
    /\ h \in holders
    /\ holders' = holders \ {h}
    /\ sleepable' \in BOOLEAN
    /\ UNCHANGED pinned
    /\ MaySleep

Pin ==
    /\ pinned' = TRUE
    /\ sleepable' = FALSE
    /\ UNCHANGED holders

Unpin ==
    /\ pinned' = FALSE
    /\ sleepable' \in BOOLEAN
    /\ UNCHANGED holders
    /\ MaySleep

Sleep ==
    /\ holders = {} /\ ~pinned
    /\ sleepable' = TRUE
    /\ UNCHANGED <<holders, pinned>>

Next ==
    \/ \E h \in Holders : Acquire(h) \/ Release(h)
    \/ Pin
    \/ Unpin
    \/ Sleep

Spec == Init /\ [][Next]_<<holders, pinned, sleepable>>
=============================================================================

----------------------------- MODULE Idempotency -----------------------------
(***************************************************************************)
(* idempotentCalls (cmd/api/api/idempotency.go): calls made under an       *)
(* Idempotency-Key, each run by a goroutine of its own, the callers of Do  *)
(* that wait for them and may disconnect, and the timers that cancel a     *)
(* call nobody waits for.  What a call does is left open but for one bit:  *)
(* whether its response shows that it ran, which is what keep reports.     *)
(***************************************************************************)
EXTENDS Integers, Sequences, FiniteSets

CONSTANTS
    Keys, Prints,       \* the keys of the clients and the fingerprints
    Callers,            \* requests that can be inside Do at once
    Calls,              \* identities of entries: bounds those in memory
    AbandonTimers,      \* identities of timers: bounds those outstanding
    NoCall, NoTimer,    \* no entry, and a nil timer
    MaxFinished, MaxPending

ASSUME IdempotencyAssumption ==
    /\ NoCall \notin Calls
    /\ NoTimer \notin AbandonTimers
    /\ MaxFinished \in Nat
    /\ MaxPending \in Nat

VARIABLES
    calls,      \* c.calls, by key
    finished,   \* c.finished
    pending,    \* c.pending
    request,    \* the key and the fingerprint of each entry
    phase,      \* how far the goroutine of each entry is; done once it has
                \* closed entry.done, and while there is no such entry
    ctx,        \* the context of each entry: live, cancelled because no
                \* caller waits, or cancelled because the call is over
    waiters,    \* entry.waiters
    abandon,    \* entry.abandon
    timers,     \* free, armed, or fired with its callback still to run
    owner,      \* the entry in the closure of each timer that is not free
    waitsFor,   \* the entry each caller is attached to
    leaving,    \* the callers past the select of Do
    ran         \* history: how often each key ran since it was last dropped

tableVars == <<calls, finished, pending>>
entryVars == <<request, phase, ctx>>
waitVars == <<waiters, abandon, timers, owner>>
callerVars == <<waitsFor, leaving>>
vars == <<tableVars, entryVars, waitVars, callerVars, ran>>

Requests == [key : Keys, print : Prints]
Unsettled == {"running", "ran", "failed"}
Pending == {e \in Calls : phase[e] \in Unsettled}
Attached(e) == {c \in Callers : waitsFor[c] = e}

TypeOK ==
    /\ calls \in [Keys -> Calls \cup {NoCall}]
    /\ finished \in Seq(Keys)
    /\ pending \in Nat
    /\ request \in [Calls -> Requests]
    /\ phase \in [Calls -> {"done"} \cup Unsettled]
    /\ ctx \in [Calls -> {"live", "abandoned", "over"}]
    /\ waiters \in [Calls -> Nat]
    /\ abandon \in [Calls -> AbandonTimers \cup {NoTimer}]
    /\ timers \in [AbandonTimers -> {"free", "armed", "fired"}]
    /\ owner \in [AbandonTimers -> Calls \cup {NoCall}]
    /\ waitsFor \in [Callers -> Calls \cup {NoCall}]
    /\ leaving \in SUBSET Callers
    /\ ran \in [Keys -> Nat]

Init ==
    /\ calls = [k \in Keys |-> NoCall]
    /\ finished = <<>>
    /\ pending = 0
    /\ request \in [Calls -> Requests]
    /\ phase = [e \in Calls |-> "done"]
    /\ ctx = [e \in Calls |-> "over"]
    /\ waiters = [e \in Calls |-> 0]
    /\ abandon = [e \in Calls |-> NoTimer]
    /\ timers = [t \in AbandonTimers |-> "free"]
    /\ owner = [t \in AbandonTimers |-> NoCall]
    /\ waitsFor = [c \in Callers |-> NoCall]
    /\ leaving = {}
    /\ ran = [k \in Keys |-> 0]

(* An entry that nothing refers to any more is as good as a new one.       *)
Fresh(e) ==
    /\ phase[e] \notin Unsettled
    /\ \A k \in Keys : calls[k] # e
    /\ \A c \in Callers : waitsFor[c] # e
    /\ \A t \in AbandonTimers : owner[t] # e

(* The n oldest results are dropped, from the list and from the map.       *)
Oldest(list, n) == {list[i] : i \in 1..n}
Younger(list, n) == SubSeq(list, n + 1, Len(list))
Without(table, dropped) ==
    [k \in Keys |-> IF k \in dropped THEN NoCall ELSE table[k]]
RanAgain(runs, dropped) == [k \in Keys |-> IF k \in dropped THEN 0 ELSE runs[k]]

(* timer.Stop() and entry.abandon = nil: a timer that has fired is not     *)
(* stopped, its callback is waiting for the mutex.                         *)
StopAbandon(e) ==
    /\ timers' = [t \in AbandonTimers |->
                    IF t = abandon[e] /\ timers[t] = "armed"
                    THEN "free" ELSE timers[t]]
    /\ owner' = [t \in AbandonTimers |->
                    IF t = abandon[e] /\ timers[t] = "armed"
                    THEN NoCall ELSE owner[t]]
    /\ abandon' = [abandon EXCEPT ![e] = NoTimer]

(* expireLocked: the results past their retention are a prefix of the      *)
(* list, which is in the order of finishedAt.                              *)
ExpireLocked(n) ==
    /\ finished' = Younger(finished, n)
    /\ ran' = RanAgain(ran, Oldest(finished, n))

(* Another caller of the call: its pending cancellation is withdrawn.       *)
AttachLocked(c, e) ==
    /\ waiters' = [waiters EXCEPT ![e] = @ + 1]
    /\ StopAbandon(e)
    /\ waitsFor' = [waitsFor EXCEPT ![c] = e]

(* The part of Do under the mutex: table is c.calls once the old results   *)
(* are gone.  A key of another request, and a new key while too many calls *)
(* are pending, are refused.                                               *)
Do(c, r, n) ==
    LET table == Without(calls, Oldest(finished, n))
        entry == table[r.key]
    IN
    /\ waitsFor[c] = NoCall
    /\ ExpireLocked(n)
    /\ \/ /\ entry # NoCall
          /\ request[entry] # r
          /\ calls' = table
          /\ UNCHANGED <<pending, entryVars, waitVars, callerVars>>
       \/ /\ entry # NoCall
          /\ request[entry] = r
          /\ calls' = table
          /\ AttachLocked(c, entry)
          /\ UNCHANGED <<pending, entryVars, leaving>>
       \/ /\ entry = NoCall
          /\ pending >= MaxPending
          /\ calls' = table
          /\ UNCHANGED <<pending, entryVars, waitVars, callerVars>>
       \/ /\ entry = NoCall
          /\ pending < MaxPending
          /\ \E e \in Calls :
              /\ Fresh(e)
              /\ calls' = [table EXCEPT ![r.key] = e]
              /\ request' = [request EXCEPT ![e] = r]
              /\ phase' = [phase EXCEPT ![e] = "running"]
              /\ ctx' = [ctx EXCEPT ![e] = "live"]
              /\ waiters' = [waiters EXCEPT ![e] = 1]
              /\ waitsFor' = [waitsFor EXCEPT ![c] = e]
          /\ pending' = pending + 1
          /\ UNCHANGED <<abandon, timers, owner, leaving>>

(* The select of Do: the call is done, or the caller's context is; both    *)
(* leave with detach deferred.                                             *)
Leave(c) ==
    /\ waitsFor[c] # NoCall
    /\ c \notin leaving
    /\ leaving' = leaving \cup {c}
    /\ UNCHANGED <<tableVars, entryVars, waitVars, waitsFor, ran>>

(* Mutant of Detach: it looks at the count from before it left.            *)
DetachLooksFirst(c) ==
    LET e == waitsFor[c] IN
    /\ c \in leaving
    /\ leaving' = leaving \ {c}
    /\ waitsFor' = [waitsFor EXCEPT ![c] = NoCall]
    /\ waiters' = [waiters EXCEPT ![e] = @ - 1]
    /\ UNCHANGED <<abandon, timers, owner, tableVars, entryVars, ran>>

(* detach: the last caller to leave a call that is not done arms its       *)
(* abandon timer.                                                          *)
Detach(c) ==
    LET e == waitsFor[c] IN
    /\ c \in leaving
    /\ leaving' = leaving \ {c}
    /\ waitsFor' = [waitsFor EXCEPT ![c] = NoCall]
    /\ waiters' = [waiters EXCEPT ![e] = @ - 1]
    /\ \/ /\ phase[e] \notin Unsettled \/ waiters[e] > 1
          /\ UNCHANGED <<abandon, timers, owner>>
       \/ /\ phase[e] \in Unsettled
          /\ waiters[e] <= 1
          /\ \E t \in AbandonTimers :
              /\ timers[t] = "free"
              /\ \A f \in Calls : abandon[f] # t
              /\ timers' = [timers EXCEPT ![t] = "armed"]
              /\ owner' = [owner EXCEPT ![t] = e]
              /\ abandon' = [abandon EXCEPT ![e] = t]
    /\ UNCHANGED <<tableVars, entryVars, ran>>

TimerFires(t) ==
    /\ timers[t] = "armed"
    /\ timers' = [timers EXCEPT ![t] = "fired"]
    /\ UNCHANGED <<tableVars, entryVars, waiters, abandon, owner, callerVars, ran>>

(* Mutant of the callback: it does not look whose timer is pending.        *)
CallbackTrustsStop(t) ==
    LET e == owner[t] IN
    /\ timers[t] = "fired"
    /\ timers' = [timers EXCEPT ![t] = "free"]
    /\ owner' = [owner EXCEPT ![t] = NoCall]
    /\ ctx' = IF ctx[e] = "live"
              THEN [ctx EXCEPT ![e] = "abandoned"] ELSE ctx
    /\ UNCHANGED <<tableVars, request, phase, waiters, abandon, callerVars, ran>>

(* The callback of detach's AfterFunc gets the mutex: the call is          *)
(* cancelled if this is still the timer of its entry.  Nothing comes of    *)
(* cancelling a context twice.                                             *)
AbandonCallback(t) ==
    LET e == owner[t] IN
    /\ timers[t] = "fired"
    /\ timers' = [timers EXCEPT ![t] = "free"]
    /\ owner' = [owner EXCEPT ![t] = NoCall]
    /\ ctx' = IF abandon[e] = t /\ ctx[e] = "live"
              THEN [ctx EXCEPT ![e] = "abandoned"] ELSE ctx
    /\ UNCHANGED <<tableVars, request, phase, waiters, abandon,
                   callerVars, ran>>

(* run, up to the mutex: the call returns, or panics and is recovered, and *)
(* its context is cancelled.                                               *)
CallReturns(e) ==
    /\ phase[e] = "running"
    /\ \/ /\ phase' = [phase EXCEPT ![e] = "ran"]
          /\ ran' = [ran EXCEPT ![request[e].key] = @ + 1]
       \/ /\ phase' = [phase EXCEPT ![e] = "failed"]
          /\ ran' = ran
    /\ ctx' = [ctx EXCEPT ![e] = "over"]
    /\ UNCHANGED <<tableVars, request, waitVars, callerVars>>

(* Mutant of Settle: the key of a call that ran is released.               *)
SettleReleases(e) ==
    /\ phase[e] \in {"ran", "failed"}
    /\ StopAbandon(e)
    /\ pending' = pending - 1
    /\ phase' = [phase EXCEPT ![e] = "done"]
    /\ calls' = Without(calls, {request[e].key})
    /\ UNCHANGED <<finished, request, ctx, waiters, callerVars, ran>>

(* run, under the mutex: the result is kept and the oldest ones evicted,   *)
(* or the key is released.                                                 *)
Settle(e) ==
    LET key == request[e].key
        list == Append(finished, key)
        n == IF Len(list) > MaxFinished THEN Len(list) - MaxFinished ELSE 0
    IN
    /\ StopAbandon(e)
    /\ pending' = pending - 1
    /\ \/ /\ phase[e] = "ran"
          /\ phase' = [phase EXCEPT ![e] = "done"]
          /\ finished' = Younger(list, n)
          /\ calls' = Without(calls, Oldest(list, n))
          /\ ran' = RanAgain(ran, Oldest(list, n))
       \/ /\ phase[e] = "failed"
          /\ phase' = [phase EXCEPT ![e] = "done"]
          /\ calls' = Without(calls, {key})
          /\ UNCHANGED <<finished, ran>>
    /\ UNCHANGED <<request, ctx, waiters, callerVars>>

Next ==
    \/ \E c \in Callers, r \in Requests : \E n \in 0..Len(finished) : Do(c, r, n)
    \/ \E c \in Callers : Leave(c) \/ Detach(c)
    \/ \E t \in AbandonTimers : TimerFires(t) \/ AbandonCallback(t)
    \/ \E e \in Calls : CallReturns(e) \/ Settle(e)

(* Timers fire and their goroutines get the mutex; a call may run for as   *)
(* long as it likes.                                                       *)
Fairness ==
    \A t \in AbandonTimers : WF_vars(TimerFires(t)) /\ WF_vars(AbandonCallback(t))

Spec == Init /\ [][Next]_vars /\ Fairness

-----------------------------------------------------------------------------
(* A key runs at most once for as long as its result is remembered.        *)
(* ("runs each Idempotency-Key at most once", idempotency.go:33-35.)       *)
AtMostOnce == \A k \in Keys : ran[k] <= 1

(* A call that has not settled is the one its key leads to, so that a      *)
(* retry finds it: it is never dropped, and no second one runs beside it.  *)
(* (The eviction of run, expireLocked, and the delete of a released key.)  *)
RunningIsFound ==
    \A e \in Calls : phase[e] \in Unsettled => calls[request[e].key] = e

(* The list and the map agree: every key in the list is there once and     *)
(* leads to a kept result (expireLocked dereferences it), every kept       *)
(* result in the map is in the list, so that it can be dropped one day,    *)
(* and the list never exceeds its cap.                                     *)
FinishedAgrees ==
    /\ \A i, j \in 1..Len(finished) : finished[i] = finished[j] => i = j
    /\ \A k \in Keys :
        (\E i \in 1..Len(finished) : finished[i] = k)
            <=> calls[k] # NoCall /\ phase[calls[k]] = "done"
    /\ Len(finished) <= MaxFinished

(* The pending counter is the number of goroutines that have not settled,  *)
(* so that the cap neither leaks places nor lets more calls in.            *)
(* (pending++ of Do, pending-- of run, the maxPending case of Do.)         *)
PendingExact ==
    /\ pending = Cardinality(Pending)
    /\ pending <= MaxPending

(* The waiters of an entry are the callers attached to it, until each has  *)
(* detached.  (The literal of Do, attachLocked and detach.)                *)
WaitersExact ==
    \A e \in Calls : waiters[e] = Cardinality(Attached(e))

(* A call that nobody waits for is on its way to be cancelled: its timer   *)
(* is pending, unless the context is cancelled already; and a call that    *)
(* somebody waits for has no timer.                                        *)
(* (attachLocked and detach.)                                              *)
AbandonedIsTimed ==
    \A e \in Calls : phase[e] \in Unsettled =>
        IF waiters[e] > 0
        THEN abandon[e] = NoTimer
        ELSE ctx[e] = "live" =>
                /\ abandon[e] # NoTimer
                /\ timers[abandon[e]] # "free"
                /\ owner[abandon[e]] = e

(* A call is cancelled as abandoned only while no caller waits for it,     *)
(* however late the callback of a stopped timer runs.                      *)
(* (The entry.abandon == timer test of detach's callback.)                 *)
CancelledOnlyAbandoned ==
    [][\A e \in Calls :
        (ctx[e] # "abandoned" /\ ctx'[e] = "abandoned")
            => Attached(e) = {}]_vars

(* A call nobody waits for does not run on for ever: it is cancelled,      *)
(* unless it returns or a retry comes first.                               *)
(* ("Then its context is cancelled", idempotency.go:104-107.)              *)
AbandonedIsCancelled ==
    \A e \in Calls :
        (phase[e] = "running" /\ waiters[e] = 0)
            ~> (ctx[e] # "live" \/ waiters[e] > 0)
=============================================================================

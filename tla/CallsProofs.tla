------------------------------ MODULE CallsProofs ------------------------------
(***************************************************************************)
(* Theorems about calls that are sent again: Idempotency, for any keys,    *)
(* callers, entries, timers and caps; and PlaywrightExecutors, for any     *)
(* names, executors, processes and calls.                                  *)
(***************************************************************************)
EXTENDS Idempotency, PlaywrightExecutors, SequenceTheorems, FiniteSetTheorems, TLAPS

InList(list, k) == \E i \in 1..Len(list) : list[i] = k
Once(list) == \A i, j \in 1..Len(list) : list[i] = list[j] => i = j

(* What the map, the list and the history say of each other: a call that   *)
(* has not settled is found under its key; the list holds, once each, the  *)
(* keys whose call is done; an entry of the map belongs to the key that    *)
(* leads to it; and how often a key ran is to be read off its entry.       *)
TableInv(table, list, runs, req, ph) ==
    /\ \A e \in Calls : ph[e] \in Unsettled => table[req[e].key] = e
    /\ Once(list)
    /\ \A k \in Keys :
        InList(list, k) <=> table[k] # NoCall /\ ph[table[k]] = "done"
    /\ \A k \in Keys : table[k] # NoCall => req[table[k]].key = k
    /\ \A k \in Keys :
        runs[k] = IF table[k] # NoCall /\ ph[table[k]] \in {"ran", "done"}
                  THEN 1 ELSE 0

(* The counters are the sizes of the sets they stand for.                  *)
CountInv ==
    /\ IsFiniteSet(Pending)
    /\ PendingExact
    /\ \A e \in Calls : IsFiniteSet(Attached(e))
    /\ WaitersExact
    /\ \A c \in leaving : waitsFor[c] # NoCall

(* An entry points to a timer only while it runs with nobody waiting; it   *)
(* then points to one unless it is cancelled; and a timer that is pending  *)
(* and pointed to was made for the entry that points to it.                *)
TimerInv ==
    \A e \in Calls :
        /\ abandon[e] # NoTimer => phase[e] \in Unsettled /\ waiters[e] = 0
        /\ (phase[e] \in Unsettled /\ waiters[e] = 0 /\ ctx[e] = "live")
              => abandon[e] # NoTimer /\ timers[abandon[e]] # "free"
        /\ (abandon[e] # NoTimer /\ timers[abandon[e]] # "free")
              => owner[abandon[e]] = e

(* The inductive invariant: AtMostOnce holds because a key is free to run  *)
(* again only when its entry has left the map, and it leaves the map only  *)
(* together with the result it stands for.                                 *)
IInv ==
    /\ TypeOK
    /\ TableInv(calls, finished, ran, request, phase)
    /\ Len(finished) <= MaxFinished
    /\ CountInv
    /\ TimerInv

-----------------------------------------------------------------------------
(* Dropping the n oldest keys of a list without repetitions leaves the     *)
(* other keys, without repetitions.                                        *)
LEMMA DropOldest ==
    ASSUME NEW list \in Seq(Keys), Once(list), NEW n \in 0..Len(list)
    PROVE  /\ Younger(list, n) \in Seq(Keys)
           /\ Len(Younger(list, n)) = Len(list) - n
           /\ Once(Younger(list, n))
           /\ \A k : InList(Younger(list, n), k)
                        <=> InList(list, k) /\ k \notin Oldest(list, n)
           /\ Oldest(list, n) \subseteq Keys
<1> DEFINE young == Younger(list, n)
<1>1. /\ young \in Seq(Keys)
      /\ Len(young) = Len(list) - n
      /\ \A i \in 1..(Len(list) - n) : young[i] = list[n + i]
  <2>1. /\ n \in Nat /\ Len(list) \in Nat /\ n <= Len(list)
        /\ \A i \in (n + 1)..Len(list) : list[i] \in Keys
    OBVIOUS
  <2>2. /\ young \in Seq(Keys)
        /\ Len(young) = IF n + 1 <= Len(list) THEN Len(list) - (n + 1) + 1 ELSE 0
        /\ \A i \in 1..(Len(list) - (n + 1) + 1) : young[i] = list[(n + 1) + i - 1]
    BY <2>1, SubSeqProperties DEF Younger
  <2>3. Len(young) = Len(list) - n
    BY <2>1, <2>2
  <2>4. ASSUME NEW i \in 1..(Len(list) - n) PROVE young[i] = list[n + i]
    <3>1. i \in 1..(Len(list) - (n + 1) + 1) /\ (n + 1) + i - 1 = n + i
      BY <2>1
    <3> QED
      BY <2>2, <3>1
  <2> QED
    BY <2>2, <2>3, <2>4
<1>2. Once(young)
  <2>1. SUFFICES ASSUME NEW i \in 1..(Len(list) - n), NEW j \in 1..(Len(list) - n),
                        list[n + i] = list[n + j]
                 PROVE  i = j
    BY <1>1 DEF Once
  <2>2. n + i \in 1..Len(list) /\ n + j \in 1..Len(list)
    OBVIOUS
  <2>3. n + i = n + j
    BY <2>1, <2>2 DEF Once
  <2> QED
    BY <2>3
<1>3. ASSUME NEW k PROVE InList(young, k) <=> InList(list, k) /\ k \notin Oldest(list, n)
  <2>1. ASSUME InList(young, k)
        PROVE  InList(list, k) /\ k \notin Oldest(list, n)
    BY <1>1, <2>1 DEF InList, Oldest, Once
  <2>2. ASSUME InList(list, k), k \notin Oldest(list, n)
        PROVE  InList(young, k)
    <3>1. PICK i \in 1..Len(list) : list[i] = k
      BY <2>2 DEF InList
    <3>2. i - n \in 1..(Len(list) - n) /\ young[i - n] = k
      BY <1>1, <2>2, <3>1 DEF Oldest
    <3> QED BY <1>1, <3>2 DEF InList
  <2> QED BY <2>1, <2>2
<1>4. Oldest(list, n) \subseteq Keys
  BY DEF Oldest
<1> HIDE DEF young
<1> QED BY <1>1, <1>2, <1>3, <1>4 DEF young

(* Appending a new key to a list without repetitions.                      *)
LEMMA AppendNew ==
    ASSUME NEW list \in Seq(Keys), Once(list), NEW key \in Keys, ~InList(list, key)
    PROVE  /\ Append(list, key) \in Seq(Keys)
           /\ Len(Append(list, key)) = Len(list) + 1
           /\ Once(Append(list, key))
           /\ \A k : InList(Append(list, key), k) <=> InList(list, k) \/ k = key
  BY AppendProperties DEF Once, InList

Tables == [Keys -> Calls \cup {NoCall}]
Phases == [Calls -> {"done"} \cup Unsettled]

(* Forgetting the n oldest results, from the map and from the list at      *)
(* once, leaves both in step: what is forgotten was done.                  *)
LEMMA ForgetOldest ==
    ASSUME NEW table \in Tables, NEW list \in Seq(Keys), NEW runs \in [Keys -> Nat],
           NEW req \in [Calls -> Requests], NEW ph \in Phases,
           TableInv(table, list, runs, req, ph), NEW n \in 0..Len(list)
    PROVE  /\ Without(table, Oldest(list, n)) \in Tables
           /\ Younger(list, n) \in Seq(Keys)
           /\ Len(Younger(list, n)) = Len(list) - n
           /\ RanAgain(runs, Oldest(list, n)) \in [Keys -> Nat]
           /\ TableInv(Without(table, Oldest(list, n)), Younger(list, n),
                       RanAgain(runs, Oldest(list, n)), req, ph)
<1> DEFINE old == Oldest(list, n)
           young == Younger(list, n)
           left == Without(table, old)
<1>1. Once(list)
  BY DEF TableInv
<1>2. /\ young \in Seq(Keys) /\ Len(young) = Len(list) - n /\ Once(young)
      /\ \A k : InList(young, k) <=> InList(list, k) /\ k \notin old
      /\ old \subseteq Keys
  BY <1>1, DropOldest
<1>3. \A k \in old : InList(list, k)
  BY DEF Oldest, InList
<1> HIDE DEF old, young
<1>4. left \in Tables /\ RanAgain(runs, old) \in [Keys -> Nat]
  BY DEF Tables, Without, RanAgain
<1>5. \A k \in Keys : left[k] = IF k \in old THEN NoCall ELSE table[k]
  BY DEF Without
<1> HIDE DEF left
<1>6. ASSUME NEW e \in Calls, ph[e] \in Unsettled PROVE left[req[e].key] = e
  <2>1. table[req[e].key] = e /\ req[e].key \in Keys
    BY <1>6 DEF TableInv, Requests
  <2>2. req[e].key \notin old
    BY <1>3, <1>6, <2>1 DEF TableInv, Unsettled
  <2> QED BY <1>5, <2>1, <2>2
<1>7. \A k \in Keys : InList(young, k) <=> left[k] # NoCall /\ ph[left[k]] = "done"
  BY <1>2, <1>5 DEF TableInv
<1>8. \A k \in Keys : left[k] # NoCall => req[left[k]].key = k
  BY <1>5 DEF TableInv
<1>9. \A k \in Keys :
        RanAgain(runs, old)[k] =
            IF left[k] # NoCall /\ ph[left[k]] \in {"ran", "done"} THEN 1 ELSE 0
  BY <1>5 DEF TableInv, RanAgain
<1> QED BY <1>2, <1>4, <1>6, <1>7, <1>8, <1>9 DEF TableInv, old, young, left

(* A member more or less moves the size of a finite set by one.            *)
LEMMA CountStep ==
    ASSUME NEW S, IsFiniteSet(S), NEW x
    PROVE  /\ Cardinality(S) \in Nat
           /\ Cardinality(S) = 0 <=> S = {}
           /\ IsFiniteSet(S \cup {x}) /\ IsFiniteSet(S \ {x})
           /\ x \notin S => Cardinality(S \cup {x}) = Cardinality(S) + 1
           /\ x \in S => Cardinality(S \ {x}) = Cardinality(S) - 1
  BY FS_CardinalityType, FS_EmptySet, FS_AddElement, FS_RemoveElement

(* Stopping the timer of an entry touches no timer another entry points to.*)
LEMMA StopAbandonStep ==
    ASSUME TypeOK, TimerInv, NEW e \in Calls, StopAbandon(e)
    PROVE  /\ abandon' \in [Calls -> AbandonTimers \cup {NoTimer}]
           /\ timers' \in [AbandonTimers -> {"free", "armed", "fired"}]
           /\ owner' \in [AbandonTimers -> Calls \cup {NoCall}]
           /\ abandon'[e] = NoTimer
           /\ \A f \in Calls : f # e =>
                /\ abandon'[f] = abandon[f]
                /\ abandon[f] # NoTimer =>
                     /\ timers'[abandon[f]] = timers[abandon[f]]
                     /\ owner'[abandon[f]] = owner[abandon[f]]
<1>1. /\ abandon' \in [Calls -> AbandonTimers \cup {NoTimer}]
      /\ timers' \in [AbandonTimers -> {"free", "armed", "fired"}]
      /\ owner' \in [AbandonTimers -> Calls \cup {NoCall}]
      /\ abandon'[e] = NoTimer
  BY DEF TypeOK, StopAbandon
<1>2. ASSUME NEW f \in Calls, f # e
      PROVE  /\ abandon'[f] = abandon[f]
             /\ abandon[f] # NoTimer =>
                  /\ timers'[abandon[f]] = timers[abandon[f]]
                  /\ owner'[abandon[f]] = owner[abandon[f]]
  <2>1. abandon'[f] = abandon[f]
    BY <1>2 DEF TypeOK, StopAbandon
  <2>2. ASSUME abandon[f] # NoTimer
        PROVE  ~(abandon[f] = abandon[e] /\ timers[abandon[f]] = "armed")
    BY <1>2, <2>2 DEF TimerInv
  <2>3. abandon[f] # NoTimer => abandon[f] \in AbandonTimers
    BY DEF TypeOK
  <2> QED BY <2>1, <2>2, <2>3 DEF StopAbandon
<1> QED BY <1>1, <1>2

(* Nothing is cached at first.                                             *)
LEMMA InitInv == ASSUME Init PROVE IInv
<1> USE IdempotencyAssumption
<1>1. TypeOK
  BY DEF Init, TypeOK
<1>2. TableInv(calls, finished, ran, request, phase) /\ Len(finished) <= MaxFinished
  BY DEF Init, TableInv, Once, InList, Unsettled, Requests
<1>3. Pending = {} /\ \A e \in Calls : Attached(e) = {}
  BY DEF Init, Pending, Attached, Unsettled
<1>4. IsFiniteSet({}) /\ Cardinality({}) = 0
  BY FS_EmptySet
<1>5. PendingExact /\ WaitersExact
  <2>1. pending = 0 /\ \A e \in Calls : waiters[e] = 0
    BY DEF Init
  <2>2. PendingExact
    BY <1>3, <1>4, <2>1 DEF PendingExact
  <2>3. WaitersExact
    BY <1>3, <1>4, <2>1 DEF WaitersExact
  <2> QED BY <2>2, <2>3
<1>6. CountInv
  BY <1>3, <1>4, <1>5 DEF Init, CountInv
<1>7. TimerInv
  BY DEF Init, TimerInv, Unsettled
<1> QED BY <1>1, <1>2, <1>6, <1>7 DEF IInv

(* Neither the entries and their waiters nor the timers are touched.       *)
LEMMA SameWaiters ==
    ASSUME IInv, UNCHANGED <<pending, entryVars, waitVars, waitsFor>>,
           leaving' \subseteq {c \in Callers : waitsFor[c] # NoCall}
    PROVE  CountInv' /\ TimerInv'
<1>1. Pending' = Pending /\ \A e \in Calls : Attached(e)' = Attached(e)
  BY DEF Pending, Attached, entryVars
<1> QED BY <1>1 DEF IInv, CountInv, PendingExact, WaitersExact, TimerInv,
                    entryVars, waitVars

(* The old results go when Do gets the mutex.                              *)
LEMMA DoForgets ==
    ASSUME IInv, NEW n \in 0..Len(finished), ExpireLocked(n)
    PROVE  /\ Without(calls, Oldest(finished, n)) \in Tables
           /\ finished' \in Seq(Keys) /\ Len(finished') <= MaxFinished
           /\ ran' \in [Keys -> Nat]
           /\ TableInv(Without(calls, Oldest(finished, n)), finished', ran',
                       request, phase)
<1>1. /\ calls \in Tables /\ finished \in Seq(Keys) /\ ran \in [Keys -> Nat]
      /\ request \in [Calls -> Requests] /\ phase \in Phases
      /\ TableInv(calls, finished, ran, request, phase)
      /\ Len(finished) \in Nat /\ Len(finished) <= MaxFinished
  BY DEF IInv, TypeOK, Tables, Phases
<1>2. /\ Without(calls, Oldest(finished, n)) \in Tables
      /\ Younger(finished, n) \in Seq(Keys)
      /\ Len(Younger(finished, n)) = Len(finished) - n
      /\ RanAgain(ran, Oldest(finished, n)) \in [Keys -> Nat]
      /\ TableInv(Without(calls, Oldest(finished, n)), Younger(finished, n),
                  RanAgain(ran, Oldest(finished, n)), request, phase)
  BY <1>1, ForgetOldest
<1>3. Len(finished) - n <= MaxFinished
  BY <1>1, IdempotencyAssumption
<1> QED BY <1>2, <1>3 DEF ExpireLocked

(* A refused caller changes nothing but what has expired.                  *)
LEMMA RefuseInv ==
    ASSUME IInv, NEW n \in 0..Len(finished), ExpireLocked(n),
           calls' = Without(calls, Oldest(finished, n)),
           UNCHANGED <<pending, entryVars, waitVars, callerVars>>
    PROVE  IInv'
<1>1. TypeOK'
  BY DoForgets DEF IInv, TypeOK, Tables, entryVars, waitVars, callerVars
<1>2. TableInv(calls', finished', ran', request', phase') /\ Len(finished') <= MaxFinished
  BY DoForgets DEF entryVars
<1>3. leaving' \subseteq {c \in Callers : waitsFor[c] # NoCall}
  BY DEF IInv, TypeOK, CountInv, callerVars
<1>4. CountInv' /\ TimerInv'
  BY <1>3, SameWaiters DEF callerVars
<1> QED BY <1>1, <1>2, <1>4 DEF IInv

(* A caller attaches to a call of its own request.                         *)
LEMMA AttachInv ==
    ASSUME IInv, NEW n \in 0..Len(finished), ExpireLocked(n),
           calls' = Without(calls, Oldest(finished, n)),
           NEW c \in Callers, waitsFor[c] = NoCall,
           NEW e \in Calls, AttachLocked(c, e),
           UNCHANGED <<pending, entryVars, leaving>>
    PROVE  IInv'
<1> USE IdempotencyAssumption
<1>1. TypeOK /\ TimerInv /\ CountInv
  BY DEF IInv
<1>2. /\ StopAbandon(e)
      /\ waiters' \in [Calls -> Nat]
      /\ \A f \in Calls : waiters'[f] = IF f = e THEN waiters[f] + 1 ELSE waiters[f]
      /\ waitsFor' \in [Callers -> Calls \cup {NoCall}]
      /\ \A d \in Callers : waitsFor'[d] = IF d = c THEN e ELSE waitsFor[d]
  BY <1>1 DEF AttachLocked, TypeOK
<1>3. TypeOK'
  BY <1>1, <1>2, DoForgets, StopAbandonStep DEF TypeOK, Tables, entryVars
<1>4. TableInv(calls', finished', ran', request', phase') /\ Len(finished') <= MaxFinished
  BY DoForgets DEF entryVars
<1>5. CountInv'
  <2>1. Pending' = Pending
    BY DEF Pending, entryVars
  <2>2. /\ c \notin Attached(e)
        /\ Attached(e)' = Attached(e) \cup {c}
        /\ \A f \in Calls : f # e => Attached(f)' = Attached(f)
    BY <1>2 DEF Attached
  <2>3. IsFiniteSet(Attached(e)') /\ Cardinality(Attached(e)') = waiters[e] + 1
    BY <1>1, <2>2, CountStep DEF CountInv, WaitersExact
  <2>4. \A f \in Calls : IsFiniteSet(Attached(f)') /\ waiters'[f] = Cardinality(Attached(f)')
    BY <1>1, <1>2, <2>2, <2>3 DEF CountInv, WaitersExact
  <2>5. \A d \in leaving' : waitsFor'[d] # NoCall
    BY <1>1, <1>2 DEF CountInv, TypeOK
  <2> QED BY <1>1, <2>1, <2>4, <2>5 DEF CountInv, PendingExact, WaitersExact
<1>6. TimerInv'
  <2> SUFFICES ASSUME NEW f \in Calls
               PROVE  /\ abandon'[f] # NoTimer => phase'[f] \in Unsettled /\ waiters'[f] = 0
                      /\ (phase'[f] \in Unsettled /\ waiters'[f] = 0 /\ ctx'[f] = "live")
                            => abandon'[f] # NoTimer /\ timers'[abandon'[f]] # "free"
                      /\ (abandon'[f] # NoTimer /\ timers'[abandon'[f]] # "free")
                            => owner'[abandon'[f]] = f
    BY DEF TimerInv
  <2>1. CASE f = e
    BY <1>1, <1>2, <2>1, StopAbandonStep DEF TypeOK
  <2>2. CASE f # e
    BY <1>1, <1>2, <2>2, StopAbandonStep DEF TimerInv, entryVars
  <2> QED BY <2>1, <2>2
<1> QED BY <1>3, <1>4, <1>5, <1>6 DEF IInv

(* A new call starts under a key that leads to none.                       *)
StartCall(c, r, e, table) ==
    /\ Fresh(e)
    /\ table[r.key] = NoCall
    /\ pending < MaxPending
    /\ calls' = [table EXCEPT ![r.key] = e]
    /\ request' = [request EXCEPT ![e] = r]
    /\ phase' = [phase EXCEPT ![e] = "running"]
    /\ ctx' = [ctx EXCEPT ![e] = "live"]
    /\ waiters' = [waiters EXCEPT ![e] = 1]
    /\ waitsFor' = [waitsFor EXCEPT ![c] = e]
    /\ pending' = pending + 1
    /\ UNCHANGED <<abandon, timers, owner, leaving>>

(* A caller asks for the lock of a key.                                    *)
LEMMA StartInv ==
    ASSUME IInv, NEW c \in Callers, waitsFor[c] = NoCall, NEW r \in Requests,
           NEW n \in 0..Len(finished), ExpireLocked(n), NEW e \in Calls,
           StartCall(c, r, e, Without(calls, Oldest(finished, n)))
    PROVE  IInv'
<1> DEFINE table == Without(calls, Oldest(finished, n))
<1> USE IdempotencyAssumption
<1>1. TypeOK /\ TimerInv /\ CountInv /\ r.key \in Keys
  BY DEF IInv, Requests
<1>2. \A k \in Keys : table[k] # e
  BY DEF StartCall, Without, Fresh
<1>3. /\ table \in Tables
      /\ finished' \in Seq(Keys) /\ Len(finished') <= MaxFinished
      /\ ran' \in [Keys -> Nat]
      /\ TableInv(table, finished', ran', request, phase)
      /\ StartCall(c, r, e, table)
  BY DoForgets
<1> HIDE DEF table
<1>4. TypeOK'
  <2>1. calls' \in Tables
    BY <1>1, <1>3 DEF StartCall, Tables
  <2>4. request' \in [Calls -> Requests]
    BY <1>1, <1>3 DEF TypeOK, StartCall
  <2>3. phase' \in Phases
    BY <1>1, <1>3 DEF TypeOK, StartCall, Phases, Unsettled
  <2>2. /\ ctx' \in [Calls -> {"live", "abandoned", "over"}]
        /\ waiters' \in [Calls -> Nat] /\ pending' \in Nat
        /\ waitsFor' \in [Callers -> Calls \cup {NoCall}]
    BY <1>1, <1>3 DEF TypeOK, StartCall
  <2> QED BY <1>1, <1>3, <2>1, <2>2, <2>3, <2>4 DEF TypeOK, StartCall, Tables, Phases
<1>5. /\ \A k \in Keys : calls'[k] = IF k = r.key THEN e ELSE table[k]
      /\ \A f \in Calls : /\ request'[f] = IF f = e THEN r ELSE request[f]
                          /\ phase'[f] = IF f = e THEN "running" ELSE phase[f]
                          /\ ctx'[f] = IF f = e THEN "live" ELSE ctx[f]
                          /\ waiters'[f] = IF f = e THEN 1 ELSE waiters[f]
      /\ \A d \in Callers : waitsFor'[d] = IF d = c THEN e ELSE waitsFor[d]
      /\ \A k \in Keys : table[k] \in Calls \cup {NoCall}
  BY <1>1, <1>3 DEF TypeOK, StartCall, Tables
<1>6. TableInv(calls', finished', ran', request', phase')
  <2>1. \A f \in Calls : phase'[f] \in Unsettled => calls'[request'[f].key] = f
    BY <1>1, <1>3, <1>5 DEF TableInv, StartCall, TypeOK, Requests
  <2>2. \A k \in Keys : InList(finished', k)
                            <=> calls'[k] # NoCall /\ phase'[calls'[k]] = "done"
    BY <1>2, <1>3, <1>5 DEF TableInv, StartCall
  <2>3. \A k \in Keys : calls'[k] # NoCall => request'[calls'[k]].key = k
    BY <1>2, <1>3, <1>5 DEF TableInv
  <2>4. \A k \in Keys :
          ran'[k] = IF calls'[k] # NoCall /\ phase'[calls'[k]] \in {"ran", "done"}
                    THEN 1 ELSE 0
    BY <1>2, <1>3, <1>5 DEF TableInv, StartCall
  <2> QED BY <1>3, <2>1, <2>2, <2>3, <2>4 DEF TableInv
<1>7. CountInv'
  <2>1. e \notin Pending /\ Pending' = Pending \cup {e}
    BY <1>3, <1>5 DEF Pending, StartCall, Fresh, Unsettled
  <2>2. IsFiniteSet(Pending') /\ PendingExact'
    <3>1. /\ IsFiniteSet(Pending') /\ Cardinality(Pending') = Cardinality(Pending) + 1
      BY <1>1, <2>1, CountStep DEF CountInv
    <3>2. pending = Cardinality(Pending) /\ pending \in Nat
      BY <1>1 DEF CountInv, PendingExact, TypeOK
    <3>3. pending' = Cardinality(Pending')
      BY <1>3, <3>1, <3>2 DEF StartCall
    <3>4. pending' <= MaxPending
      BY <1>3, <3>2 DEF StartCall
    <3> QED BY <3>1, <3>3, <3>4 DEF PendingExact
  <2>3. /\ Attached(e) = {}
        /\ Attached(e)' = {c}
        /\ \A f \in Calls : f # e => Attached(f)' = Attached(f)
    BY <1>3, <1>5 DEF Attached, StartCall, Fresh
  <2>4. IsFiniteSet(Attached(e)') /\ Cardinality(Attached(e)') = 1
    BY <2>3, FS_Singleton
  <2>5. \A f \in Calls : IsFiniteSet(Attached(f)') /\ waiters'[f] = Cardinality(Attached(f)')
    <3> SUFFICES ASSUME NEW f \in Calls
                 PROVE  IsFiniteSet(Attached(f)') /\ waiters'[f] = Cardinality(Attached(f)')
      OBVIOUS
    <3>1. CASE f = e
      BY <1>5, <2>4, <3>1
    <3>2. CASE f # e
      <4>1. Attached(f)' = Attached(f) /\ waiters'[f] = waiters[f]
        BY <1>5, <2>3, <3>2
      <4> QED BY <1>1, <4>1 DEF CountInv, WaitersExact
    <3> QED BY <3>1, <3>2
  <2>6. \A d \in leaving' : waitsFor'[d] # NoCall
    BY <1>1, <1>3, <1>5 DEF CountInv, TypeOK, StartCall
  <2> QED BY <2>2, <2>5, <2>6 DEF CountInv, WaitersExact
<1>8. TimerInv'
  BY <1>1, <1>3, <1>5 DEF TimerInv, TypeOK, StartCall, Fresh
<1> QED BY <1>3, <1>4, <1>6, <1>7, <1>8 DEF IInv

(* A caller that holds a lock looks the key up, runs or waits.             *)
LEMMA DoInv ==
    ASSUME IInv, NEW c \in Callers, NEW r \in Requests, NEW n \in 0..Len(finished),
           Do(c, r, n)
    PROVE  IInv'
<1> DEFINE table == Without(calls, Oldest(finished, n))
<1>1. waitsFor[c] = NoCall /\ ExpireLocked(n) /\ r.key \in Keys
  BY DEF Do, Requests
<1>2. table[r.key] \in Calls \cup {NoCall}
  BY <1>1, DoForgets DEF Tables
<1>3. CASE calls' = table /\ UNCHANGED <<pending, entryVars, waitVars, callerVars>>
  BY <1>1, <1>3, RefuseInv
<1>4. CASE /\ table[r.key] # NoCall /\ calls' = table
           /\ AttachLocked(c, table[r.key])
           /\ UNCHANGED <<pending, entryVars, leaving>>
  BY <1>1, <1>2, <1>4, AttachInv
<1>5. CASE \E e \in Calls : StartCall(c, r, e, table)
  BY <1>1, <1>5, StartInv
<1> QED BY <1>3, <1>4, <1>5 DEF Do, StartCall

(* A caller is done.                                                       *)
LEMMA LeaveInv ==
    ASSUME IInv, NEW c \in Callers, Leave(c)
    PROVE  IInv'
<1>1. TypeOK'
  BY DEF IInv, TypeOK, Leave, tableVars, entryVars, waitVars
<1>2. leaving' \subseteq {d \in Callers : waitsFor[d] # NoCall}
  BY DEF IInv, TypeOK, CountInv, Leave
<1>3. CountInv' /\ TimerInv'
  BY <1>2, SameWaiters DEF Leave, tableVars
<1> QED BY <1>1, <1>3 DEF IInv, Leave, tableVars, entryVars

(* The count of an entry goes down with the caller that leaves it, and the *)
(* last one leaves a timer behind.                                         *)
LEMMA DetachInv ==
    ASSUME IInv, NEW c \in Callers, Detach(c)
    PROVE  IInv'
<1> USE IdempotencyAssumption
<1>1. TypeOK /\ TimerInv /\ CountInv
  BY DEF IInv
<1>0. waitsFor[c] \in Calls
  BY <1>1 DEF Detach, CountInv, TypeOK
<1> PICK e \in Calls : e = waitsFor[c]
  BY <1>0
<1>2. c \in Attached(e) /\ waiters[e] \in Nat
  BY <1>1 DEF TypeOK, Attached
<1>3. waiters[e] = Cardinality(Attached(e)) /\ IsFiniteSet(Attached(e))
  BY <1>1, <1>2 DEF CountInv, WaitersExact
<1>4. waiters[e] > 0
  <2>1. Cardinality(Attached(e)) # 0
    BY <1>2, <1>3, CountStep
  <2> QED BY <1>2, <1>3, <2>1
<1>5. /\ waiters' = [waiters EXCEPT ![e] = @ - 1]
      /\ waitsFor' = [waitsFor EXCEPT ![c] = NoCall]
      /\ leaving' = leaving \ {c}
      /\ UNCHANGED <<tableVars, entryVars, ran>>
  BY DEF Detach
<1>6. /\ waiters' \in [Calls -> Nat]
      /\ \A f \in Calls : waiters'[f] = IF f = e THEN waiters[f] - 1 ELSE waiters[f]
      /\ waitsFor' \in [Callers -> Calls \cup {NoCall}]
      /\ \A d \in Callers : waitsFor'[d] = IF d = c THEN NoCall ELSE waitsFor[d]
  BY <1>1, <1>2, <1>4, <1>5 DEF TypeOK
<1>7. TableInv(calls', finished', ran', request', phase') /\ Len(finished') <= MaxFinished
  BY <1>5 DEF IInv, tableVars, entryVars
<1>8. CountInv'
  <2>1. Pending' = Pending
    BY <1>5 DEF Pending, entryVars
  <2>2. /\ Attached(e)' = Attached(e) \ {c}
        /\ \A f \in Calls : f # e => Attached(f)' = Attached(f)
    BY <1>2, <1>6 DEF Attached
  <2>3. IsFiniteSet(Attached(e)') /\ Cardinality(Attached(e)') = waiters[e] - 1
    BY <1>2, <1>3, <2>2, CountStep
  <2>4. ASSUME NEW f \in Calls
        PROVE  IsFiniteSet(Attached(f)') /\ waiters'[f] = Cardinality(Attached(f)')
    <3>1. CASE f = e
      BY <1>6, <2>3, <3>1
    <3>2. CASE f # e
      <4>1. Attached(f)' = Attached(f) /\ waiters'[f] = waiters[f]
        BY <1>6, <2>2, <3>2
      <4> QED BY <1>1, <4>1 DEF CountInv, WaitersExact
    <3> QED BY <3>1, <3>2
  <2>5. \A d \in leaving' : waitsFor'[d] # NoCall
    BY <1>1, <1>5, <1>6 DEF CountInv, TypeOK
  <2>6. PendingExact'
    BY <1>1, <1>5, <2>1 DEF CountInv, PendingExact, tableVars
  <2> QED BY <1>1, <2>1, <2>4, <2>5, <2>6 DEF CountInv, WaitersExact
<1>9. CASE /\ phase[e] \notin Unsettled \/ waiters[e] > 1
           /\ UNCHANGED <<abandon, timers, owner>>
  <2>1. TypeOK'
    BY <1>1, <1>5, <1>6, <1>9 DEF TypeOK, tableVars, entryVars
  <2>2. TimerInv'
    BY <1>1, <1>2, <1>5, <1>6, <1>9 DEF TimerInv, entryVars
  <2> QED BY <1>7, <1>8, <2>1, <2>2 DEF IInv
<1>10. ASSUME phase[e] \in Unsettled, waiters[e] <= 1,
              NEW t \in AbandonTimers, timers[t] = "free",
              \A f \in Calls : abandon[f] # t,
              timers' = [timers EXCEPT ![t] = "armed"],
              owner' = [owner EXCEPT ![t] = e],
              abandon' = [abandon EXCEPT ![e] = t]
       PROVE  IInv'
  <2>1. /\ timers' \in [AbandonTimers -> {"free", "armed", "fired"}]
        /\ owner' \in [AbandonTimers -> Calls \cup {NoCall}]
        /\ abandon' \in [Calls -> AbandonTimers \cup {NoTimer}]
    BY <1>1, <1>2, <1>10 DEF TypeOK
  <2>2. TypeOK'
    BY <1>1, <1>5, <1>6, <2>1 DEF TypeOK, tableVars, entryVars
  <2>3. /\ \A u \in AbandonTimers : /\ timers'[u] = IF u = t THEN "armed" ELSE timers[u]
                                    /\ owner'[u] = IF u = t THEN e ELSE owner[u]
        /\ \A f \in Calls : abandon'[f] = IF f = e THEN t ELSE abandon[f]
        /\ \A f \in Calls : abandon[f] \in AbandonTimers \cup {NoTimer}
        /\ waiters'[e] = 0
    BY <1>1, <1>2, <1>4, <1>6, <1>10 DEF TypeOK
  <2>4. TimerInv'
    BY <1>1, <1>2, <1>5, <1>6, <1>10, <2>3 DEF TimerInv, entryVars
  <2> QED BY <1>7, <1>8, <2>2, <2>4 DEF IInv
<1> QED BY <1>9, <1>10 DEF Detach

(* The timer of a result fires.                                            *)
LEMMA TimerFiresInv ==
    ASSUME IInv, NEW t \in AbandonTimers, TimerFires(t)
    PROVE  IInv'
<1>1. TypeOK'
  BY DEF IInv, TypeOK, TimerFires, tableVars, entryVars, callerVars
<1>2. TableInv(calls', finished', ran', request', phase') /\ Len(finished') <= MaxFinished
  BY DEF IInv, TimerFires, tableVars, entryVars
<1>3. Pending' = Pending /\ \A e \in Calls : Attached(e)' = Attached(e)
  BY DEF Pending, Attached, TimerFires, entryVars, callerVars
<1>4. CountInv'
  BY <1>3 DEF IInv, CountInv, PendingExact, WaitersExact, TimerFires, tableVars,
              callerVars
<1>5. TimerInv'
  BY DEF IInv, TypeOK, TimerInv, TimerFires, entryVars
<1> QED BY <1>1, <1>2, <1>4, <1>5 DEF IInv

(* The callback cancels the call of its timer, and only while nobody waits.*)
LEMMA AbandonCallbackInv ==
    ASSUME IInv, NEW t \in AbandonTimers, AbandonCallback(t)
    PROVE  /\ IInv'
           /\ \A e \in Calls :
                (ctx[e] # "abandoned" /\ ctx'[e] = "abandoned") => Attached(e) = {}
<1> USE IdempotencyAssumption
<1>1. TypeOK /\ TimerInv /\ CountInv
  BY DEF IInv
<1>0. owner[t] \in Calls \cup {NoCall}
  BY <1>1 DEF TypeOK
<1> PICK e \in Calls \cup {NoCall} : e = owner[t]
  BY <1>0
<1>3. /\ ctx' \in [Calls -> {"live", "abandoned", "over"}]
      /\ \A f \in Calls : ctx'[f] = IF f = e /\ abandon[e] = t /\ ctx[e] = "live"
                                   THEN "abandoned" ELSE ctx[f]
  BY <1>1 DEF TypeOK, AbandonCallback
<1>4. /\ timers' \in [AbandonTimers -> {"free", "armed", "fired"}]
      /\ owner' \in [AbandonTimers -> Calls \cup {NoCall}]
      /\ \A u \in AbandonTimers : u # t => timers'[u] = timers[u] /\ owner'[u] = owner[u]
      /\ timers'[t] = "free"
  BY <1>1 DEF TypeOK, AbandonCallback
<1>5. UNCHANGED <<tableVars, request, phase, waiters, abandon, callerVars, ran>>
  BY DEF AbandonCallback
<1>6. TypeOK'
  BY <1>1, <1>3, <1>4, <1>5 DEF TypeOK, tableVars, callerVars
<1>7. TableInv(calls', finished', ran', request', phase') /\ Len(finished') <= MaxFinished
  BY <1>5 DEF IInv, tableVars
<1>8. Pending' = Pending /\ \A f \in Calls : Attached(f)' = Attached(f)
  BY <1>5 DEF Pending, Attached, callerVars
<1>9. CountInv'
  BY <1>1, <1>5, <1>8 DEF CountInv, PendingExact, WaitersExact, tableVars, callerVars
<1>10. timers[t] = "fired"
  BY DEF AbandonCallback
<1>11. \A f \in Calls : abandon[f] = t => f = e
  BY <1>1, <1>10 DEF TimerInv
<1>12. TimerInv'
  <2> SUFFICES ASSUME NEW f \in Calls
               PROVE  /\ abandon'[f] # NoTimer => phase'[f] \in Unsettled /\ waiters'[f] = 0
                      /\ (phase'[f] \in Unsettled /\ waiters'[f] = 0 /\ ctx'[f] = "live")
                            => abandon'[f] # NoTimer /\ timers'[abandon'[f]] # "free"
                      /\ (abandon'[f] # NoTimer /\ timers'[abandon'[f]] # "free")
                            => owner'[abandon'[f]] = f
    BY DEF TimerInv
  <2>1. CASE abandon[f] = t
    BY <1>1, <1>3, <1>4, <1>5, <1>11, <2>1 DEF TimerInv, TypeOK
  <2>2. CASE abandon[f] # t
    <3>1. abandon[f] # NoTimer => abandon[f] \in AbandonTimers
      BY <1>1 DEF TypeOK
    <3> QED BY <1>1, <1>3, <1>4, <1>5, <2>2, <3>1 DEF TimerInv, TypeOK
  <2> QED BY <2>1, <2>2
<1>13. ASSUME NEW f \in Calls, ctx[f] # "abandoned", ctx'[f] = "abandoned"
       PROVE  Attached(f) = {}
  <2>1. abandon[f] = t
    BY <1>3, <1>13
  <2>2. waiters[f] = 0
    BY <1>1, <2>1 DEF TimerInv
  <2>3. IsFiniteSet(Attached(f)) /\ Cardinality(Attached(f)) = 0
    BY <1>1, <2>2 DEF CountInv, WaitersExact
  <2> QED BY <2>3, CountStep
<1> QED BY <1>6, <1>7, <1>9, <1>12, <1>13 DEF IInv

(* A call returns: if it ran, it is the first of its key to run.           *)
LEMMA CallReturnsInv ==
    ASSUME IInv, NEW e \in Calls, CallReturns(e)
    PROVE  IInv'
<1> USE IdempotencyAssumption
<1>1. TypeOK /\ TimerInv /\ CountInv
  BY DEF IInv
<1>2. request[e].key \in Keys /\ calls[request[e].key] = e
  BY DEF IInv, TypeOK, TableInv, CallReturns, Unsettled, Requests
<1> PICK key \in Keys : key = request[e].key /\ calls[key] = e
  BY <1>2
<1>3. ran[key] = 0 /\ \A k \in Keys : calls[k] = e => k = key
  BY DEF IInv, TableInv, CallReturns
<1>4. PICK p \in {"ran", "failed"} :
        /\ phase' = [phase EXCEPT ![e] = p]
        /\ p = "ran" => ran' = [ran EXCEPT ![key] = @ + 1]
        /\ p = "failed" => ran' = ran
  BY DEF CallReturns
<1>5. /\ ctx' = [ctx EXCEPT ![e] = "over"]
      /\ UNCHANGED <<tableVars, request, waitVars, callerVars>>
      /\ phase[e] = "running"
  BY DEF CallReturns
<1>6. /\ phase' \in Phases
      /\ ctx' \in [Calls -> {"live", "abandoned", "over"}]
      /\ ran' \in [Keys -> Nat]
      /\ \A f \in Calls : /\ phase'[f] = IF f = e THEN p ELSE phase[f]
                          /\ ctx'[f] = IF f = e THEN "over" ELSE ctx[f]
      /\ \A k \in Keys : ran'[k] = IF k = key /\ p = "ran" THEN 1 ELSE ran[k]
  <2>1. /\ phase' \in Phases
        /\ \A f \in Calls : phase'[f] = IF f = e THEN p ELSE phase[f]
    BY <1>1, <1>4 DEF TypeOK, Phases, Unsettled
  <2>2. /\ ctx' \in [Calls -> {"live", "abandoned", "over"}]
        /\ \A f \in Calls : ctx'[f] = IF f = e THEN "over" ELSE ctx[f]
    BY <1>1, <1>5 DEF TypeOK
  <2>3. CASE p = "ran"
    <3>1. ran' = [ran EXCEPT ![key] = 1]
      BY <1>1, <1>3, <1>4, <2>3 DEF TypeOK
    <3> QED BY <1>1, <2>1, <2>2, <2>3, <3>1 DEF TypeOK
  <2>4. CASE p = "failed"
    BY <1>1, <1>4, <2>1, <2>2, <2>4 DEF TypeOK
  <2> QED BY <2>3, <2>4
<1>7. TypeOK'
  BY <1>1, <1>5, <1>6 DEF TypeOK, Phases, tableVars, waitVars, callerVars
<1>8. TableInv(calls', finished', ran', request', phase')
  <2>1. UNCHANGED <<calls, finished, request>>
    BY <1>5 DEF tableVars
  <2>2. TableInv(calls, finished, ran, request, phase)
    BY DEF IInv
  <2>3. \A f \in Calls : phase'[f] \in Unsettled => calls[request[f].key] = f
    BY <1>6, <2>2 DEF TableInv
  <2>4. \A k \in Keys : InList(finished, k)
                            <=> calls[k] # NoCall /\ phase'[calls[k]] = "done"
    BY <1>1, <1>3, <1>5, <1>6, <2>2 DEF TableInv, TypeOK
  <2>5. \A k \in Keys :
          ran'[k] = IF calls[k] # NoCall /\ phase'[calls[k]] \in {"ran", "done"}
                    THEN 1 ELSE 0
    BY <1>1, <1>3, <1>5, <1>6, <2>2 DEF TableInv, TypeOK
  <2> QED BY <2>1, <2>2, <2>3, <2>4, <2>5 DEF TableInv
<1>9. CountInv'
  <2>1. Pending' = Pending /\ \A f \in Calls : Attached(f)' = Attached(f)
    BY <1>5, <1>6 DEF Pending, Attached, Unsettled, callerVars
  <2> QED BY <1>1, <1>5, <2>1 DEF CountInv, PendingExact, WaitersExact, tableVars,
                                   waitVars, callerVars
<1>10. TimerInv'
  BY <1>1, <1>5, <1>6 DEF TimerInv, Unsettled, waitVars
<1>11. Len(finished') <= MaxFinished
  BY <1>5 DEF IInv, tableVars
<1> QED BY <1>7, <1>8, <1>9, <1>10, <1>11 DEF IInv

(* A call settles: its result enters the list and the oldest ones leave    *)
(* it, or its key is released.                                             *)
LEMMA SettleInv ==
    ASSUME IInv, NEW e \in Calls, Settle(e)
    PROVE  IInv'
<1> USE IdempotencyAssumption
<1>1. TypeOK /\ TimerInv /\ CountInv /\ TableInv(calls, finished, ran, request, phase)
  BY DEF IInv
<1>2. /\ phase[e] \in {"ran", "failed"} /\ StopAbandon(e) /\ pending' = pending - 1
      /\ phase' = [phase EXCEPT ![e] = "done"]
      /\ UNCHANGED <<request, ctx, waiters, callerVars>>
  BY DEF Settle
<1>3. request[e].key \in Keys /\ calls[request[e].key] = e
  BY <1>1, <1>2 DEF TypeOK, TableInv, Unsettled, Requests
<1> PICK key \in Keys : key = request[e].key /\ calls[key] = e
  BY <1>3
<1>4. /\ phase' \in Phases
      /\ \A f \in Calls : phase'[f] = IF f = e THEN "done" ELSE phase[f]
      /\ \A k \in Keys : calls[k] = e => k = key
      /\ \A k \in Keys : calls[k] \in Calls \cup {NoCall}
  BY <1>1, <1>2 DEF TypeOK, Phases, TableInv
<1>5. /\ calls' \in Tables /\ finished' \in Seq(Keys) /\ ran' \in [Keys -> Nat]
      /\ TableInv(calls', finished', ran', request, phase')
      /\ Len(finished') <= MaxFinished
  <2>1. CASE phase[e] = "ran"
    <3> DEFINE list == Append(finished, key)
               n == IF Len(list) > MaxFinished THEN Len(list) - MaxFinished ELSE 0
    <3>1. /\ finished' = Younger(list, n)
          /\ calls' = Without(calls, Oldest(list, n))
          /\ ran' = RanAgain(ran, Oldest(list, n))
      BY <2>1 DEF Settle
    <3>2. ~InList(finished, key) /\ Once(finished) /\ finished \in Seq(Keys)
      BY <1>1, <2>1 DEF TableInv, TypeOK
    <3>3. /\ list \in Seq(Keys) /\ Len(list) = Len(finished) + 1 /\ Once(list)
          /\ \A k : InList(list, k) <=> InList(finished, k) \/ k = key
      BY <3>2, AppendNew
    <3> HIDE DEF list
    <3>4. TableInv(calls, list, ran, request, phase')
      <4>1. \A f \in Calls : phase'[f] \in Unsettled => calls[request[f].key] = f
        BY <1>1, <1>4 DEF TableInv, Unsettled
      <4>2. \A k \in Keys : InList(list, k)
                                <=> calls[k] # NoCall /\ phase'[calls[k]] = "done"
        BY <1>1, <1>4, <3>3 DEF TableInv
      <4>3. \A k \in Keys :
              ran[k] = IF calls[k] # NoCall /\ phase'[calls[k]] \in {"ran", "done"}
                       THEN 1 ELSE 0
        BY <1>1, <1>4, <2>1 DEF TableInv
      <4> QED BY <1>1, <3>3, <4>1, <4>2, <4>3 DEF TableInv
    <3>5. n \in 0..Len(list) /\ Len(list) - n <= MaxFinished
      BY <3>3
    <3> HIDE DEF n
    <3>6. /\ calls \in Tables /\ ran \in [Keys -> Nat]
          /\ request \in [Calls -> Requests]
      BY <1>1 DEF TypeOK, Tables
    <3> QED BY <1>4, <3>1, <3>3, <3>4, <3>5, <3>6, ForgetOldest
  <2>2. CASE phase[e] = "failed"
    <3>1. calls' = Without(calls, {key}) /\ UNCHANGED <<finished, ran>>
      BY <2>2 DEF Settle
    <3>2. /\ calls' \in Tables
          /\ \A k \in Keys : calls'[k] = IF k = key THEN NoCall ELSE calls[k]
      BY <1>1, <3>1 DEF Without, TypeOK, Tables
    <3>3. ASSUME NEW f \in Calls, phase'[f] \in Unsettled
          PROVE  calls'[request[f].key] = f
      <4>1. f # e /\ phase[f] \in Unsettled
        BY <1>4, <3>3 DEF Unsettled
      <4>2. request[f].key \in Keys
        BY <1>1 DEF TypeOK, Requests
      <4>3. calls[request[f].key] = f
        BY <1>1, <4>1 DEF TableInv
      <4> QED BY <3>2, <4>1, <4>2, <4>3
    <3>4. \A k \in Keys : InList(finished, k)
                              <=> calls'[k] # NoCall /\ phase'[calls'[k]] = "done"
      BY <1>1, <1>4, <2>2, <3>2 DEF TableInv
    <3>5. \A k \in Keys :
            ran[k] = IF calls'[k] # NoCall /\ phase'[calls'[k]] \in {"ran", "done"}
                     THEN 1 ELSE 0
      BY <1>1, <1>4, <2>2, <3>2 DEF TableInv
    <3>6. \A k \in Keys : calls'[k] # NoCall => request[calls'[k]].key = k
      BY <1>1, <3>2 DEF TableInv
    <3>7. TableInv(calls', finished', ran', request, phase')
      BY <1>1, <3>1, <3>3, <3>4, <3>5, <3>6 DEF TableInv
    <3> QED BY <1>1, <3>1, <3>2, <3>7 DEF IInv, TypeOK
  <2> QED BY <1>2, <2>1, <2>2
<1>6. CountInv' /\ pending' \in Nat
  <2>1. e \in Pending /\ Pending' = Pending \ {e}
    BY <1>2, <1>4 DEF Pending, Unsettled
  <2>2. \A f \in Calls : Attached(f)' = Attached(f)
    BY <1>2 DEF Attached, callerVars
  <2>3. /\ IsFiniteSet(Pending') /\ Cardinality(Pending') \in Nat
        /\ Cardinality(Pending') = Cardinality(Pending) - 1
    BY <1>1, <2>1, CountStep DEF CountInv
  <2>4. pending = Cardinality(Pending) /\ pending <= MaxPending /\ pending \in Nat
    BY <1>1 DEF CountInv, PendingExact, TypeOK
  <2>5. pending' = Cardinality(Pending') /\ pending' <= MaxPending
    BY <1>2, <2>3, <2>4
  <2> QED BY <1>1, <1>2, <2>2, <2>3, <2>5
          DEF CountInv, PendingExact, WaitersExact, callerVars
<1>7. TypeOK'
  BY <1>1, <1>2, <1>4, <1>5, <1>6, StopAbandonStep
  DEF TypeOK, Tables, Phases, callerVars
<1>8. TimerInv'
  <2> SUFFICES ASSUME NEW f \in Calls
               PROVE  /\ abandon'[f] # NoTimer => phase'[f] \in Unsettled /\ waiters'[f] = 0
                      /\ (phase'[f] \in Unsettled /\ waiters'[f] = 0 /\ ctx'[f] = "live")
                            => abandon'[f] # NoTimer /\ timers'[abandon'[f]] # "free"
                      /\ (abandon'[f] # NoTimer /\ timers'[abandon'[f]] # "free")
                            => owner'[abandon'[f]] = f
    BY DEF TimerInv
  <2>1. CASE f = e
    BY <1>1, <1>2, <1>4, <2>1, StopAbandonStep DEF Unsettled
  <2>2. CASE f # e
    BY <1>1, <1>2, <1>4, <2>2, StopAbandonStep DEF TimerInv
  <2> QED BY <2>1, <2>2
<1> QED BY <1>2, <1>5, <1>6, <1>7, <1>8 DEF IInv

-----------------------------------------------------------------------------
(* The invariant is inductive.                                             *)
LEMMA StepInv == ASSUME IInv, [Next]_vars PROVE IInv'
<1>1. CASE UNCHANGED vars
  <2>1. Pending' = Pending /\ \A e \in Calls : Attached(e)' = Attached(e)
    BY <1>1 DEF vars, entryVars, callerVars, Pending, Attached
  <2> QED BY <1>1, <2>1
          DEF IInv, TypeOK, CountInv, PendingExact, WaitersExact, TimerInv, vars,
              tableVars, entryVars, waitVars, callerVars
<1>2. ASSUME NEW c \in Callers, NEW r \in Requests, NEW n \in 0..Len(finished),
             Do(c, r, n)
      PROVE  IInv'
  BY <1>2, DoInv
<1>3. ASSUME NEW c \in Callers, Leave(c) \/ Detach(c) PROVE IInv'
  BY <1>3, LeaveInv, DetachInv
<1>4. ASSUME NEW t \in AbandonTimers, TimerFires(t) \/ AbandonCallback(t) PROVE IInv'
  BY <1>4, TimerFiresInv, AbandonCallbackInv
<1>5. ASSUME NEW e \in Calls, CallReturns(e) \/ Settle(e) PROVE IInv'
  BY <1>5, CallReturnsInv, SettleInv
<1> QED BY <1>1, <1>2, <1>3, <1>4, <1>5 DEF Next

(* The strengthened invariant holds throughout.                            *)
LEMMA Invariance == Spec => []IInv
<1>1. Init => IInv
  BY InitInv
<1>2. IInv /\ [Next]_vars => IInv'
  BY StepInv
<1> QED BY <1>1, <1>2, PTL DEF Spec

(* Every variable of idempotentCalls keeps its type: in particular neither *)
(* pending nor the waiters of an entry go below zero.                      *)
THEOREM TypeCorrect == Spec => []TypeOK
  BY Invariance, PTL DEF IInv

(* A key runs at most once for as long as its result is remembered, for    *)
(* any number of keys, callers, calls and timers and any caps: "runs each  *)
(* Idempotency-Key at most once".                                          *)
THEOREM RunsAtMostOnce == Spec => []AtMostOnce
<1>1. IInv => AtMostOnce
  BY DEF IInv, TableInv, AtMostOnce
<1> QED BY <1>1, Invariance, PTL

(* A retry finds the call that is running, and the list and the map of     *)
(* remembered results agree, so that expireLocked finds every key it reads.*)
THEOREM TablesAgree == Spec => [](RunningIsFound /\ FinishedAgrees)
<1>1. IInv => RunningIsFound /\ FinishedAgrees
  BY DEF IInv, TableInv, Once, InList, RunningIsFound, FinishedAgrees
<1> QED BY <1>1, Invariance, PTL

(* The caps are exact: pending counts the calls that have not settled, and *)
(* the waiters of an entry are its callers.                                *)
THEOREM CountsAreExact == Spec => [](PendingExact /\ WaitersExact)
  BY Invariance, PTL DEF IInv, CountInv

(* A running call has a caller, or a timer that will cancel it.            *)
THEOREM AbandonedHasTimer == Spec => []AbandonedIsTimed
<1>1. IInv => AbandonedIsTimed
  BY DEF IInv, TypeOK, TimerInv, AbandonedIsTimed
<1> QED BY <1>1, Invariance, PTL

(* However late the callback of a stopped timer runs, it does not cancel a *)
(* call that has a caller again.                                           *)
THEOREM NeverCancelledUnderACaller == Spec => CancelledOnlyAbandoned
<1> DEFINE Kept == \A e \in Calls :
                      (ctx[e] # "abandoned" /\ ctx'[e] = "abandoned")
                          => Attached(e) = {}
<1>1. IInv /\ [Next]_vars => [Kept]_vars
  <2> SUFFICES ASSUME IInv, Next PROVE Kept
    OBVIOUS
  <2>1. ASSUME NEW t \in AbandonTimers, AbandonCallback(t) PROVE Kept
    BY <2>1, AbandonCallbackInv
  <2>2. ASSUME NEW c \in Callers, NEW r \in Requests, NEW n \in 0..Len(finished),
               Do(c, r, n)
        PROVE  Kept
    BY <2>2 DEF IInv, TypeOK, Do, entryVars
  <2>3. ASSUME NEW c \in Callers, Leave(c) \/ Detach(c) PROVE Kept
    BY <2>3 DEF Leave, Detach, entryVars
  <2>4. ASSUME NEW t \in AbandonTimers, TimerFires(t) PROVE Kept
    BY <2>4 DEF TimerFires, entryVars
  <2>5. ASSUME NEW e \in Calls, CallReturns(e) \/ Settle(e) PROVE Kept
    BY <2>5 DEF IInv, TypeOK, CallReturns, Settle
  <2> QED BY <2>1, <2>2, <2>3, <2>4, <2>5 DEF Next
<1> QED BY <1>1, Invariance, PTL DEF Spec, CancelledOnlyAbandoned

-----------------------------------------------------------------------------
(* PlaywrightExecutors.                                                    *)

(* The inductive invariant.  A call in an executor has its token, so one   *)
(* call at a time starts and forgets its process and drops it.             *)
TokenHeld ==
    \A c \in Executions :
        /\ pc[c] # "idle" => on[c] \in Objects
        /\ Inside(c) => admission[on[c]] = c /\ cause[on[c]] # "setup"
        /\ pc[c] \in {"boot", "tab", "send", "sent", "missing", "answered", "failed"} =>
            using[c] \in Children

(* The code of a call has run once if it has, and the call is over then.   *)
RunOnce ==
    \A c \in Executions :
        /\ codeRan[c] \in {0, 1}
        /\ codeRan[c] = 1 => pc[c] \in {"answered", "failed"}

(* An executor has one name; one that is retired has none, and a cause.    *)
NamedOnce ==
    /\ \A n, p \in Names :
        executors[n] = executors[p] /\ executors[n] # NoExecutor => n = p
    /\ \A e \in Objects : retiring[e] # "no" => cause[e] # "none" /\ ~Registered(e)
    /\ \A e \in gone : retiring[e] \in {"close", "last", "done"}

ExecutorsInv ==
    /\ PlaywrightTypeOK /\ TokenHeld /\ RunOnce /\ NamedOnce
    /\ NoStrayProcess /\ RetiredIsQuiet

CallSteps == {"idle", "waiting", "ensure", "boot", "tab", "send", "sent", "missing",
              "answered", "failed"}

(* A call finds its executor, or makes one, or is turned away.             *)
LEMMA ExecutorForHolds ==
    ASSUME ExecutorsInv, NEW c \in Executions, NEW n \in Requested, ExecutorFor(c, n)
    PROVE  ExecutorsInv'
<1>1. PlaywrightTypeOK'
  <2>1. executors' \in [Names -> Objects \cup {NoExecutor}] /\ closed' \in BOOLEAN
    BY DEF ExecutorsInv, ExecutorFor, managerVars, PlaywrightTypeOK
  <2>2. cause' \in [Objects -> {"none", "setup", "ended"}]
    BY DEF ExecutorsInv, ExecutorFor, managerVars, PlaywrightTypeOK
  <2>3. target' \in [Objects -> {"none", "open", "closed"}]
    BY DEF ExecutorsInv, ExecutorFor, executorVars, PlaywrightTypeOK
  <2>4. child' \in [Objects -> Children \cup {NoChild}]
    BY DEF ExecutorsInv, ExecutorFor, executorVars, PlaywrightTypeOK
  <2>5. retiring' \in [Objects -> {"no", "delete", "shutdown", "close", "last", "done"}]
    BY DEF ExecutorsInv, ExecutorFor, endVars, PlaywrightTypeOK
  <2>6. gone' \in SUBSET Objects
    BY DEF ExecutorsInv, ExecutorFor, endVars, PlaywrightTypeOK
  <2>7. pc' \in [Executions -> CallSteps]
    BY DEF ExecutorsInv, ExecutorFor, PlaywrightTypeOK, CallSteps
  <2>8. on' \in [Executions -> Objects \cup {NoExecutor}]
    BY PlaywrightAssumption DEF ExecutorsInv, ExecutorFor, PlaywrightTypeOK
  <2>9. answer' \in {"none", "200", "cancelled", "409", "500"}
    BY DEF ExecutorFor
  <2>10. UNCHANGED <<restarts, admission, proc, killed, watch, using, under, resent, handed, codeRan>>
    BY DEF ExecutorFor, managerVars, executorVars, procVars, codeVars
  <2> QED
    BY <2>1, <2>2, <2>3, <2>4, <2>5, <2>6, <2>7, <2>8, <2>9, <2>10 DEF
         ExecutorsInv, PlaywrightTypeOK, CallSteps
<1>2. TokenHeld'
  BY PlaywrightAssumption DEF ExecutorsInv, ExecutorFor, managerVars,
       executorVars, PlaywrightTypeOK, TokenHeld, Inside
<1>3. RunOnce'
  BY DEF ExecutorsInv, ExecutorFor, codeVars, PlaywrightTypeOK, RunOnce
<1>4. NamedOnce'
  BY DEF ExecutorsInv, ExecutorFor, managerVars, endVars, PlaywrightTypeOK,
       NamedOnce, Registered, Unreferenced
<1>5. NoStrayProcess'
  BY DEF ExecutorsInv, ExecutorFor, procVars, PlaywrightTypeOK, NoStrayProcess
<1>6. RetiredIsQuiet'
  BY DEF ExecutorsInv, ExecutorFor, executorVars, endVars, procVars,
       PlaywrightTypeOK, RetiredIsQuiet, Inside
<1> QED
  BY <1>1, <1>2, <1>3, <1>4, <1>5, <1>6 DEF ExecutorsInv

(* The caller goes while the call waits to be admitted.                    *)
LEMMA GiveUpHolds ==
    ASSUME ExecutorsInv, NEW c \in Executions, GiveUp(c)
    PROVE  ExecutorsInv'
<1>1. PlaywrightTypeOK'
  BY PlaywrightAssumption DEF ExecutorsInv, GiveUp, Return, managerVars,
       executorVars, endVars, procVars, PlaywrightTypeOK
<1>2. TokenHeld'
  BY DEF ExecutorsInv, GiveUp, Return, managerVars, executorVars, PlaywrightTypeOK,
       TokenHeld, Inside
<1>3. RunOnce'
  BY DEF ExecutorsInv, GiveUp, Return, RunOnce
<1>4. NamedOnce'
  BY DEF ExecutorsInv, GiveUp, managerVars, endVars, NamedOnce, Registered
<1>5. NoStrayProcess'
  BY DEF ExecutorsInv, GiveUp, Return, procVars, NoStrayProcess
<1>6. RetiredIsQuiet'
  BY DEF ExecutorsInv, GiveUp, Return, executorVars, endVars, procVars,
       RetiredIsQuiet, Inside
<1> QED
  BY <1>1, <1>2, <1>3, <1>4, <1>5, <1>6 DEF ExecutorsInv

(* The call is admitted, or finds that the executor has been retired.      *)
LEMMA AdmitHolds ==
    ASSUME ExecutorsInv, NEW c \in Executions, Admit(c)
    PROVE  ExecutorsInv'
<1>1. PlaywrightTypeOK'
  BY PlaywrightAssumption DEF ExecutorsInv, Admit, CauseOf, Return, managerVars,
       endVars, procVars, codeVars, PlaywrightTypeOK, TokenHeld
<1>2. TokenHeld'
  BY PlaywrightAssumption DEF ExecutorsInv, Admit, Return, managerVars,
       PlaywrightTypeOK, TokenHeld, Inside
<1>3. RunOnce'
  BY DEF ExecutorsInv, Admit, Return, codeVars, PlaywrightTypeOK, RunOnce
<1>4. NamedOnce'
  BY DEF ExecutorsInv, Admit, managerVars, endVars, NamedOnce, Registered
<1>5. NoStrayProcess'
  BY DEF ExecutorsInv, Admit, Return, procVars, PlaywrightTypeOK, NoStrayProcess
<1>6. RetiredIsQuiet'
  BY DEF ExecutorsInv, Admit, Return, endVars, procVars, PlaywrightTypeOK,
       RetiredIsQuiet, NamedOnce, Inside
<1> QED
  BY <1>1, <1>2, <1>3, <1>4, <1>5, <1>6 DEF ExecutorsInv

(* It finds a process, or starts one.                                      *)
LEMMA EnsureChildHolds ==
    ASSUME ExecutorsInv, NEW c \in Executions, EnsureChild(c)
    PROVE  ExecutorsInv'
<1>1. PlaywrightTypeOK'
  BY PlaywrightAssumption DEF ExecutorsInv, EnsureChild, Process, Discard,
       SetupFails, HasChild, Return, Release, End, managerVars, executorVars,
       endVars, procVars, codeVars, PlaywrightTypeOK, TokenHeld
<1>2. TokenHeld'
  BY DEF ExecutorsInv, EnsureChild, Process, Discard, SetupFails, HasChild, Return,
       Release, End, managerVars, executorVars, PlaywrightTypeOK, TokenHeld, Inside
<1>3. RunOnce'
  BY DEF ExecutorsInv, EnsureChild, SetupFails, HasChild, Return, codeVars,
       PlaywrightTypeOK, RunOnce
<1>4. NamedOnce'
  BY PlaywrightAssumption DEF ExecutorsInv, EnsureChild, SetupFails, End,
       managerVars, endVars, NamedOnce, Registered
<1>5. NoStrayProcess'
  BY DEF ExecutorsInv, EnsureChild, Discard, SetupFails, HasChild, Return, procVars,
       PlaywrightTypeOK, NoStrayProcess
<1>6. RetiredIsQuiet'
  BY DEF ExecutorsInv, EnsureChild, Discard, SetupFails, HasChild, Return,
       executorVars, endVars, procVars, PlaywrightTypeOK, RetiredIsQuiet, Inside
<1> QED
  BY <1>1, <1>2, <1>3, <1>4, <1>5, <1>6 DEF ExecutorsInv

(* The process has started.                                                *)
LEMMA BootedHolds ==
    ASSUME ExecutorsInv, NEW c \in Executions, Booted(c)
    PROVE  ExecutorsInv'
<1>1. PlaywrightTypeOK'
  <2>1. /\ executors' \in [Names -> Objects \cup {NoExecutor}]
        /\ closed' \in BOOLEAN
        /\ restarts' \in [Objects -> 0..MaxRestarts]
    BY PlaywrightAssumption DEF ExecutorsInv, Booted, managerVars,
         PlaywrightTypeOK
  <2>2. /\ cause' \in [Objects -> {"none", "setup", "ended"}]
        /\ admission' \in [Objects -> Executions \cup {Nobody}]
    BY PlaywrightAssumption DEF ExecutorsInv, Booted, Release, managerVars,
         PlaywrightTypeOK
  <2>3. /\ target' \in [Objects -> {"none", "open", "closed"}]
        /\ child' \in [Objects -> Children \cup {NoChild}]
    BY PlaywrightAssumption DEF ExecutorsInv, Booted, PlaywrightTypeOK
  <2>4. UNCHANGED <<retiring, gone>>
    BY PlaywrightAssumption DEF Booted, endVars
  <2>5. proc' \in [Children -> {"none", "up", "dead"}] /\ killed' \in SUBSET Children
    BY PlaywrightAssumption DEF ExecutorsInv, Booted, PlaywrightTypeOK
  <2>6. watch' \in [Children -> Lives \cup {NoLife}]
    BY PlaywrightAssumption DEF ExecutorsInv, Booted, Tie, PlaywrightTypeOK,
         Lives, TokenHeld
  <2>7. /\ pc' \in [Executions -> CallSteps]
        /\ on' \in [Executions -> Objects \cup {NoExecutor}]
    BY PlaywrightAssumption DEF ExecutorsInv, Booted, Return, HasChild,
         PlaywrightTypeOK, CallSteps
  <2>8. /\ using' \in [Executions -> Children \cup {NoChild}]
        /\ under' \in [Executions -> 0..MaxRestarts]
    BY PlaywrightAssumption DEF ExecutorsInv, Booted, Return, HasChild,
         PlaywrightTypeOK
  <2>9. resent' \in SUBSET Executions /\ handed' \in SUBSET Executions
    BY PlaywrightAssumption DEF ExecutorsInv, Booted, Return, HasChild, codeVars,
         PlaywrightTypeOK
  <2>10. /\ codeRan' \in [Executions -> Nat]
        /\ answer' \in {"none", "200", "cancelled", "409", "500"}
    BY PlaywrightAssumption DEF ExecutorsInv, Booted, CauseOf, Return, HasChild,
         codeVars, PlaywrightTypeOK
  <2> QED
    BY <2>1, <2>2, <2>3, <2>4, <2>5, <2>6, <2>7, <2>8, <2>9, <2>10 DEF
         ExecutorsInv, PlaywrightTypeOK, CallSteps
<1>2. TokenHeld'
  BY DEF ExecutorsInv, Booted, Return, Release, HasChild, managerVars,
       PlaywrightTypeOK, TokenHeld, Inside
<1>3. RunOnce'
  BY DEF ExecutorsInv, Booted, Return, HasChild, codeVars, PlaywrightTypeOK,
       RunOnce
<1>4. NamedOnce'
  BY DEF ExecutorsInv, Booted, managerVars, endVars, NamedOnce, Registered
<1>5. NoStrayProcess'
  BY PlaywrightAssumption DEF ExecutorsInv, Booted, Tie, Return, HasChild,
       PlaywrightTypeOK, NoStrayProcess, TokenHeld, NoLife
<1>6. RetiredIsQuiet'
  BY DEF ExecutorsInv, Booted, Return, HasChild, endVars, PlaywrightTypeOK,
       RetiredIsQuiet, Inside
<1> QED
  BY <1>1, <1>2, <1>3, <1>4, <1>5, <1>6 DEF ExecutorsInv

(* It has not.                                                             *)
LEMMA BootFailsHolds ==
    ASSUME ExecutorsInv, NEW c \in Executions, BootFails(c)
    PROVE  ExecutorsInv'
<1>1. PlaywrightTypeOK'
  BY PlaywrightAssumption DEF ExecutorsInv, BootFails, Kill, SetupFails, Return,
       Release, End, endVars, PlaywrightTypeOK, TokenHeld
<1>2. TokenHeld'
  BY DEF ExecutorsInv, BootFails, SetupFails, Return, Release, End,
       PlaywrightTypeOK, TokenHeld, Inside
<1>3. RunOnce'
  BY DEF ExecutorsInv, BootFails, SetupFails, Return, RunOnce
<1>4. NamedOnce'
  BY PlaywrightAssumption DEF ExecutorsInv, BootFails, SetupFails, End, endVars,
       NamedOnce, Registered
<1>5. NoStrayProcess'
  BY DEF ExecutorsInv, BootFails, Kill, SetupFails, Return, NoStrayProcess
<1>6. RetiredIsQuiet'
  BY DEF ExecutorsInv, BootFails, Kill, SetupFails, Return, endVars,
       PlaywrightTypeOK, RetiredIsQuiet, Inside
<1> QED
  BY <1>1, <1>2, <1>3, <1>4, <1>5, <1>6 DEF ExecutorsInv

(* A tab of its own.                                                       *)
LEMMA OpenTabHolds ==
    ASSUME ExecutorsInv, NEW c \in Executions, OpenTab(c)
    PROVE  ExecutorsInv'
<1>1. PlaywrightTypeOK'
  BY PlaywrightAssumption DEF ExecutorsInv, OpenTab, Return, Release, managerVars,
       endVars, procVars, codeVars, PlaywrightTypeOK
<1>2. TokenHeld'
  BY DEF ExecutorsInv, OpenTab, Return, Release, managerVars, PlaywrightTypeOK,
       TokenHeld, Inside
<1>3. RunOnce'
  BY DEF ExecutorsInv, OpenTab, Return, codeVars, PlaywrightTypeOK, RunOnce
<1>4. NamedOnce'
  BY DEF ExecutorsInv, OpenTab, managerVars, endVars, NamedOnce, Registered
<1>5. NoStrayProcess'
  BY DEF ExecutorsInv, OpenTab, Return, procVars, PlaywrightTypeOK, NoStrayProcess
<1>6. RetiredIsQuiet'
  BY DEF ExecutorsInv, OpenTab, Return, endVars, procVars, PlaywrightTypeOK,
       RetiredIsQuiet, Inside
<1> QED
  BY <1>1, <1>2, <1>3, <1>4, <1>5, <1>6 DEF ExecutorsInv

(* The code is sent.                                                       *)
LEMMA SendHolds ==
    ASSUME ExecutorsInv, NEW c \in Executions, Send(c)
    PROVE  ExecutorsInv'
<1>1. PlaywrightTypeOK'
  BY DEF ExecutorsInv, Send, managerVars, executorVars, endVars, procVars,
       PlaywrightTypeOK
<1>2. TokenHeld'
  BY DEF ExecutorsInv, Send, managerVars, executorVars, PlaywrightTypeOK,
       TokenHeld, Inside
<1>3. RunOnce'
  BY DEF ExecutorsInv, Send, PlaywrightTypeOK, RunOnce
<1>4. NamedOnce'
  BY DEF ExecutorsInv, Send, managerVars, endVars, NamedOnce, Registered
<1>5. NoStrayProcess'
  BY DEF ExecutorsInv, Send, procVars, PlaywrightTypeOK, NoStrayProcess
<1>6. RetiredIsQuiet'
  BY DEF ExecutorsInv, Send, executorVars, endVars, procVars, PlaywrightTypeOK,
       RetiredIsQuiet, Inside
<1> QED
  BY <1>1, <1>2, <1>3, <1>4, <1>5, <1>6 DEF ExecutorsInv

(* The daemon runs it.                                                     *)
LEMMA DaemonAnswersHolds ==
    ASSUME ExecutorsInv, NEW c \in Executions, DaemonAnswers(c)
    PROVE  ExecutorsInv'
<1>1. PlaywrightTypeOK'
  BY DEF ExecutorsInv, DaemonAnswers, managerVars, executorVars, endVars,
       procVars, PlaywrightTypeOK
<1>2. TokenHeld'
  BY DEF ExecutorsInv, DaemonAnswers, managerVars, executorVars, PlaywrightTypeOK,
       TokenHeld, Inside
<1>3. RunOnce'
  BY DEF ExecutorsInv, DaemonAnswers, PlaywrightTypeOK, RunOnce
<1>4. NamedOnce'
  BY DEF ExecutorsInv, DaemonAnswers, managerVars, endVars, NamedOnce, Registered
<1>5. NoStrayProcess'
  BY DEF ExecutorsInv, DaemonAnswers, procVars, PlaywrightTypeOK, NoStrayProcess
<1>6. RetiredIsQuiet'
  BY DEF ExecutorsInv, DaemonAnswers, executorVars, endVars, procVars,
       PlaywrightTypeOK, RetiredIsQuiet, Inside
<1> QED
  BY <1>1, <1>2, <1>3, <1>4, <1>5, <1>6 DEF ExecutorsInv

(* Its answer does not arrive.                                             *)
LEMMA AnswerLostHolds ==
    ASSUME ExecutorsInv, NEW c \in Executions, AnswerLost(c)
    PROVE  ExecutorsInv'
<1>1. PlaywrightTypeOK'
  BY DEF ExecutorsInv, AnswerLost, managerVars, executorVars, endVars, procVars,
       codeVars, PlaywrightTypeOK
<1>2. TokenHeld'
  BY DEF ExecutorsInv, AnswerLost, managerVars, executorVars, TokenHeld, Inside
<1>3. RunOnce'
  BY DEF ExecutorsInv, AnswerLost, codeVars, RunOnce
<1>4. NamedOnce'
  BY DEF ExecutorsInv, AnswerLost, managerVars, endVars, NamedOnce, Registered
<1>5. NoStrayProcess'
  BY DEF ExecutorsInv, AnswerLost, procVars, NoStrayProcess
<1>6. RetiredIsQuiet'
  BY DEF ExecutorsInv, AnswerLost, executorVars, endVars, procVars,
       RetiredIsQuiet, Inside
<1> QED
  BY <1>1, <1>2, <1>3, <1>4, <1>5, <1>6 DEF ExecutorsInv

(* The call is answered.                                                   *)
LEMMA RespondHolds ==
    ASSUME ExecutorsInv, NEW c \in Executions, Respond(c)
    PROVE  ExecutorsInv'
<1>1. PlaywrightTypeOK'
  BY PlaywrightAssumption DEF ExecutorsInv, Respond, Outcome, CauseOf, Return,
       Release, managerVars, endVars, procVars, PlaywrightTypeOK, TokenHeld
<1>2. TokenHeld'
  BY DEF ExecutorsInv, Respond, Return, Release, managerVars, PlaywrightTypeOK,
       TokenHeld, Inside
<1>3. RunOnce'
  BY DEF ExecutorsInv, Respond, Return, PlaywrightTypeOK, RunOnce
<1>4. NamedOnce'
  BY DEF ExecutorsInv, Respond, managerVars, endVars, NamedOnce, Registered
<1>5. NoStrayProcess'
  BY DEF ExecutorsInv, Respond, Return, procVars, NoStrayProcess
<1>6. RetiredIsQuiet'
  BY DEF ExecutorsInv, Respond, Return, endVars, procVars, PlaywrightTypeOK,
       RetiredIsQuiet, Inside
<1> QED
  BY <1>1, <1>2, <1>3, <1>4, <1>5, <1>6 DEF ExecutorsInv

(* The call fails.                                                         *)
LEMMA SendFailedHolds ==
    ASSUME ExecutorsInv, NEW c \in Executions, SendFailed(c)
    PROVE  ExecutorsInv'
<1>1. PlaywrightTypeOK'
  BY PlaywrightAssumption DEF ExecutorsInv, SendFailed, Outcome, CauseOf, Return,
       Release, Kill, managerVars, endVars, PlaywrightTypeOK, TokenHeld
<1>2. TokenHeld'
  BY DEF ExecutorsInv, SendFailed, Return, Release, managerVars, PlaywrightTypeOK,
       TokenHeld, Inside
<1>3. RunOnce'
  BY DEF ExecutorsInv, SendFailed, Return, PlaywrightTypeOK, RunOnce
<1>4. NamedOnce'
  BY DEF ExecutorsInv, SendFailed, managerVars, endVars, NamedOnce, Registered
<1>5. NoStrayProcess'
  BY DEF ExecutorsInv, SendFailed, Return, Kill, NoStrayProcess
<1>6. RetiredIsQuiet'
  BY DEF ExecutorsInv, SendFailed, Return, Kill, endVars, PlaywrightTypeOK,
       RetiredIsQuiet, Inside
<1> QED
  BY <1>1, <1>2, <1>3, <1>4, <1>5, <1>6 DEF ExecutorsInv

(* The default executor starts over.                                       *)
LEMMA RestartDefaultHolds ==
    ASSUME ExecutorsInv, RestartDefault
    PROVE  ExecutorsInv'
<1>1. PlaywrightTypeOK'
  BY PlaywrightAssumption DEF ExecutorsInv, RestartDefault, endVars, procVars,
       codeVars, callVars, PlaywrightTypeOK
<1>2. TokenHeld'
  BY DEF ExecutorsInv, RestartDefault, callVars, TokenHeld, Inside
<1>3. RunOnce'
  BY DEF ExecutorsInv, RestartDefault, codeVars, callVars, RunOnce
<1>4. NamedOnce'
  BY DEF ExecutorsInv, RestartDefault, endVars, NamedOnce, Registered
<1>5. NoStrayProcess'
  BY DEF ExecutorsInv, RestartDefault, procVars, callVars, NoStrayProcess
<1>6. RetiredIsQuiet'
  BY DEF ExecutorsInv, RestartDefault, endVars, procVars, callVars,
       RetiredIsQuiet, Inside
<1> QED
  BY <1>1, <1>2, <1>3, <1>4, <1>5, <1>6 DEF ExecutorsInv

(* An executor is deleted.                                                 *)
LEMMA DeleteHolds ==
    ASSUME ExecutorsInv, NEW n \in Names, Delete(n)
    PROVE  ExecutorsInv'
<1>1. PlaywrightTypeOK'
  BY DEF ExecutorsInv, Delete, End, executorVars, procVars, codeVars, callVars,
       PlaywrightTypeOK
<1>2. TokenHeld'
  BY DEF ExecutorsInv, Delete, End, executorVars, callVars, TokenHeld, Inside
<1>3. RunOnce'
  BY DEF ExecutorsInv, Delete, codeVars, callVars, RunOnce
<1>4. NamedOnce'
  BY PlaywrightAssumption DEF ExecutorsInv, Delete, End, PlaywrightTypeOK,
       NamedOnce, Registered
<1>5. NoStrayProcess'
  BY DEF ExecutorsInv, Delete, procVars, callVars, NoStrayProcess
<1>6. RetiredIsQuiet'
  BY DEF ExecutorsInv, Delete, executorVars, procVars, callVars, RetiredIsQuiet,
       Inside
<1> QED
  BY <1>1, <1>2, <1>3, <1>4, <1>5, <1>6 DEF ExecutorsInv

(* One step of retiring an executor.                                       *)
LEMMA RetireHolds ==
    ASSUME ExecutorsInv, NEW e \in Objects, Retire(e)
    PROVE  ExecutorsInv'
<1>1. PlaywrightTypeOK'
  BY DEF ExecutorsInv, Retire, Kill, Process, managerVars, executorVars, codeVars,
       callVars, PlaywrightTypeOK
<1>2. TokenHeld'
  BY DEF ExecutorsInv, Retire, managerVars, executorVars, callVars, TokenHeld,
       Inside
<1>3. RunOnce'
  BY DEF ExecutorsInv, Retire, codeVars, callVars, RunOnce
<1>4. NamedOnce'
  BY DEF ExecutorsInv, Retire, managerVars, PlaywrightTypeOK, NamedOnce,
       Registered
<1>5. NoStrayProcess'
  BY DEF ExecutorsInv, Retire, Kill, callVars, NoStrayProcess
<1>6. RetiredIsQuiet'
  BY PlaywrightAssumption DEF ExecutorsInv, Retire, Kill, Process, NoneInside,
       executorVars, callVars, RetiredIsQuiet, TokenHeld, Inside
<1> QED
  BY <1>1, <1>2, <1>3, <1>4, <1>5, <1>6 DEF ExecutorsInv

(* Its tab is closed.                                                      *)
LEMMA CloseTabHolds ==
    ASSUME ExecutorsInv, NEW e \in Objects, CloseTab(e)
    PROVE  ExecutorsInv'
<1>1. PlaywrightTypeOK'
  BY DEF ExecutorsInv, CloseTab, managerVars, procVars, codeVars, callVars,
       PlaywrightTypeOK
<1>2. TokenHeld'
  BY DEF ExecutorsInv, CloseTab, managerVars, callVars, TokenHeld, Inside
<1>3. RunOnce'
  BY DEF ExecutorsInv, CloseTab, codeVars, callVars, RunOnce
<1>4. NamedOnce'
  BY DEF ExecutorsInv, CloseTab, managerVars, NamedOnce, Registered
<1>5. NoStrayProcess'
  BY DEF ExecutorsInv, CloseTab, procVars, callVars, NoStrayProcess
<1>6. RetiredIsQuiet'
  BY DEF ExecutorsInv, CloseTab, procVars, callVars, PlaywrightTypeOK,
       RetiredIsQuiet, Inside
<1> QED
  BY <1>1, <1>2, <1>3, <1>4, <1>5, <1>6 DEF ExecutorsInv

(* The server shuts down.                                                  *)
LEMMA ShutdownHolds ==
    ASSUME ExecutorsInv, Shutdown
    PROVE  ExecutorsInv'
<1>1. PlaywrightTypeOK'
  BY DEF ExecutorsInv, Shutdown, End, executorVars, procVars, codeVars, callVars,
       PlaywrightTypeOK
<1>2. TokenHeld'
  BY DEF ExecutorsInv, Shutdown, End, executorVars, callVars, TokenHeld, Inside
<1>3. RunOnce'
  BY DEF ExecutorsInv, Shutdown, codeVars, callVars, RunOnce
<1>4. NamedOnce'
  BY PlaywrightAssumption DEF ExecutorsInv, Shutdown, End, PlaywrightTypeOK,
       NamedOnce, Registered
<1>5. NoStrayProcess'
  BY DEF ExecutorsInv, Shutdown, procVars, callVars, NoStrayProcess
<1>6. RetiredIsQuiet'
  BY DEF ExecutorsInv, Shutdown, executorVars, procVars, callVars,
       PlaywrightTypeOK, RetiredIsQuiet, Inside
<1> QED
  BY <1>1, <1>2, <1>3, <1>4, <1>5, <1>6 DEF ExecutorsInv

(* A life that has ended kills its process.                                *)
LEMMA LifeKillsHolds ==
    ASSUME ExecutorsInv, NEW k \in Children, LifeKills(k)
    PROVE  ExecutorsInv'
<1>1. PlaywrightTypeOK'
  BY DEF ExecutorsInv, LifeKills, Kill, managerVars, executorVars, endVars,
       codeVars, callVars, PlaywrightTypeOK
<1>2. TokenHeld'
  BY DEF ExecutorsInv, LifeKills, managerVars, executorVars, callVars, TokenHeld,
       Inside
<1>3. RunOnce'
  BY DEF ExecutorsInv, LifeKills, codeVars, callVars, RunOnce
<1>4. NamedOnce'
  BY DEF ExecutorsInv, LifeKills, managerVars, endVars, NamedOnce, Registered
<1>5. NoStrayProcess'
  BY DEF ExecutorsInv, LifeKills, Kill, callVars, NoStrayProcess
<1>6. RetiredIsQuiet'
  BY DEF ExecutorsInv, LifeKills, Kill, executorVars, endVars, callVars,
       RetiredIsQuiet, Inside
<1> QED
  BY <1>1, <1>2, <1>3, <1>4, <1>5, <1>6 DEF ExecutorsInv

(* A process dies.                                                         *)
LEMMA CrashHolds ==
    ASSUME ExecutorsInv, NEW k \in Children, Crash(k)
    PROVE  ExecutorsInv'
<1>1. PlaywrightTypeOK'
  BY DEF ExecutorsInv, Crash, managerVars, executorVars, endVars, codeVars,
       callVars, PlaywrightTypeOK
<1>2. TokenHeld'
  BY DEF ExecutorsInv, Crash, managerVars, executorVars, callVars, TokenHeld,
       Inside
<1>3. RunOnce'
  BY DEF ExecutorsInv, Crash, codeVars, callVars, RunOnce
<1>4. NamedOnce'
  BY DEF ExecutorsInv, Crash, managerVars, endVars, NamedOnce, Registered
<1>5. NoStrayProcess'
  BY DEF ExecutorsInv, Crash, callVars, NoStrayProcess
<1>6. RetiredIsQuiet'
  BY DEF ExecutorsInv, Crash, executorVars, endVars, callVars, RetiredIsQuiet,
       Inside
<1> QED
  BY <1>1, <1>2, <1>3, <1>4, <1>5, <1>6 DEF ExecutorsInv

(* A tab is closed in the browser.                                         *)
LEMMA TabClosedHolds ==
    ASSUME ExecutorsInv, NEW e \in Objects, TabClosed(e)
    PROVE  ExecutorsInv'
<1>1. PlaywrightTypeOK'
  BY DEF ExecutorsInv, TabClosed, managerVars, endVars, procVars, codeVars,
       callVars, PlaywrightTypeOK
<1>2. TokenHeld'
  BY DEF ExecutorsInv, TabClosed, managerVars, callVars, TokenHeld, Inside
<1>3. RunOnce'
  BY DEF ExecutorsInv, TabClosed, codeVars, callVars, RunOnce
<1>4. NamedOnce'
  BY DEF ExecutorsInv, TabClosed, managerVars, endVars, NamedOnce, Registered
<1>5. NoStrayProcess'
  BY DEF ExecutorsInv, TabClosed, procVars, callVars, NoStrayProcess
<1>6. RetiredIsQuiet'
  BY DEF ExecutorsInv, TabClosed, endVars, procVars, callVars, RetiredIsQuiet,
       Inside
<1> QED
  BY <1>1, <1>2, <1>3, <1>4, <1>5, <1>6 DEF ExecutorsInv

(* Initially there is the default executor, and no process.                *)
LEMMA PlaywrightInitHolds == ASSUME PlaywrightInit PROVE ExecutorsInv
<1> USE PlaywrightAssumption DEF PlaywrightInit
<1>1. /\ executors \in [Names -> Objects \cup {NoExecutor}]
      /\ restarts \in [Objects -> 0..MaxRestarts] /\ cause \in [Objects -> {"none", "setup", "ended"}]
      /\ admission \in [Objects -> Executions \cup {Nobody}]
      /\ target \in [Objects -> {"none", "open", "closed"}]
      /\ child \in [Objects -> Children \cup {NoChild}]
  OBVIOUS
<1>2. /\ retiring \in [Objects -> {"no", "delete", "shutdown", "close", "last", "done"}]
      /\ proc \in [Children -> {"none", "up", "dead"}]
      /\ watch \in [Children -> Lives \cup {NoLife}]
  OBVIOUS
<1>3. /\ pc \in [Executions -> CallSteps]
      /\ on \in [Executions -> Objects \cup {NoExecutor}]
      /\ using \in [Executions -> Children \cup {NoChild}]
      /\ under \in [Executions -> 0..MaxRestarts] /\ codeRan \in [Executions -> Nat]
  BY DEF CallSteps
<1>4. PlaywrightTypeOK
  BY <1>1, <1>2, <1>3 DEF PlaywrightTypeOK, CallSteps
<1>5. TokenHeld /\ RunOnce
  BY DEF TokenHeld, RunOnce, Inside
<1>6. NamedOnce
  BY DEF NamedOnce
<1>7. NoStrayProcess /\ RetiredIsQuiet
  BY DEF NoStrayProcess, RetiredIsQuiet
<1> QED
  BY <1>4, <1>5, <1>6, <1>7 DEF ExecutorsInv

(* ExecutorsInv is inductive.                                              *)
LEMMA PlaywrightNextHolds ==
    ASSUME ExecutorsInv, [PlaywrightNext]_playwrightVars PROVE ExecutorsInv'
<1>1. ASSUME NEW c \in Executions,
             (\E n \in Requested : ExecutorFor(c, n)) \/ GiveUp(c) \/ Admit(c) \/ Call(c)
      PROVE  ExecutorsInv'
  BY <1>1, ExecutorForHolds, GiveUpHolds, AdmitHolds, EnsureChildHolds, BootedHolds,
     BootFailsHolds, OpenTabHolds, SendHolds, DaemonAnswersHolds, AnswerLostHolds,
     RespondHolds, SendFailedHolds DEF Call
<1>2. CASE RestartDefault \/ Shutdown \/ \E n \in Names : Delete(n)
  BY <1>2, RestartDefaultHolds, ShutdownHolds, DeleteHolds
<1>3. CASE \E e \in Objects : Retire(e) \/ CloseTab(e) \/ TabClosed(e)
  BY <1>3, RetireHolds, CloseTabHolds, TabClosedHolds
<1>4. CASE \E k \in Children : LifeKills(k) \/ Crash(k)
  BY <1>4, LifeKillsHolds, CrashHolds
<1>5. CASE UNCHANGED playwrightVars
  <2> USE <1>5 DEF playwrightVars, managerVars, executorVars, endVars, procVars, codeVars, callVars
  <2>1. PlaywrightTypeOK' /\ NoStrayProcess' /\ RetiredIsQuiet'
    BY DEF ExecutorsInv, PlaywrightTypeOK, NoStrayProcess, RetiredIsQuiet, Inside
  <2>2. TokenHeld' /\ RunOnce' /\ NamedOnce'
    BY DEF ExecutorsInv, TokenHeld, RunOnce, NamedOnce, Inside, Registered
  <2> QED
    BY <2>1, <2>2 DEF ExecutorsInv
<1> QED
  BY <1>1, <1>2, <1>3, <1>4, <1>5 DEF PlaywrightNext

(* So it holds throughout.                                                *)
LEMMA PlaywrightInvariance == PlaywrightSpec => []ExecutorsInv
  BY PlaywrightInitHolds, PlaywrightNextHolds, PTL DEF PlaywrightSpec

(* A call whose code has run is answered or has failed, in an executor that*)
(* its token has kept from being dropped: its answer is not an error.      *)
LEMMA RanIsNoError ==
    ASSUME ExecutorsInv, [PlaywrightNext]_playwrightVars, NEW c \in Executions, Returns(c),
           codeRan[c] # 0
    PROVE  answer' \notin {"409", "500"}
<1>1. /\ pc[c] \in {"answered", "failed"} /\ cause[on[c]] # "setup" /\ Outcome(c) = "200"
      /\ pc \in [Executions -> CallSteps] /\ pc'[c] # pc[c]
  BY DEF ExecutorsInv, PlaywrightTypeOK, RunOnce, TokenHeld, Inside, Outcome, CauseOf, Returns,
     CallSteps
<1>2. pc' # pc
  BY <1>1
<1>3. ASSUME NEW d \in Executions, d # c, pc' = [pc EXCEPT ![d] = pc'[d]] PROVE FALSE
  BY <1>1, <1>3
<1>4. ASSUME NEW d \in Executions,
             (\E n \in Requested : ExecutorFor(d, n)) \/ GiveUp(d) \/ Admit(d) \/ Call(d)
      PROVE  answer' = "200"
  <2>1. d = c
    BY <1>1, <1>4 DEF ExecutorFor, GiveUp, Admit, Call, EnsureChild, SetupFails, HasChild, Booted,
       BootFails, OpenTab, Send, DaemonAnswers, AnswerLost, Respond, SendFailed, Return
  <2>2. Respond(c) \/ SendFailed(c)
    BY <1>1, <1>4, <2>1 DEF ExecutorFor, GiveUp, Admit, Call, EnsureChild, Booted, BootFails,
       OpenTab, Send, DaemonAnswers, AnswerLost, Returns
  <2> QED
    BY <1>1, <2>2 DEF Respond, SendFailed, Return
<1>5. \E d \in Executions :
        (\E n \in Requested : ExecutorFor(d, n)) \/ GiveUp(d) \/ Admit(d) \/ Call(d)
  BY <1>2 DEF PlaywrightNext, RestartDefault, Delete, Retire, CloseTab, TabClosed, Shutdown,
     LifeKills, Crash, callVars, playwrightVars
<1> QED
  BY <1>4, <1>5

(* No process group is left behind by a crash, a deletion, a restart or a  *)
(* shutdown: for any executors, processes, names and requests, each group  *)
(* was signalled, is watched by a life, or is being started by a call.     *)
THEOREM NoProcessIsLeft == PlaywrightSpec => []NoStrayProcess
  BY PlaywrightInvariance, PTL DEF ExecutorsInv

(* A DELETE or a shutdown that has waited for the call in flight leaves no *)
(* call, no process and, once it has closed it, no tab of the executor.    *)
THEOREM RetiredStaysQuiet == PlaywrightSpec => []RetiredIsQuiet
  BY PlaywrightInvariance, PTL DEF ExecutorsInv

(* The code of a call runs at most once, also when it is sent again, and a *)
(* call that is answered 409 or 500, whose key is released, has not run.   *)
THEOREM AnswersAreTrue == PlaywrightSpec => RunsAsAnswered
<1> DEFINE Answered(c) == /\ codeRan'[c] <= 1
                          /\ (Returns(c) /\ answer' \in {"409", "500"}) => codeRan[c] = 0
<1>1. ASSUME ExecutorsInv, ExecutorsInv', [PlaywrightNext]_playwrightVars
      PROVE  \A c \in Executions : Answered(c)
  <2>1. ASSUME NEW c \in Executions PROVE codeRan'[c] <= 1
    BY <1>1 DEF ExecutorsInv, RunOnce
  <2> QED
    BY <1>1, <2>1, RanIsNoError
<1> QED
  BY <1>1, PlaywrightInvariance, PTL DEF PlaywrightSpec, RunsAsAnswered

(* Until the shutdown, the default executor has no cause: it is neither    *)
(* dropped when its set-up fails nor deleted, and a new executor is never  *)
(* given its struct.                                                       *)
DefaultLives == ~closed => cause[Default] = "none"

(* A step of a call or of a request leaves the default executor alive.     *)
LEMMA DefaultLivesOn ==
    ASSUME ExecutorsInv, DefaultLives, [PlaywrightNext]_playwrightVars
    PROVE  DefaultLives'
<1>1. cause \in [Objects -> {"none", "setup", "ended"}] /\ Default \in Objects
  BY PlaywrightAssumption DEF ExecutorsInv, PlaywrightTypeOK
<1>2. ASSUME UNCHANGED managerVars PROVE DefaultLives'
  BY <1>2 DEF DefaultLives, managerVars
<1>3. ASSUME NEW c \in Executions, SetupFails(c) PROVE DefaultLives'
  BY <1>1, <1>3 DEF SetupFails, End, DefaultLives
<1>4. ASSUME NEW c \in Executions, NEW n \in Requested, ExecutorFor(c, n) PROVE DefaultLives'
  <2>1. CASE UNCHANGED managerVars
    BY <2>1, <1>2
  <2>2. ASSUME NEW e \in Objects \ {Default}, ~closed, cause' = [cause EXCEPT ![e] = "none"]
        PROVE  DefaultLives'
    <3>1. cause'[Default] = cause[Default]
      BY <1>1, <2>2
    <3> QED
      BY <2>2, <3>1 DEF DefaultLives
  <2> QED
    BY <1>4, <2>1, <2>2 DEF ExecutorFor
<1>5. ASSUME NEW c \in Executions, GiveUp(c) \/ Admit(c) \/ Call(c) PROVE DefaultLives'
  <2>1. UNCHANGED managerVars \/ SetupFails(c)
    BY <1>5 DEF GiveUp, Admit, Call, EnsureChild, Booted, BootFails, OpenTab, Send,
       DaemonAnswers, AnswerLost, Respond, SendFailed
  <2> QED
    BY <1>2, <1>3, <2>1
<1>6. CASE RestartDefault
  BY <1>6 DEF RestartDefault, DefaultLives
<1>7. ASSUME NEW n \in Names, Delete(n) PROVE DefaultLives'
  BY <1>1, <1>7 DEF Delete, End, DefaultLives
<1>8. CASE Shutdown
  BY <1>8 DEF Shutdown, DefaultLives
<1>9. ASSUME NEW e \in Objects, Retire(e) \/ CloseTab(e) \/ TabClosed(e) PROVE DefaultLives'
  BY <1>2, <1>9 DEF Retire, CloseTab, TabClosed
<1>10. ASSUME NEW k \in Children, LifeKills(k) \/ Crash(k) PROVE DefaultLives'
  BY <1>2, <1>10 DEF LifeKills, Crash
<1>11. CASE UNCHANGED playwrightVars
  BY <1>2, <1>11 DEF playwrightVars
<1> QED
  BY <1>4, <1>5, <1>6, <1>7, <1>8, <1>9, <1>10, <1>11 DEF PlaywrightNext

(* A call that comes back while it waits for a token is given up by its    *)
(* caller or finds the life of its executor ended.                         *)
LEMMA WaitingComesBack ==
    ASSUME ExecutorsInv, [PlaywrightNext]_playwrightVars, NEW c \in Executions, Returns(c),
           pc[c] = "waiting"
    PROVE  answer' = "cancelled" \/ cause[on[c]] # "none"
<1>1. pc \in [Executions -> CallSteps] /\ pc'[c] = "idle" /\ pc' # pc
  BY DEF ExecutorsInv, PlaywrightTypeOK, CallSteps, Returns
<1>2. ASSUME NEW d \in Executions, d # c, pc' = [pc EXCEPT ![d] = pc'[d]] PROVE FALSE
  BY <1>1, <1>2
<1>3. ASSUME NEW d \in Executions,
             (\E n \in Requested : ExecutorFor(d, n)) \/ GiveUp(d) \/ Admit(d) \/ Call(d)
      PROVE  answer' = "cancelled" \/ cause[on[c]] # "none"
  <2>1. d = c
    BY <1>1, <1>2, <1>3 DEF ExecutorFor, GiveUp, Admit, Call, EnsureChild, SetupFails, HasChild,
       Booted, BootFails, OpenTab, Send, DaemonAnswers, AnswerLost, Respond, SendFailed, Return
  <2>2. GiveUp(c) \/ Admit(c)
    BY <1>3, <2>1 DEF ExecutorFor, Call, EnsureChild, Booted, BootFails, OpenTab, Send,
       DaemonAnswers, AnswerLost, Respond, SendFailed
  <2>3. CASE GiveUp(c)
    BY <2>3 DEF GiveUp, Return
  <2>4. CASE Admit(c)
    BY <1>1, <2>4 DEF Admit
  <2> QED
    BY <2>2, <2>3, <2>4
<1>4. \E d \in Executions :
        (\E n \in Requested : ExecutorFor(d, n)) \/ GiveUp(d) \/ Admit(d) \/ Call(d)
  BY <1>1 DEF PlaywrightNext, RestartDefault, Delete, Retire, CloseTab, TabClosed, Shutdown,
     LifeKills, Crash, callVars, playwrightVars
<1> QED
  BY <1>3, <1>4

(* The calls queued on the default executor survive its restart: until the *)
(* shutdown, only its own caller makes one of them come back unadmitted.   *)
THEOREM QueuedAreSpared == PlaywrightSpec => RestartSparesQueued
<1> DEFINE Spared(c) == (Returns(c) /\ pc[c] = "waiting" /\ on[c] = Default /\ ~closed)
                           => answer' = "cancelled"
<1>1. PlaywrightInit => DefaultLives
  BY PlaywrightAssumption DEF PlaywrightInit, DefaultLives
<1>2. ExecutorsInv /\ DefaultLives /\ [PlaywrightNext]_playwrightVars => DefaultLives'
  BY DefaultLivesOn
<1>3. ASSUME ExecutorsInv, DefaultLives, [PlaywrightNext]_playwrightVars
      PROVE  \A c \in Executions : Spared(c)
  BY <1>3, WaitingComesBack DEF DefaultLives
<1> QED
  BY <1>1, <1>2, <1>3, PlaywrightInvariance, PTL DEF PlaywrightSpec, RestartSparesQueued

(* Every variable of the executors keeps its type; a call that is in one   *)
(* names an executor and a process that exist.                             *)
THEOREM ExecutorsTyped == PlaywrightSpec => []PlaywrightTypeOK
  BY PlaywrightInvariance, PTL DEF ExecutorsInv
================================================================================

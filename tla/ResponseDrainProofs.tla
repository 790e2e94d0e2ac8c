-------------------------- MODULE ResponseDrainProofs --------------------------
(***************************************************************************)
(* A response that has not left the machine keeps it awake, for any number *)
(* of connections, requests and monitors.                                  *)
(***************************************************************************)
EXTENDS ResponseDrain, DebouncedControllerProofs

-----------------------------------------------------------------------------
(* The inductive invariant.  The counters count: the controller's counts   *)
(* the holds, the semaphore the monitors, and failClosedResponseHolds the  *)
(* drains that are left to recovery.                                       *)
Monitors == {c \in Conns : term[c] \in {"monitoring", "aborting"}}
Failures == {c \in Conns : failed[c]}

HoldsCounted == IsFiniteSet(holds) /\ activeCount = Cardinality(holds)
MonitorsCounted == IsFiniteSet(Monitors) /\ slots = Cardinality(Monitors)
FailuresCounted == IsFiniteSet(Failures) /\ failClosed = Cardinality(Failures)

Counted == CtrlInv /\ HoldsCounted /\ MonitorsCounted /\ FailuresCounted

Tracking(c) == ~closed[c] /\ ~hijacked[c]
Unanswered(c) == pc[c] \in {"held", "handling", "hijacked"}

(* A hold lasts until both of its events, and the first is the handler's   *)
(* return.                                                                 *)
HeldUntilBoth(c) ==
    \A k \in Nat :
        <<c, k>> \in holds <=>
            k \in 1..served[c] /\ ~(<<c, k>> \in handlerDone /\ <<c, k>> \in connectionDone)

HandlersReturn(c) ==
    \A k \in Nat :
        <<c, k>> \in handlerDone <=> k \in 1..served[c] /\ ~(k = served[c] /\ Unanswered(c))

(* The second has not happened for the request that the connection tracks, *)
(* that recovery or a monitor owns, or that is not tracked yet.            *)
Outstanding(c) ==
    /\ \A k \in Nat : <<c, k>> \in connectionDone => k <= served[c]
    /\ pending[c] <= served[c] /\ owned[c] <= served[c]
    /\ pending[c] # 0 => <<c, pending[c]>> \notin connectionDone /\ Tracking(c)
    /\ owned[c] # 0 => <<c, owned[c]>> \notin connectionDone
    /\ Unanswered(c) => served[c] # 0
    /\ pc[c] = "held" =>
        Current(c) \notin connectionDone /\ served[c] \notin {pending[c], owned[c]}
    /\ pc[c] = "active" => served[c] < MaxRequests[c]

(* A closed connection is left to recovery or to a monitor, if to anybody. *)
LeftToOne(c) ==
    /\ ~closed[c] => term[c] = "none"
    /\ failed[c] => term[c] # "none"
    /\ term[c] \in {"recovering", "aborting"} => failed[c]
    /\ owned[c] # 0 => term[c] # "none"

(* While a response can be written it is tracked, and no drain of an       *)
(* earlier idle period is current; one that has seen the queue empty is    *)
(* still right.                                                            *)
DrainsAreStale(c) ==
    /\ Tracking(c) /\ pc[c] \in {"active", "held", "handling", "finishing"} =>
        state[c] = "Active"
    /\ Tracking(c) /\ pc[c] \in {"handling", "finishing"} => pending[c] = served[c] /\ served[c] # 0
    /\ \A d \in drainers[c] : d.saw = "drained" /\ DrainCurrent(c, d) => ~queued[c]

(* What is queued belongs to a request that is tracked or owned.           *)
QueuedIsTracked(c) == queued[c] /\ ~hijacked[c] => pending[c] # 0 \/ owned[c] # 0

ConnInv(c) ==
    /\ HeldUntilBoth(c) /\ HandlersReturn(c) /\ Outstanding(c)
    /\ LeftToOne(c) /\ DrainsAreStale(c) /\ QueuedIsTracked(c)

DrainInv == TypeOK /\ Counted /\ \A c \in Conns : ConnInv(c)

-----------------------------------------------------------------------------
(* A hold more or less.                                                    *)
LEMMA ReleaseOne ==
    ASSUME CtrlTypeOK, CtrlInv, HoldsCounted, NEW r, NEW rs, rs = {} \/ (rs = {r} /\ r \in holds),
           Release(rs)
    PROVE  CtrlTypeOK' /\ CtrlInv' /\ HoldsCounted' /\ holds' = holds \ rs
<1>1. CASE rs = {}
  BY <1>1 DEF Release, ctrlVars, CtrlTypeOK, CtrlInv, HoldsCounted
<1>2. CASE rs = {r} /\ r \in holds
  <2>1. PICK ok \in BOOLEAN : Enable(ok)
    BY <1>2 DEF Release
  <2>2. holds' = holds \ {r}
    BY <1>2 DEF Release
  <2> QED
    BY <1>2, <2>1, <2>2, HoldReleased DEF HoldsCounted
<1> QED
  BY <1>1, <1>2

(* requestDrain.complete releases the hold if the handler has returned.    *)
LEMMA CompleteOne ==
    ASSUME DrainInv, NEW c \in Conns, NEW k \in Nat, Complete(c, {k}), served' = served,
           k # 0 => k <= served[c] /\ <<c, k>> \notin connectionDone
    PROVE  /\ CtrlTypeOK' /\ CtrlInv' /\ HoldsCounted'
           /\ handlerDone' = handlerDone
           /\ connectionDone' = connectionDone \cup (IF k = 0 THEN {} ELSE {<<c, k>>})
           /\ holds' \subseteq holds
           /\ \A b \in Conns : HeldUntilBoth(b)'
<1> DEFINE rs == IF k = 0 THEN {} ELSE {<<c, k>>}
<1>0. {<<c, j>> : j \in {k} \ {0}} = rs
  OBVIOUS
<1>1. /\ handlerDone' = handlerDone /\ connectionDone' = connectionDone \cup rs
      /\ Release(rs \cap handlerDone)
  BY <1>0 DEF Complete
<1>2. served \in [Conns -> Nat]
  BY DEF DrainInv, TypeOK
<1>3. rs \cap handlerDone \subseteq holds
  BY <1>2 DEF DrainInv, ConnInv, HeldUntilBoth
<1>4. /\ CtrlTypeOK' /\ CtrlInv' /\ HoldsCounted'
      /\ holds' = holds \ (rs \cap handlerDone)
  <2>1. rs \cap handlerDone = {} \/ (rs \cap handlerDone = {<<c, k>>} /\ <<c, k>> \in holds)
    BY <1>3
  <2> HIDE DEF rs
  <2> QED
    BY <1>1, <2>1, ReleaseOne DEF DrainInv, TypeOK, Counted
<1>5. ASSUME NEW b \in Conns
      PROVE  HeldUntilBoth(b)'
  <2>1. HeldUntilBoth(b)
    BY DEF DrainInv, ConnInv
  <2>2. SUFFICES ASSUME NEW j \in Nat
                 PROVE  <<b, j>> \in holds' <=>
                          j \in 1..served[b] /\ ~(<<b, j>> \in handlerDone /\ <<b, j>> \in connectionDone')
    BY <1>1 DEF HeldUntilBoth
  <2>3. <<b, j>> \in holds <=>
          j \in 1..served[b] /\ ~(<<b, j>> \in handlerDone /\ <<b, j>> \in connectionDone)
    BY <2>1 DEF HeldUntilBoth
  <2>4. <<b, j>> \in rs \cap handlerDone => <<b, j>> \notin holds'
    BY <1>4
  <2> QED
    BY <1>1, <1>4, <2>3
<1> QED
  BY <1>1, <1>4, <1>5

(* The deferred finishHandler.                                             *)
LEMMA HandlerFinishes ==
    ASSUME DrainInv, NEW c \in Conns, Unanswered(c), FinishHandler(Current(c)), served' = served
    PROVE  /\ CtrlTypeOK' /\ CtrlInv' /\ HoldsCounted'
           /\ connectionDone' = connectionDone
           /\ handlerDone' = handlerDone \cup {<<c, served[c]>>}
           /\ \A b \in Conns : HeldUntilBoth(b)'
<1> DEFINE r == <<c, served[c]>>
           rs == {r} \cap connectionDone
<1>1. /\ connectionDone' = connectionDone /\ handlerDone' = handlerDone \cup {r}
      /\ Release(rs)
  BY DEF FinishHandler, Current
<1>2. served[c] \in Nat /\ served[c] \in 1..served[c]
  <2>1. served \in [Conns -> Nat]
    BY DEF DrainInv, TypeOK
  <2>2. served[c] # 0
    BY DEF DrainInv, ConnInv, Outstanding
  <2> QED
    BY <2>1, <2>2
<1>3. r \notin handlerDone /\ r \in holds
  BY <1>2 DEF DrainInv, ConnInv, HandlersReturn, HeldUntilBoth
<1>4. rs = {} \/ (rs = {r} /\ r \in holds)
  BY <1>3
<1>5. CtrlTypeOK' /\ CtrlInv' /\ HoldsCounted' /\ holds' = holds \ rs
  <2> HIDE DEF rs, r
  <2> QED
    BY <1>1, <1>4, ReleaseOne DEF DrainInv, TypeOK, Counted
<1>6. ASSUME NEW b \in Conns
      PROVE  HeldUntilBoth(b)'
  BY <1>1, <1>5 DEF DrainInv, ConnInv, HeldUntilBoth
<1> QED
  BY <1>1, <1>5, <1>6

-----------------------------------------------------------------------------
(* A step of one connection leaves what is known of the others alone.      *)
HoldPart == CtrlTypeOK /\ CtrlInv /\ HoldsCounted /\ \A b \in Conns : HeldUntilBoth(b)
TermPart == MonitorsCounted /\ FailuresCounted

SameAt(b) ==
    /\ pc'[b] = pc[b] /\ served'[b] = served[b] /\ state'[b] = state[b]
    /\ generation'[b] = generation[b] /\ closed'[b] = closed[b] /\ hijacked'[b] = hijacked[b]
    /\ pending'[b] = pending[b] /\ drainers'[b] = drainers[b] /\ term'[b] = term[b]
    /\ owned'[b] = owned[b] /\ failed'[b] = failed[b]
    /\ queued'[b] => queued[b]
    /\ \A k \in Nat :
        /\ <<b, k>> \in handlerDone' <=> <<b, k>> \in handlerDone
        /\ <<b, k>> \in connectionDone' <=> <<b, k>> \in connectionDone

(* A step of one connection, its monitor or recovery leaves the others.    *)
LEMMA OthersStay ==
    ASSUME DrainInv, NEW b \in Conns, SameAt(b), HeldUntilBoth(b)'
    PROVE  ConnInv(b)'
<1>1. /\ served[b] \in Nat /\ pending[b] \in Nat /\ owned[b] \in Nat
  BY DEF DrainInv, TypeOK
<1>2. HandlersReturn(b)'
  <2>1. HandlersReturn(b)
    BY DEF DrainInv, ConnInv
  <2>2. ASSUME NEW k \in Nat
        PROVE  <<b, k>> \in handlerDone' <=>
                  k \in 1..served[b] /\ ~(k = served[b] /\ Unanswered(b))
    <3>1. <<b, k>> \in handlerDone' <=> <<b, k>> \in handlerDone
      BY DEF SameAt
    <3> QED
      BY <2>1, <3>1 DEF HandlersReturn
  <2>3. served'[b] = served[b] /\ Unanswered(b)' = Unanswered(b)
    BY DEF SameAt, Unanswered
  <2> QED
    BY <2>2, <2>3 DEF HandlersReturn
<1>3. Outstanding(b)'
  <2>1. Outstanding(b)
    BY DEF DrainInv, ConnInv
  <2>2. /\ <<b, pending[b]>> \in connectionDone' => <<b, pending[b]>> \in connectionDone
        /\ <<b, owned[b]>> \in connectionDone' => <<b, owned[b]>> \in connectionDone
        /\ <<b, served[b]>> \in connectionDone' => <<b, served[b]>> \in connectionDone
        /\ \A k \in Nat : <<b, k>> \in connectionDone' => <<b, k>> \in connectionDone
    BY <1>1 DEF SameAt
  <2>3. /\ pc'[b] = pc[b] /\ served'[b] = served[b] /\ pending'[b] = pending[b]
        /\ owned'[b] = owned[b] /\ closed'[b] = closed[b] /\ hijacked'[b] = hijacked[b]
    BY DEF SameAt
  <2> QED
    BY <2>1, <2>2, <2>3 DEF Outstanding, Unanswered, Tracking, Current
<1>4. LeftToOne(b)'
  <2>1. LeftToOne(b)
    BY DEF DrainInv, ConnInv
  <2> QED
    BY <2>1 DEF LeftToOne, SameAt
<1>5. DrainsAreStale(b)'
  <2>1. DrainsAreStale(b)
    BY DEF DrainInv, ConnInv
  <2> QED
    BY <2>1 DEF DrainsAreStale, Tracking, DrainCurrent, SameAt
<1>6. QueuedIsTracked(b)'
  <2>1. QueuedIsTracked(b)
    BY DEF DrainInv, ConnInv
  <2> QED
    BY <2>1 DEF QueuedIsTracked, SameAt
<1> QED
  BY <1>2, <1>3, <1>4, <1>5, <1>6 DEF ConnInv

(* So a step of c is right if it is right about c.                         *)
LEMMA StepOfOne ==
    ASSUME DrainInv, NEW c \in Conns, \A b \in Conns : b # c => SameAt(b),
           TypeOK', HoldPart', TermPart',
           HandlersReturn(c)', Outstanding(c)', LeftToOne(c)', DrainsAreStale(c)',
           QueuedIsTracked(c)'
    PROVE  DrainInv'
<1>1. ConnInv(c)'
  BY DEF ConnInv, HoldPart
<1>2. ASSUME NEW b \in Conns
      PROVE  ConnInv(b)'
  <2>1. CASE b = c
    BY <1>1, <2>1
  <2>2. CASE b # c
    BY <2>2, OthersStay DEF HoldPart
  <2> QED
    BY <2>1, <2>2
<1> QED
  BY <1>2 DEF DrainInv, Counted, HoldPart, TermPart

(* A step that calls neither complete nor the controller keeps the holds.  *)
LEMMA HoldsStay ==
    ASSUME DrainInv, UNCHANGED <<ctrlVars, holdVars, served>>
    PROVE  HoldPart'
<1>1. CtrlTypeOK' /\ CtrlInv' /\ HoldsCounted'
  BY DEF DrainInv, TypeOK, Counted, CtrlTypeOK, CtrlInv, HoldsCounted, ctrlVars, holdVars
<1>2. \A b \in Conns : HeldUntilBoth(b)'
  BY DEF DrainInv, ConnInv, HeldUntilBoth, holdVars
<1> QED
  BY <1>1, <1>2 DEF HoldPart

(* One that takes no monitor slot and fails no drain keeps those counts.   *)
LEMMA TermStays ==
    ASSUME DrainInv, UNCHANGED <<term, failed, slots, failClosed>>
    PROVE  TermPart'
<1>1. Monitors' = Monitors /\ Failures' = Failures
  BY DEF Monitors, Failures
<1> QED
  BY <1>1 DEF DrainInv, Counted, TermPart, MonitorsCounted, FailuresCounted

-----------------------------------------------------------------------------
(* Steps that neither take nor give a hold.  What they leave alone:        *)
Quiet == UNCHANGED <<ctrlVars, holdVars, termVars, served>>

(* Such a step of the connection's goroutine keeps every count.            *)
LEMMA QuietParts ==
    ASSUME DrainInv, Quiet
    PROVE  HoldPart' /\ TermPart'
  BY HoldsStay, TermStays DEF Quiet, termVars

(* The server reads the next request, or finds the connection at its end.  *)
LEMMA Reading ==
    ASSUME DrainInv, NEW c \in Conns, ReadRequest(c) \/ StopReading(c)
    PROVE  DrainInv'
<1>1. Quiet /\ UNCHANGED <<queued, sock, guestDown>>
  BY DEF ReadRequest, StopReading, Quiet
<1>2. UNCHANGED <<closed, hijacked, pending, drainers>>
  BY DEF ReadRequest, StopReading, Activate, connVars
<1>3. PICK p \in {"active", "closing"} :
        /\ pc' = [pc EXCEPT ![c] = p] /\ pc[c] = "reading"
        /\ p = "active" => /\ served[c] < MaxRequests[c]
                           /\ Tracking(c) => state'[c] = "Active"
  BY DEF ReadRequest, StopReading, Goto, Activate, Tracking, DrainInv, TypeOK
<1>4. \/ UNCHANGED <<state, generation>>
      \/ /\ state' = [state EXCEPT ![c] = "Active"]
         /\ generation' = [generation EXCEPT ![c] = @ + 1]
  BY DEF ReadRequest, StopReading, Activate, connVars
<1>5. UNCHANGED <<served, term, owned, failed, slots, failClosed, handlerDone, connectionDone, holds>>
  BY <1>1 DEF Quiet, termVars, holdVars
<1>6. HoldPart' /\ TermPart'
  BY <1>1, QuietParts
<1>7. TypeOK'
  BY <1>1, <1>2, <1>3, <1>4, <1>5, <1>6 DEF DrainInv, TypeOK, HoldPart
<1>8. \A b \in Conns : b # c => SameAt(b)
  BY <1>1, <1>2, <1>3, <1>4, <1>5 DEF DrainInv, TypeOK, SameAt
<1>9. HandlersReturn(c)' /\ Outstanding(c)' /\ LeftToOne(c)' /\ QueuedIsTracked(c)'
  <2>1. HandlersReturn(c) /\ Outstanding(c) /\ LeftToOne(c) /\ QueuedIsTracked(c)
    BY DEF DrainInv, ConnInv
  <2>2. pc'[c] = p
    BY <1>3 DEF DrainInv, TypeOK
  <2> QED
    BY <1>1, <1>2, <1>3, <1>5, <2>1, <2>2
    DEF HandlersReturn, Outstanding, LeftToOne, QueuedIsTracked, Unanswered, Tracking, Current
<1>10. DrainsAreStale(c)'
  <2>1. DrainsAreStale(c)
    BY DEF DrainInv, ConnInv
  <2>2. pc'[c] = p
    BY <1>3 DEF DrainInv, TypeOK
  <2>3. \A d : DrainCurrent(c, d)' => DrainCurrent(c, d)
    BY <1>2, <1>4 DEF DrainCurrent, DrainInv, TypeOK
  <2> QED
    BY <1>1, <1>2, <1>3, <2>1, <2>2, <2>3 DEF DrainsAreStale, Tracking
<1> QED
  BY <1>6, <1>7, <1>8, <1>9, <1>10, StepOfOne

(* The request is over: a drain of this idle period starts, or none.       *)
LEMMA Finishing ==
    ASSUME DrainInv, NEW c \in Conns, KeepAlive(c) \/ FinishAndClose(c)
    PROVE  DrainInv'
<1>1. Quiet /\ UNCHANGED <<queued, sock, guestDown, closed, hijacked, pending>>
  BY DEF KeepAlive, FinishAndClose, Quiet, connVars
<1>2. PICK p \in {"reading", "closing"} : pc' = [pc EXCEPT ![c] = p]
  BY DEF KeepAlive, FinishAndClose, Goto
<1>3. pc[c] = "finishing" /\ pc'[c] = p
  BY <1>2 DEF KeepAlive, FinishAndClose, DrainInv, TypeOK
<1>4. UNCHANGED <<served, term, owned, failed, slots, failClosed, handlerDone, connectionDone, holds>>
  BY <1>1 DEF Quiet, termVars, holdVars
<1>5. HoldPart' /\ TermPart'
  BY <1>1, QuietParts
<1>6. HandlersReturn(c)' /\ Outstanding(c)' /\ LeftToOne(c)' /\ QueuedIsTracked(c)'
  <2>1. HandlersReturn(c) /\ Outstanding(c) /\ LeftToOne(c) /\ QueuedIsTracked(c)
    BY DEF DrainInv, ConnInv
  <2> QED
    BY <1>1, <1>3, <1>4, <2>1
    DEF HandlersReturn, Outstanding, LeftToOne, QueuedIsTracked, Unanswered, Tracking, Current
<1>7. DrainsAreStale(c)
  BY DEF DrainInv, ConnInv
<1>8. CASE UNCHANGED <<state, generation, drainers>>
  <2>1. TypeOK'
    BY <1>1, <1>2, <1>4, <1>5, <1>8 DEF DrainInv, TypeOK, HoldPart
  <2>2. \A b \in Conns : b # c => SameAt(b)
    BY <1>1, <1>2, <1>4, <1>8 DEF DrainInv, TypeOK, SameAt
  <2>3. DrainsAreStale(c)'
    BY <1>1, <1>3, <1>7, <1>8 DEF DrainsAreStale, Tracking, DrainCurrent
  <2> QED
    BY <1>5, <1>6, <2>1, <2>2, <2>3, StepOfOne
<1>9. CASE ~UNCHANGED <<state, generation, drainers>>
  <2> DEFINE d == [gen |-> generation[c] + 1, saw |-> "polling"]
  <2>1. /\ state' = [state EXCEPT ![c] = "Idle"]
        /\ generation' = [generation EXCEPT ![c] = generation[c] + 1]
        /\ drainers' = [drainers EXCEPT ![c] = drainers[c] \cup {d}]
    BY <1>9 DEF KeepAlive, FinishAndClose, connVars
  <2>2. /\ generation[c] \in Nat /\ generation'[c] = generation[c] + 1
        /\ d \in [gen : Nat, saw : {"polling", "drained", "failed"}]
        /\ d.gen = generation[c] + 1 /\ d.saw = "polling"
        /\ \A e \in drainers[c] : e.gen \in 1..generation[c]
        /\ drainers'[c] = drainers[c] \cup {d}
    BY <2>1 DEF DrainInv, TypeOK
  <2> HIDE DEF d
  <2>3. /\ drainers' \in [Conns -> SUBSET [gen : Nat, saw : {"polling", "drained", "failed"}]]
        /\ \A b \in Conns : \A e \in drainers'[b] : e.gen \in 1..generation'[b]
    BY <2>1, <2>2 DEF DrainInv, TypeOK
  <2>4. TypeOK'
    BY <1>1, <1>2, <1>4, <1>5, <2>1, <2>2, <2>3 DEF DrainInv, TypeOK, HoldPart
  <2>5. \A b \in Conns : b # c => SameAt(b)
    BY <1>1, <1>2, <1>4, <2>1 DEF DrainInv, TypeOK, SameAt
  <2>6. DrainsAreStale(c)'
    <3>1. \A e \in drainers'[c] : ~(e.saw = "drained" /\ DrainCurrent(c, e)')
      BY <2>2 DEF DrainCurrent
    <3> QED
      BY <1>3, <3>1 DEF DrainsAreStale
  <2> QED
    BY <1>5, <1>6, <2>4, <2>5, <2>6, StepOfOne
<1> QED
  BY <1>8, <1>9

(* A drain polls the queue; a cancelled one ends.                          *)
LEMMA Polling ==
    ASSUME DrainInv, NEW c \in Conns, NEW d \in drainers[c], DrainSees(c, d) \/ DrainCancelled(c, d)
    PROVE  DrainInv'
<1>1. /\ Quiet
      /\ UNCHANGED <<pc, state, generation, queued, sock, guestDown, closed, hijacked, pending>>
  BY DEF DrainSees, DrainCancelled, Quiet
<1>2. UNCHANGED <<served, term, owned, failed, slots, failClosed, handlerDone, connectionDone, holds>>
  BY <1>1 DEF Quiet, termVars, holdVars
<1>3. HoldPart' /\ TermPart'
  BY <1>1, QuietParts
<1>4. d \in [gen : Nat, saw : {"polling", "drained", "failed"}] /\ d.gen \in 1..generation[c]
  BY DEF DrainInv, TypeOK
<1>5. PICK D : /\ drainers' = [drainers EXCEPT ![c] = D]
               /\ \A e \in D : \/ e \in drainers[c]
                               \/ /\ e \in [gen : Nat, saw : {"polling", "drained", "failed"}]
                                  /\ e.gen = d.gen
                                  /\ e.saw = "drained" => ~queued[c]
  <2>1. CASE DrainSees(c, d)
    <3>0. PICK what \in {"drained", "failed"} :
            /\ what = "drained" => ~queued[c]
            /\ drainers' = [drainers EXCEPT ![c] = (drainers[c] \ {d}) \cup {[d EXCEPT !.saw = what]}]
      BY <2>1 DEF DrainSees
    <3> DEFINE e == [d EXCEPT !.saw = what]
    <3>1. drainers' = [drainers EXCEPT ![c] = (drainers[c] \ {d}) \cup {e}]
      BY <3>0
    <3>2. /\ e \in [gen : Nat, saw : {"polling", "drained", "failed"}]
          /\ e.gen = d.gen /\ e.saw = what
      BY <1>4
    <3> HIDE DEF e
    <3> DEFINE D == (drainers[c] \ {d}) \cup {e}
    <3>3. \A x \in D : \/ x \in drainers[c]
                      \/ /\ x \in [gen : Nat, saw : {"polling", "drained", "failed"}]
                         /\ x.gen = d.gen
                         /\ x.saw = "drained" => ~queued[c]
      BY <3>0, <3>2
    <3>4. drainers' = [drainers EXCEPT ![c] = D]
      BY <3>1
    <3> QED
      BY <3>3, <3>4
  <2>2. CASE DrainCancelled(c, d)
    BY <2>2 DEF DrainCancelled
  <2> QED
    BY <2>1, <2>2
<1>6. drainers'[c] = D
  BY <1>5 DEF DrainInv, TypeOK
<1>7. TypeOK'
  <2>1. /\ drainers' \in [Conns -> SUBSET [gen : Nat, saw : {"polling", "drained", "failed"}]]
        /\ \A b \in Conns : \A e \in drainers'[b] : e.gen \in 1..generation[b]
    BY <1>4, <1>5 DEF DrainInv, TypeOK
  <2> QED
    BY <1>1, <1>2, <1>3, <2>1 DEF DrainInv, TypeOK, HoldPart
<1>8. \A b \in Conns : b # c => SameAt(b)
  BY <1>1, <1>2, <1>5 DEF DrainInv, TypeOK, SameAt
<1>9. HandlersReturn(c)' /\ Outstanding(c)' /\ LeftToOne(c)' /\ QueuedIsTracked(c)'
  BY <1>1, <1>2
  DEF DrainInv, ConnInv, HandlersReturn, Outstanding, LeftToOne, QueuedIsTracked, Unanswered,
      Tracking, Current
<1>10. DrainsAreStale(c)'
  <2>1. DrainsAreStale(c)
    BY DEF DrainInv, ConnInv
  <2>2. \A e : DrainCurrent(c, e)' <=> DrainCurrent(c, e)
    BY <1>1 DEF DrainCurrent
  <2>3. ASSUME NEW e \in D, e.saw = "drained", DrainCurrent(c, e)'
        PROVE  ~queued[c]
    BY <1>5, <2>1, <2>2, <2>3 DEF DrainsAreStale
  <2> QED
    BY <1>1, <1>2, <1>6, <2>1, <2>3 DEF DrainsAreStale, Tracking, DrainCurrent
<1> QED
  BY <1>3, <1>7, <1>8, <1>9, <1>10, StepOfOne

(* The kernel sends what is queued, or the socket is torn down.            *)
LEMMA QueueEmpties ==
    ASSUME DrainInv, NEW c \in Conns, Deliver(c) \/ PeerResets(c)
    PROVE  DrainInv'
<1>1. Quiet /\ UNCHANGED <<pc, connVars, guestDown>>
  BY DEF Deliver, PeerResets, Quiet
<1>2. UNCHANGED <<pc, state, generation, closed, hijacked, pending, drainers, served, term, owned,
                  failed, slots, failClosed, handlerDone, connectionDone, holds>>
  BY <1>1 DEF Quiet, termVars, holdVars, connVars
<1>3. HoldPart' /\ TermPart'
  BY <1>1, QuietParts
<1>4. queued' = [queued EXCEPT ![c] = FALSE] /\ sock' \in {sock, [sock EXCEPT ![c] = "gone"]}
  BY DEF Deliver, PeerResets, Gone
<1>5. queued'[c] = FALSE /\ \A b \in Conns : queued'[b] => queued[b]
  BY <1>4 DEF DrainInv, TypeOK
<1>6. TypeOK'
  BY <1>1, <1>2, <1>3, <1>4 DEF DrainInv, TypeOK, HoldPart
<1>7. \A b \in Conns : b # c => SameAt(b)
  BY <1>2, <1>5 DEF SameAt
<1>8. HandlersReturn(c)' /\ Outstanding(c)' /\ LeftToOne(c)' /\ QueuedIsTracked(c)'
  BY <1>2, <1>5
  DEF DrainInv, ConnInv, HandlersReturn, Outstanding, LeftToOne, QueuedIsTracked, Unanswered,
      Tracking, Current
<1>9. DrainsAreStale(c)'
  BY <1>2, <1>5 DEF DrainInv, ConnInv, DrainsAreStale, Tracking
<1> QED
  BY <1>3, <1>6, <1>7, <1>8, <1>9, StepOfOne

-----------------------------------------------------------------------------
(* The middleware and the handler.  A request takes a hold of its own.     *)
LEMMA Taking ==
    ASSUME DrainInv, NEW c \in Conns, TakeHold(c)
    PROVE  DrainInv'
<1>1. /\ pc[c] = "active" /\ served[c] \in Nat /\ served[c] < MaxRequests[c]
      /\ UNCHANGED <<state, generation, closed, hijacked, pending, drainers, term, owned, failed,
                     slots, failClosed, queued, sock, handlerDone, connectionDone, guestDown>>
  BY DEF TakeHold, connVars, termVars, DrainInv, TypeOK, ConnInv, Outstanding
<1>2. PICK ok \in BOOLEAN :
        /\ Disable(ok)
        /\ IF ok THEN /\ served' = [served EXCEPT ![c] = served[c] + 1]
                      /\ holds' = holds \cup {<<c, served[c] + 1>>}
                      /\ pc' = [pc EXCEPT ![c] = "held"]
                 ELSE /\ pc' = [pc EXCEPT ![c] = "aborting"]
                      /\ UNCHANGED <<served, holds>>
  BY DEF TakeHold, Goto
<1>3. <<c, served[c] + 1>> \notin holds
  <2>1. HeldUntilBoth(c)
    BY DEF DrainInv, ConnInv
  <2> QED
    BY <1>1, <2>1 DEF HeldUntilBoth
<1>4. CtrlTypeOK' /\ CtrlInv' /\ HoldsCounted'
  <2>1. CtrlTypeOK /\ CtrlInv /\ IsFiniteSet(holds) /\ activeCount = Cardinality(holds)
    BY DEF DrainInv, TypeOK, Counted, HoldsCounted
  <2>2. /\ CtrlTypeOK' /\ CtrlInv'
        /\ ok => /\ IsFiniteSet(holds \cup {<<c, served[c] + 1>>})
                 /\ activeCount' = Cardinality(holds \cup {<<c, served[c] + 1>>})
        /\ ~ok => activeCount' = Cardinality(holds)
    BY <1>2, <1>3, <2>1, HoldTaken
  <2> QED
    BY <1>2, <2>1, <2>2 DEF HoldsCounted
<1>5. TermPart'
  BY <1>1, TermStays
<1>6. /\ pc' \in [Conns -> {"reading", "active", "held", "handling", "hijacked",
                            "finishing", "aborting", "closing", "done"}]
      /\ served' \in [Conns -> Nat]
      /\ served'[c] = served[c] + (IF ok THEN 1 ELSE 0)
      /\ pc'[c] = IF ok THEN "held" ELSE "aborting"
      /\ \A b \in Conns : b # c => served'[b] = served[b] /\ pc'[b] = pc[b]
  BY <1>1, <1>2 DEF DrainInv, TypeOK
<1>7. TypeOK'
  <2>1. ok => <<c, served[c] + 1>> \in Requests
    BY <1>1, DrainAssumption DEF Requests
  <2>2. holds' \subseteq Requests
    BY <1>2, <2>1 DEF DrainInv, TypeOK
  <2>3. \A b \in Conns : {served'[b], pending[b], owned[b]} \subseteq 0..MaxRequests[b]
    BY <1>1, <1>6, DrainAssumption DEF DrainInv, TypeOK
  <2> QED
    BY <1>1, <1>4, <1>6, <2>2, <2>3 DEF DrainInv, TypeOK
<1>8. \A b \in Conns : b # c => SameAt(b)
  BY <1>1, <1>6 DEF SameAt
<1>9. /\ HeldUntilBoth(c) /\ HandlersReturn(c) /\ Outstanding(c)
      /\ LeftToOne(c) /\ DrainsAreStale(c) /\ QueuedIsTracked(c)
  BY DEF DrainInv, ConnInv
<1>10. <<c, served[c] + 1>> \notin handlerDone /\ <<c, served[c] + 1>> \notin connectionDone
  BY <1>1, <1>9 DEF HandlersReturn, Outstanding
<1>11. \A b \in Conns : HeldUntilBoth(b)'
  <2>1. HeldUntilBoth(c)'
    BY <1>1, <1>2, <1>6, <1>9, <1>10 DEF HeldUntilBoth
  <2>2. ASSUME NEW b \in Conns, b # c
        PROVE  HeldUntilBoth(b)'
    <3>1. HeldUntilBoth(b)
      BY DEF DrainInv, ConnInv
    <3> QED
      BY <1>1, <1>2, <1>6, <2>2, <3>1 DEF HeldUntilBoth
  <2> QED
    BY <2>1, <2>2
<1>12. HandlersReturn(c)'
  BY <1>1, <1>6, <1>9, <1>10 DEF HandlersReturn, Unanswered
<1>13. Outstanding(c)'
  <2>1. pending[c] \in Nat /\ owned[c] \in Nat
    BY DEF DrainInv, TypeOK
  <2> QED
    BY <1>1, <1>6, <1>9, <1>10, <2>1 DEF Outstanding, Unanswered, Tracking, Current
<1>14. LeftToOne(c)' /\ QueuedIsTracked(c)'
  BY <1>1, <1>9 DEF LeftToOne, QueuedIsTracked
<1>15. DrainsAreStale(c)'
  BY <1>1, <1>6, <1>9 DEF DrainsAreStale, Tracking, DrainCurrent
<1> QED
  BY <1>4, <1>5, <1>7, <1>8, <1>11, <1>12, <1>13, <1>14, <1>15, StepOfOne DEF HoldPart

(* addDrain on a connection that is still open: the response is tracked,   *)
(* and the one before it is over.                                          *)
LEMMA Tracked ==
    ASSUME DrainInv, NEW c \in Conns, AddDrain(c), Tracking(c)
    PROVE  DrainInv'
<1>1. /\ pc[c] = "held" /\ pc' = [pc EXCEPT ![c] = "handling"]
      /\ pending' = [pending EXCEPT ![c] = served[c]]
      /\ Complete(c, {pending[c]})
      /\ UNCHANGED <<served, state, generation, closed, hijacked, drainers, term, owned, failed,
                     slots, failClosed, queued, sock, guestDown>>
  BY DEF AddDrain, Tracking, Goto, termVars
<1>2. /\ served[c] \in Nat /\ pending[c] \in Nat /\ owned[c] \in Nat
      /\ pc'[c] = "handling" /\ pending'[c] = served[c]
      /\ \A b \in Conns : b # c => pending'[b] = pending[b] /\ pc'[b] = pc[b]
  BY <1>1 DEF DrainInv, TypeOK
<1>3. /\ HandlersReturn(c) /\ Outstanding(c)
      /\ LeftToOne(c) /\ DrainsAreStale(c) /\ QueuedIsTracked(c)
  BY DEF DrainInv, ConnInv
<1>4. /\ pending[c] <= served[c] /\ owned[c] <= served[c] /\ served[c] # 0
      /\ pending[c] # 0 => <<c, pending[c]>> \notin connectionDone
      /\ <<c, served[c]>> \notin connectionDone
      /\ served[c] # pending[c] /\ served[c] # owned[c]
  BY <1>1, <1>3 DEF Outstanding, Unanswered, Current
<1>5. /\ CtrlTypeOK' /\ CtrlInv' /\ HoldsCounted' /\ \A b \in Conns : HeldUntilBoth(b)'
      /\ handlerDone' = handlerDone /\ holds' \subseteq holds
      /\ connectionDone' = connectionDone \cup (IF pending[c] = 0 THEN {} ELSE {<<c, pending[c]>>})
  BY <1>1, <1>2, <1>4, CompleteOne
<1>6. TermPart'
  BY <1>1, TermStays
<1>7. TypeOK'
  <2>1. pending[c] # 0 => <<c, pending[c]>> \in Requests
    BY <1>2, DrainAssumption DEF Requests, DrainInv, TypeOK
  <2>2. connectionDone' \subseteq Requests /\ holds' \subseteq Requests
    BY <1>5, <2>1 DEF DrainInv, TypeOK
  <2>3. \A b \in Conns : {served[b], pending'[b], owned[b]} \subseteq 0..MaxRequests[b]
    BY <1>2 DEF DrainInv, TypeOK
  <2> QED
    BY <1>1, <1>5, <2>2, <2>3 DEF DrainInv, TypeOK
<1>8. \A b \in Conns : b # c => SameAt(b)
  BY <1>1, <1>2, <1>5 DEF SameAt
<1>9. HandlersReturn(c)'
  BY <1>1, <1>2, <1>3, <1>5 DEF HandlersReturn, Unanswered
<1>10. Outstanding(c)'
  <2>1. owned[c] # 0 => <<c, owned[c]>> \notin connectionDone'
    <3>1. owned[c] # 0 => pending[c] = 0
      BY <1>3 DEF Outstanding, LeftToOne, Tracking
    <3> QED
      BY <1>3, <1>5, <3>1 DEF Outstanding
  <2>2. \A k \in Nat : <<c, k>> \in connectionDone' => k <= served[c]
    BY <1>3, <1>4, <1>5 DEF Outstanding
  <2>3. <<c, served[c]>> \notin connectionDone'
    BY <1>4, <1>5
  <2> QED
    BY <1>1, <1>2, <1>4, <2>1, <2>2, <2>3 DEF Outstanding, Unanswered, Tracking
<1>11. LeftToOne(c)' /\ QueuedIsTracked(c)'
  BY <1>1, <1>2, <1>3, <1>4 DEF LeftToOne, QueuedIsTracked
<1>12. DrainsAreStale(c)'
  BY <1>1, <1>2, <1>3, <1>4 DEF DrainsAreStale, Tracking, DrainCurrent
<1> QED
  BY <1>5, <1>6, <1>7, <1>8, <1>9, <1>10, <1>11, <1>12, StepOfOne DEF HoldPart

(* addDrain on one that is not: the request is answered at once.           *)
LEMMA Refused ==
    ASSUME DrainInv, NEW c \in Conns, AddDrain(c), ~Tracking(c)
    PROVE  DrainInv'
<1> DEFINE r == <<c, served[c]>>
<1>1. /\ pc[c] = "held" /\ pc' = [pc EXCEPT ![c] = "finishing"]
      /\ connectionDone' = connectionDone \cup {r} /\ handlerDone' = handlerDone \cup {r}
      /\ Release({r})
      /\ UNCHANGED <<served, state, generation, closed, hijacked, pending, drainers, term, owned,
                     failed, slots, failClosed, queued, sock, guestDown>>
  BY DEF AddDrain, Tracking, Goto, termVars, Current
<1>2. /\ served[c] \in Nat /\ pending[c] \in Nat /\ owned[c] \in Nat
      /\ pc'[c] = "finishing" /\ \A b \in Conns : b # c => pc'[b] = pc[b]
  BY <1>1 DEF DrainInv, TypeOK
<1>3. /\ HeldUntilBoth(c) /\ HandlersReturn(c) /\ Outstanding(c)
      /\ LeftToOne(c) /\ DrainsAreStale(c) /\ QueuedIsTracked(c)
  BY DEF DrainInv, ConnInv
<1>4. /\ served[c] # 0 /\ served[c] # pending[c] /\ served[c] # owned[c]
      /\ r \notin connectionDone /\ r \in holds
  BY <1>1, <1>2, <1>3 DEF Outstanding, HeldUntilBoth, Unanswered, Current
<1>5. CtrlTypeOK' /\ CtrlInv' /\ HoldsCounted' /\ holds' = holds \ {r}
  <2> HIDE DEF r
  <2> QED
    BY <1>1, <1>4, ReleaseOne DEF DrainInv, TypeOK, Counted
<1>6. \A b \in Conns : HeldUntilBoth(b)'
  BY <1>1, <1>5 DEF DrainInv, ConnInv, HeldUntilBoth
<1>7. TermPart'
  BY <1>1, TermStays
<1>8. TypeOK'
  <2>1. r \in Requests
    BY <1>2, <1>4, DrainAssumption DEF Requests, DrainInv, TypeOK
  <2> HIDE DEF r
  <2> QED
    BY <1>1, <1>5, <2>1 DEF DrainInv, TypeOK
<1>9. \A b \in Conns : b # c => SameAt(b)
  BY <1>1, <1>2 DEF SameAt
<1>10. HandlersReturn(c)'
  BY <1>1, <1>2, <1>3, <1>4 DEF HandlersReturn, Unanswered
<1>11. Outstanding(c)'
  BY <1>1, <1>2, <1>3, <1>4 DEF Outstanding, Unanswered, Tracking
<1>12. LeftToOne(c)' /\ QueuedIsTracked(c)'
  BY <1>1, <1>3 DEF LeftToOne, QueuedIsTracked
<1>13. DrainsAreStale(c)'
  BY <1>1, <1>2, <1>3 DEF DrainsAreStale, Tracking, DrainCurrent
<1> QED
  BY <1>5, <1>6, <1>7, <1>8, <1>9, <1>10, <1>11, <1>12, <1>13, StepOfOne DEF HoldPart

(* The handler returns, as an ordinary one or as that of a WebSocket.      *)
LEMMA Returning ==
    ASSUME DrainInv, NEW c \in Conns, HandlerReturns(c) \/ HijackedHandlerReturns(c)
    PROVE  DrainInv'
<1>1. PICK p \in {"finishing", "closing"} :
        /\ pc[c] \in {"handling", "hijacked"} /\ pc' = [pc EXCEPT ![c] = p]
        /\ p = "finishing" => pc[c] = "handling"
        /\ FinishHandler(Current(c))
        /\ UNCHANGED <<served, state, generation, closed, hijacked, pending, drainers, term, owned,
                       failed, slots, failClosed, queued, sock, guestDown>>
  BY DEF HandlerReturns, HijackedHandlerReturns, Goto, connVars, termVars
<1>2. /\ served[c] \in Nat /\ pending[c] \in Nat /\ owned[c] \in Nat
      /\ pc'[c] = p /\ \A b \in Conns : b # c => pc'[b] = pc[b]
  BY <1>1 DEF DrainInv, TypeOK
<1>3. /\ HandlersReturn(c) /\ Outstanding(c)
      /\ LeftToOne(c) /\ DrainsAreStale(c) /\ QueuedIsTracked(c)
  BY DEF DrainInv, ConnInv
<1>4. served[c] # 0
  BY <1>1, <1>3 DEF Outstanding, Unanswered
<1>5. /\ CtrlTypeOK' /\ CtrlInv' /\ HoldsCounted' /\ \A b \in Conns : HeldUntilBoth(b)'
      /\ connectionDone' = connectionDone /\ handlerDone' = handlerDone \cup {<<c, served[c]>>}
  BY <1>1, HandlerFinishes DEF Unanswered
<1>6. TermPart'
  BY <1>1, TermStays
<1>7. TypeOK'
  <2>1. <<c, served[c]>> \in Requests
    BY <1>2, <1>4, DrainAssumption DEF Requests, DrainInv, TypeOK
  <2>2. holds' \subseteq holds
    BY <1>1 DEF FinishHandler, Release
  <2> QED
    BY <1>1, <1>5, <2>1, <2>2 DEF DrainInv, TypeOK
<1>8. \A b \in Conns : b # c => SameAt(b)
  BY <1>1, <1>2, <1>5 DEF SameAt
<1>9. HandlersReturn(c)'
  BY <1>1, <1>2, <1>3, <1>4, <1>5 DEF HandlersReturn, Unanswered
<1>10. Outstanding(c)'
  BY <1>1, <1>2, <1>3, <1>5 DEF Outstanding, Unanswered, Tracking
<1>11. LeftToOne(c)' /\ QueuedIsTracked(c)'
  BY <1>1, <1>3 DEF LeftToOne, QueuedIsTracked
<1>12. DrainsAreStale(c)'
  BY <1>1, <1>2, <1>3 DEF DrainsAreStale, Tracking, DrainCurrent
<1> QED
  BY <1>5, <1>6, <1>7, <1>8, <1>9, <1>10, <1>11, <1>12, StepOfOne DEF HoldPart

(* A hijacked connection is tracked no more.                               *)
LEMMA Hijacking ==
    ASSUME DrainInv, NEW c \in Conns, Hijack(c)
    PROVE  DrainInv'
<1>1. /\ pc[c] = "handling" /\ pc' = [pc EXCEPT ![c] = "hijacked"]
      /\ UNCHANGED <<served, closed, drainers, term, owned, failed, slots, failClosed, queued, sock,
                     guestDown>>
  BY DEF Hijack, Goto, connVars, termVars
<1>2. /\ served[c] \in Nat /\ pending[c] \in Nat /\ owned[c] \in Nat
      /\ pc'[c] = "hijacked" /\ \A b \in Conns : b # c => pc'[b] = pc[b]
  BY <1>1 DEF DrainInv, TypeOK
<1>3. /\ HandlersReturn(c) /\ Outstanding(c)
      /\ LeftToOne(c) /\ DrainsAreStale(c) /\ QueuedIsTracked(c)
  BY DEF DrainInv, ConnInv
<1>4. TermPart'
  BY <1>1, TermStays
<1>5. CASE closed[c]
  <2>1. /\ UNCHANGED <<ctrlVars, holdVars, state, generation, hijacked, pending>>
        /\ UNCHANGED <<handlerDone, connectionDone, holds>>
    BY <1>5 DEF Hijack, connVars, holdVars
  <2>2. HoldPart'
    BY <1>1, <2>1, HoldsStay
  <2>3. TypeOK'
    BY <1>1, <2>1, <2>2 DEF DrainInv, TypeOK, HoldPart
  <2>4. \A b \in Conns : b # c => SameAt(b)
    BY <1>1, <1>2, <2>1 DEF SameAt
  <2>5. HandlersReturn(c)' /\ Outstanding(c)' /\ LeftToOne(c)' /\ QueuedIsTracked(c)'
    BY <1>1, <1>2, <1>3, <2>1
    DEF HandlersReturn, Outstanding, LeftToOne, QueuedIsTracked, Unanswered, Tracking
  <2>6. DrainsAreStale(c)'
    BY <1>1, <1>2, <1>3, <2>1 DEF DrainsAreStale, Tracking, DrainCurrent
  <2> QED
    BY <1>4, <2>2, <2>3, <2>4, <2>5, <2>6, StepOfOne
<1>6. CASE ~closed[c]
  <2>1. /\ hijacked' = [hijacked EXCEPT ![c] = TRUE] /\ state' = [state EXCEPT ![c] = "Hijacked"]
        /\ generation' = [generation EXCEPT ![c] = generation[c] + 1]
        /\ pending' = [pending EXCEPT ![c] = 0]
        /\ Complete(c, {pending[c]})
    BY <1>6 DEF Hijack
  <2>2. /\ hijacked'[c] /\ pending'[c] = 0 /\ term[c] = "none"
        /\ \A b \in Conns : b # c => /\ pending'[b] = pending[b] /\ hijacked'[b] = hijacked[b]
                                     /\ state'[b] = state[b] /\ generation'[b] = generation[b]
    BY <1>3, <1>6, <2>1 DEF DrainInv, TypeOK, LeftToOne
  <2>3. /\ CtrlTypeOK' /\ CtrlInv' /\ HoldsCounted' /\ \A b \in Conns : HeldUntilBoth(b)'
        /\ handlerDone' = handlerDone /\ holds' \subseteq holds
        /\ connectionDone' = connectionDone \cup (IF pending[c] = 0 THEN {} ELSE {<<c, pending[c]>>})
    BY <1>1, <1>2, <1>3, <2>1, CompleteOne DEF Outstanding
  <2>4. TypeOK'
    <3>1. pending[c] # 0 => <<c, pending[c]>> \in Requests
      BY <1>2, DrainAssumption DEF Requests, DrainInv, TypeOK
    <3>2. connectionDone' \subseteq Requests /\ holds' \subseteq Requests
      BY <2>3, <3>1 DEF DrainInv, TypeOK
    <3>3. \A b \in Conns : {served[b], pending'[b], owned[b]} \subseteq 0..MaxRequests[b]
      BY <2>2, DrainAssumption DEF DrainInv, TypeOK
    <3>4. \A b \in Conns : \A d \in drainers[b] : d.gen \in 1..generation'[b]
      BY <2>1 DEF DrainInv, TypeOK
    <3> QED
      BY <1>1, <2>1, <2>3, <3>2, <3>3, <3>4 DEF DrainInv, TypeOK
  <2>5. \A b \in Conns : b # c => SameAt(b)
    BY <1>1, <1>2, <2>2, <2>3 DEF SameAt
  <2>6. HandlersReturn(c)'
    BY <1>1, <1>2, <1>3, <2>3 DEF HandlersReturn, Unanswered
  <2>7. Outstanding(c)'
    <3>1. owned[c] = 0
      BY <1>3, <2>2 DEF LeftToOne
    <3>2. \A k \in Nat : <<c, k>> \in connectionDone' => k <= served[c]
      BY <1>2, <1>3, <2>3 DEF Outstanding
    <3>3. served[c] # 0
      BY <1>1, <1>3 DEF Outstanding, Unanswered
    <3> QED
      BY <1>1, <1>2, <2>2, <3>1, <3>2, <3>3 DEF Outstanding, Unanswered, Tracking
  <2>8. LeftToOne(c)' /\ QueuedIsTracked(c)' /\ DrainsAreStale(c)'
    BY <1>1, <1>3, <2>2 DEF LeftToOne, QueuedIsTracked, DrainsAreStale, Tracking, DrainCurrent
  <2> QED
    BY <1>4, <2>3, <2>4, <2>5, <2>6, <2>7, <2>8, StepOfOne DEF HoldPart
<1> QED
  BY <1>5, <1>6

(* Bytes of a response are queued: the response is tracked.                *)
LEMMA Writing ==
    ASSUME DrainInv, NEW c \in Conns, pc[c] \in {"handling", "finishing"}, ~closed[c],
           queued' = [queued EXCEPT ![c] = TRUE],
           UNCHANGED <<ctrlVars, connVars, termVars, sock, holdVars, pc, served, guestDown>>
    PROVE  DrainInv'
<1>1. UNCHANGED <<pc, state, generation, closed, hijacked, pending, drainers, served, term, owned,
                  failed, slots, failClosed, handlerDone, connectionDone, holds>>
  BY DEF termVars, holdVars, connVars
<1>2. HoldPart' /\ TermPart'
  BY QuietParts DEF Quiet
<1>3. TypeOK'
  BY <1>1, <1>2 DEF DrainInv, TypeOK, HoldPart
<1>4. \A b \in Conns : b # c => SameAt(b)
  BY <1>1 DEF SameAt, DrainInv, TypeOK
<1>5. HandlersReturn(c)' /\ Outstanding(c)' /\ LeftToOne(c)'
  BY <1>1 DEF DrainInv, ConnInv, HandlersReturn, Outstanding, LeftToOne, Unanswered, Tracking, Current
<1>6. QueuedIsTracked(c)' /\ DrainsAreStale(c)'
  <2>1. DrainsAreStale(c)
    BY DEF DrainInv, ConnInv
  <2>2. Tracking(c) => state[c] = "Active" /\ pending[c] # 0
    BY <2>1 DEF DrainsAreStale
  <2>3. \A d : ~DrainCurrent(c, d)'
    BY <1>1, <2>2 DEF DrainCurrent, Tracking
  <2> QED
    BY <1>1, <2>1, <2>2, <2>3 DEF QueuedIsTracked, DrainsAreStale, Tracking
<1> QED
  BY <1>2, <1>3, <1>4, <1>5, <1>6, StepOfOne

-----------------------------------------------------------------------------
(* The semaphore and failClosedResponseHolds follow who has a connection.  *)
LEMMA CountMoves ==
    ASSUME NEW S, IsFiniteSet(S), NEW c
    PROVE  /\ Cardinality(S) \in Nat /\ (c \in S => Cardinality(S) > 0)
           /\ IsFiniteSet(S \cup {c}) /\ IsFiniteSet(S \ {c})
           /\ Cardinality(S \cup {c}) = Cardinality(S) + (IF c \in S THEN 0 ELSE 1)
           /\ Cardinality(S \ {c}) = Cardinality(S) - (IF c \in S THEN 1 ELSE 0)
<1>1. /\ Cardinality(S) \in Nat /\ (c \in S => Cardinality(S) # 0)
      /\ IsFiniteSet(S \cup {c}) /\ IsFiniteSet(S \ {c})
      /\ c \notin S => Cardinality(S \cup {c}) = Cardinality(S) + 1
      /\ c \in S => Cardinality(S \ {c}) = Cardinality(S) - 1
  BY HolderCount
<1>2. CASE c \in S
  <2>1. S \cup {c} = S
    BY <1>2
  <2>2. Cardinality(S \cup {c}) = Cardinality(S)
    BY <2>1
  <2> QED
    BY <1>1, <1>2, <2>2
<1>3. CASE c \notin S
  <2>1. S \ {c} = S
    BY <1>3
  <2>2. Cardinality(S \ {c}) = Cardinality(S)
    BY <2>1
  <2> QED
    BY <1>1, <1>3, <2>2
<1> QED
  BY <1>2, <1>3

(* The semaphore: a connection that gains or loses its monitor.            *)
LEMMA MonitorMoves ==
    ASSUME DrainInv, NEW c \in Conns, NEW next,
           term' = [term EXCEPT ![c] = next],
           slots' = slots + (IF next \in {"monitoring", "aborting"} THEN 1 ELSE 0)
                          - (IF c \in Monitors THEN 1 ELSE 0)
    PROVE  MonitorsCounted' /\ (c \in Monitors => slots > 0)
<1> DEFINE in == next \in {"monitoring", "aborting"}
<1>1. term \in [Conns -> {"none", "recovering", "monitoring", "aborting"}]
  BY DEF DrainInv, TypeOK
<1>2. IsFiniteSet(Monitors) /\ slots = Cardinality(Monitors)
  BY DEF DrainInv, Counted, MonitorsCounted
<1>3. Monitors' = IF in THEN Monitors \cup {c} ELSE Monitors \ {c}
  BY <1>1 DEF Monitors
<1>4. /\ slots' = slots + (IF in THEN 1 ELSE 0) - (IF c \in Monitors THEN 1 ELSE 0)
  OBVIOUS
<1> HIDE DEF in
<1>5. /\ Cardinality(Monitors) \in Nat /\ (c \in Monitors => Cardinality(Monitors) > 0)
      /\ IsFiniteSet(Monitors \cup {c}) /\ IsFiniteSet(Monitors \ {c})
      /\ Cardinality(Monitors \cup {c}) = Cardinality(Monitors) + (IF c \in Monitors THEN 0 ELSE 1)
      /\ Cardinality(Monitors \ {c}) = Cardinality(Monitors) - (IF c \in Monitors THEN 1 ELSE 0)
  BY <1>2, CountMoves
<1>6. CASE in
  BY <1>2, <1>3, <1>4, <1>5, <1>6 DEF MonitorsCounted
<1>7. CASE ~in
  BY <1>2, <1>3, <1>4, <1>5, <1>7 DEF MonitorsCounted
<1> QED
  BY <1>6, <1>7

(* failClosedResponseHolds: a drain that fails, or is made good.           *)
LEMMA FailureMoves ==
    ASSUME DrainInv, NEW c \in Conns, NEW next \in BOOLEAN,
           failed' = [failed EXCEPT ![c] = next],
           failClosed' = failClosed + (IF next THEN 1 ELSE 0) - (IF failed[c] THEN 1 ELSE 0)
    PROVE  FailuresCounted' /\ failClosed' \in Nat
<1>1. failed \in [Conns -> BOOLEAN]
  BY DEF DrainInv, TypeOK
<1>2. IsFiniteSet(Failures) /\ failClosed = Cardinality(Failures)
  BY DEF DrainInv, Counted, FailuresCounted
<1>3. Failures' = IF next THEN Failures \cup {c} ELSE Failures \ {c}
  BY <1>1 DEF Failures
<1>4. failed[c] <=> c \in Failures
  BY DEF Failures
<1>5. /\ Cardinality(Failures) \in Nat /\ (c \in Failures => Cardinality(Failures) > 0)
      /\ IsFiniteSet(Failures \cup {c}) /\ IsFiniteSet(Failures \ {c})
      /\ Cardinality(Failures \cup {c}) = Cardinality(Failures) + (IF c \in Failures THEN 0 ELSE 1)
      /\ Cardinality(Failures \ {c}) = Cardinality(Failures) - (IF c \in Failures THEN 1 ELSE 0)
  BY <1>2, CountMoves
<1>6. CASE next
  BY <1>2, <1>3, <1>4, <1>5, <1>6 DEF FailuresCounted
<1>7. CASE ~next
  BY <1>2, <1>3, <1>4, <1>5, <1>7 DEF FailuresCounted
<1> QED
  BY <1>6, <1>7

-----------------------------------------------------------------------------
(* A connection is closed, by whichever goroutine: its response is aborted *)
(* (Resets), or left to recovery, or to a monitor.                         *)
Resets(c) == Gone(c) /\ Complete(c, {pending[c]}) /\ UNCHANGED termVars

Recovers(c) == Recover(c, pending[c]) /\ UNCHANGED <<ctrlVars, holdVars, queued, sock, slots>>

Monitored(c) ==
    /\ slots < MonitorLimit
    /\ slots' = slots + 1
    /\ term' = [term EXCEPT ![c] = "monitoring"]
    /\ owned' = [owned EXCEPT ![c] = pending[c]]
    /\ sock' = [sock EXCEPT ![c] = "half"]
    /\ UNCHANGED <<ctrlVars, holdVars, queued, failed, failClosed>>

(* Who has the connection afterwards, and what of its response is left.    *)
LeftAs(c) ==
    /\ HoldPart' /\ TermPart'
    /\ handlerDone' = handlerDone /\ holds' \subseteq holds
    /\ connectionDone' \subseteq
         connectionDone \cup (IF pending[c] = 0 THEN {} ELSE {<<c, pending[c]>>})
    /\ owned' \in [Conns -> Nat] /\ failed' \in [Conns -> BOOLEAN]
    /\ term' \in [Conns -> {"none", "recovering", "monitoring", "aborting"}]
    /\ queued' \in [Conns -> BOOLEAN] /\ sock' \in [Conns -> {"open", "half", "gone"}]
    /\ slots' \in 0..MonitorLimit /\ failClosed' \in Nat
    /\ \/ /\ owned'[c] = 0 /\ term'[c] = "none" /\ ~failed'[c] /\ ~queued'[c]
       \/ /\ owned'[c] = pending[c] /\ connectionDone' = connectionDone
          /\ term'[c] \in {"recovering", "monitoring"}
          /\ term'[c] = "recovering" => failed'[c]
          /\ queued'[c] = queued[c]
    /\ \A b \in Conns : b # c => /\ owned'[b] = owned[b] /\ term'[b] = term[b]
                                 /\ failed'[b] = failed[b] /\ queued'[b] = queued[b]
    /\ \A b \in Conns, k \in Nat :
         b # c => (<<b, k>> \in connectionDone' <=> <<b, k>> \in connectionDone)

(* So a close leaves the response aborted or owned, and every count exact. *)
LEMMA ClosedIsLeft ==
    ASSUME DrainInv, NEW c \in Conns, ~closed[c], served' = served,
           Resets(c) \/ Recovers(c) \/ Monitored(c)
    PROVE  LeftAs(c)
<1>1. /\ LeftToOne(c) /\ Outstanding(c)
      /\ served[c] \in Nat /\ pending[c] \in Nat /\ slots \in 0..MonitorLimit
      /\ MonitorLimit \in Nat /\ failClosed \in Nat
  BY DrainAssumption DEF DrainInv, ConnInv, TypeOK
<1>2. /\ owned[c] = 0 /\ term[c] = "none" /\ failed[c] = FALSE /\ c \notin Monitors
  BY <1>1 DEF LeftToOne, Monitors, DrainInv, TypeOK
<1>3. /\ owned \in [Conns -> Nat] /\ failed \in [Conns -> BOOLEAN]
      /\ term \in [Conns -> {"none", "recovering", "monitoring", "aborting"}]
      /\ queued \in [Conns -> BOOLEAN] /\ sock \in [Conns -> {"open", "half", "gone"}]
  BY DEF DrainInv, TypeOK
<1>4. CASE Resets(c)
  <2>1. /\ queued' = [queued EXCEPT ![c] = FALSE] /\ sock' = [sock EXCEPT ![c] = "gone"]
        /\ Complete(c, {pending[c]}) /\ UNCHANGED <<term, owned, failed, slots, failClosed>>
    BY <1>4 DEF Resets, Gone, termVars
  <2>2. /\ CtrlTypeOK' /\ CtrlInv' /\ HoldsCounted' /\ \A b \in Conns : HeldUntilBoth(b)'
        /\ handlerDone' = handlerDone /\ holds' \subseteq holds
        /\ connectionDone' =
             connectionDone \cup (IF pending[c] = 0 THEN {} ELSE {<<c, pending[c]>>})
    BY <1>1, <2>1, CompleteOne DEF Outstanding
  <2>3. TermPart'
    BY <2>1, TermStays
  <2> QED
    BY <1>1, <1>2, <1>3, <2>1, <2>2, <2>3 DEF LeftAs, HoldPart
<1>5. CASE Recovers(c)
  <2>1. /\ UNCHANGED <<ctrlVars, holdVars, queued, sock, slots>>
        /\ term' = [term EXCEPT ![c] = "recovering"] /\ owned' = [owned EXCEPT ![c] = pending[c]]
        /\ failed' = [failed EXCEPT ![c] = TRUE] /\ failClosed' = failClosed + 1
    BY <1>5 DEF Recovers, Recover
  <2>2. HoldPart' /\ UNCHANGED <<handlerDone, connectionDone, holds>>
    BY <2>1, HoldsStay DEF holdVars
  <2>3. MonitorsCounted' /\ FailuresCounted'
    <3>1. slots' = slots + 0 - 0 /\ failClosed' = failClosed + 1 - 0
      BY <1>1, <2>1
    <3> QED
      BY <1>2, <2>1, <3>1, MonitorMoves, FailureMoves
  <2> QED
    BY <1>1, <1>2, <1>3, <2>1, <2>2, <2>3 DEF LeftAs, TermPart
<1>6. CASE Monitored(c)
  <2>1. /\ UNCHANGED <<ctrlVars, holdVars, queued, failed, failClosed>>
        /\ slots < MonitorLimit /\ slots' = slots + 1
        /\ term' = [term EXCEPT ![c] = "monitoring"] /\ owned' = [owned EXCEPT ![c] = pending[c]]
        /\ sock' = [sock EXCEPT ![c] = "half"]
    BY <1>6 DEF Monitored
  <2>2. HoldPart' /\ UNCHANGED <<handlerDone, connectionDone, holds>>
    BY <2>1, HoldsStay DEF holdVars
  <2>3. MonitorsCounted'
    <3>1. slots' = slots + 1 - 0
      BY <1>1, <2>1
    <3> QED
      BY <1>2, <2>1, <3>1, MonitorMoves
  <2>4. FailuresCounted'
    BY <2>1 DEF FailuresCounted, Failures, DrainInv, Counted
  <2> QED
    BY <1>1, <1>2, <1>3, <2>1, <2>2, <2>3, <2>4 DEF LeftAs, TermPart
<1> QED
  BY <1>4, <1>5, <1>6

(* Closing keeps the invariant, wherever the connection's own goroutine is *)
(* and goes, as long as it is not about to serve a request.                *)
LEMMA Closing ==
    ASSUME DrainInv, NEW c \in Conns, ~closed[c],
           MarkClosed(c), Resets(c) \/ Recovers(c) \/ Monitored(c),
           UNCHANGED <<served, state, hijacked, guestDown>>,
           generation' \in {generation, [generation EXCEPT ![c] = @ + 1]},
           NEW D \in SUBSET drainers[c], drainers' = [drainers EXCEPT ![c] = D],
           NEW p \in {"reading", "handling", "finishing", "aborting", "closing", "done", pc[c]},
           pc' = [pc EXCEPT ![c] = p],
           p = pc[c] \/ (p \in {"closing", "done"} /\ pc[c] \in {"aborting", "closing"})
    PROVE  DrainInv'
<1>1. /\ closed' = [closed EXCEPT ![c] = TRUE] /\ pending' = [pending EXCEPT ![c] = 0]
      /\ LeftAs(c)
  BY ClosedIsLeft DEF MarkClosed
<1>2. /\ served[c] \in Nat /\ pending[c] \in Nat /\ pc'[c] = p /\ closed'[c] /\ pending'[c] = 0
      /\ drainers'[c] = D
      /\ \A b \in Conns : b # c =>
           /\ pc'[b] = pc[b] /\ closed'[b] = closed[b] /\ pending'[b] = pending[b]
           /\ generation'[b] = generation[b] /\ drainers'[b] = drainers[b]
  BY <1>1 DEF DrainInv, TypeOK
<1>3. /\ HandlersReturn(c) /\ Outstanding(c) /\ QueuedIsTracked(c)
  BY DEF DrainInv, ConnInv
<1>4. owned[c] = 0
  BY DEF DrainInv, ConnInv, LeftToOne
<1>5. TypeOK'
  <2>1. pending[c] # 0 => <<c, pending[c]>> \in Requests
    BY <1>2, DrainAssumption DEF Requests, DrainInv, TypeOK
  <2>2. connectionDone' \subseteq Requests /\ holds' \subseteq Requests /\ handlerDone' \subseteq Requests
    BY <1>1, <2>1 DEF LeftAs, DrainInv, TypeOK
  <2>3. \A b \in Conns : {served[b], pending'[b], owned'[b]} \subseteq 0..MaxRequests[b]
    <3>1. owned'[c] \in {0, pending[c]}
      BY <1>1 DEF LeftAs
    <3>2. \A b \in Conns : b # c => owned'[b] = owned[b]
      BY <1>1 DEF LeftAs
    <3>3. \A b \in Conns : {served[b], pending[b], owned[b]} \subseteq 0..MaxRequests[b]
      BY DEF DrainInv, TypeOK
    <3>4. \A b \in Conns : 0 \in 0..MaxRequests[b]
      BY DrainAssumption
    <3> QED
      BY <1>2, <3>1, <3>2, <3>3, <3>4
  <2>4. /\ drainers' \in [Conns -> SUBSET [gen : Nat, saw : {"polling", "drained", "failed"}]]
        /\ generation' \in [Conns -> Nat]
        /\ \A b \in Conns : \A d \in drainers'[b] : d.gen \in 1..generation'[b]
    BY DEF DrainInv, TypeOK
  <2>5. /\ pc' \in [Conns -> {"reading", "active", "held", "handling", "hijacked",
                              "finishing", "aborting", "closing", "done"}]
        /\ closed' \in [Conns -> BOOLEAN] /\ pending' \in [Conns -> Nat]
    BY <1>1 DEF DrainInv, TypeOK
  <2>6. CtrlTypeOK'
    BY <1>1 DEF LeftAs, HoldPart
  <2> QED
    BY <1>1, <2>2, <2>3, <2>4, <2>5, <2>6 DEF LeftAs, DrainInv, TypeOK
<1>6. ASSUME NEW b \in Conns, b # c
      PROVE  SameAt(b)
  BY <1>1, <1>2, <1>6 DEF LeftAs, SameAt
<1>7. HandlersReturn(c)'
  BY <1>1, <1>2, <1>3 DEF HandlersReturn, Unanswered, LeftAs
<1>8. Outstanding(c)'
  <2>1. \A k \in Nat : <<c, k>> \in connectionDone' => <<c, k>> \in connectionDone \/ k = pending[c]
    BY <1>1 DEF LeftAs
  <2>2. /\ owned'[c] \in {0, pending[c]}
        /\ owned'[c] # 0 => connectionDone' = connectionDone
    BY <1>1 DEF LeftAs
  <2>3. \A k \in Nat : <<c, k>> \in connectionDone' => k <= served[c]
    BY <1>3, <2>1 DEF Outstanding
  <2>4. owned'[c] <= served[c] /\ (owned'[c] # 0 => <<c, owned'[c]>> \notin connectionDone')
    BY <1>2, <1>3, <2>2 DEF Outstanding
  <2>5. p = "held" => <<c, served[c]>> \notin connectionDone' /\ served[c] # owned'[c]
                      /\ served[c] # 0
    BY <1>2, <1>3, <2>1, <2>2 DEF Outstanding, Unanswered, Current
  <2>6. p \in {"held", "handling", "hijacked"} => served[c] # 0
    BY <1>3 DEF Outstanding, Unanswered
  <2>7. p = "active" => served[c] < MaxRequests[c]
    BY <1>3 DEF Outstanding
  <2> QED
    BY <1>2, <2>3, <2>4, <2>5, <2>6, <2>7 DEF Outstanding, Unanswered, Current
<1>9. LeftToOne(c)'
  BY <1>1, <1>2 DEF LeftToOne, LeftAs, Outstanding
<1>10. DrainsAreStale(c)'
  BY <1>2 DEF DrainsAreStale, Tracking, DrainCurrent
<1>11. QueuedIsTracked(c)'
  BY <1>1, <1>2, <1>3, <1>4 DEF QueuedIsTracked, LeftAs
<1> QED
  BY <1>1, <1>5, <1>6, <1>7, <1>8, <1>9, <1>10, <1>11, StepOfOne DEF LeftAs

(* Where nothing is tracked there is nothing to complete.                  *)
LEMMA NothingToComplete ==
    ASSUME NEW c \in Conns, UNCHANGED <<ctrlVars, holdVars>>
    PROVE  Complete(c, {0})
<1>1. {<<c, k>> : k \in {0} \ {0}} = {}
  OBVIOUS
<1>2. UNCHANGED <<handlerDone, connectionDone, holds, ctrlVars>>
  BY DEF holdVars
<1>3. {} \cap handlerDone = {} /\ connectionDone \cup {} = connectionDone /\ holds \ {} = holds
  OBVIOUS
<1> QED
  BY <1>1, <1>2, <1>3 DEF Complete, Release

(* A closed connection's goroutine goes on to the end.                     *)
LEMMA MovesOn ==
    ASSUME DrainInv, NEW c \in Conns, closed[c],
           UNCHANGED <<ctrlVars, connVars, termVars, queued, sock, holdVars, served, guestDown>>,
           NEW p \in {"reading", "handling", "finishing", "closing", "done"},
           pc' = [pc EXCEPT ![c] = p],
           p = pc[c] \/ (p \in {"closing", "done"} /\ pc[c] \in {"aborting", "closing"})
    PROVE  DrainInv'
<1>1. UNCHANGED <<state, generation, closed, hijacked, pending, drainers, served, term, owned,
                  failed, slots, failClosed, handlerDone, connectionDone, holds>>
  BY DEF termVars, holdVars, connVars
<1>2. HoldPart' /\ TermPart'
  BY QuietParts DEF Quiet
<1>3. pc'[c] = p /\ \A b \in Conns : b # c => pc'[b] = pc[b]
  BY DEF DrainInv, TypeOK
<1>4. TypeOK'
  BY <1>1, <1>2 DEF DrainInv, TypeOK, HoldPart
<1>5. \A b \in Conns : b # c => SameAt(b)
  BY <1>1, <1>3 DEF SameAt
<1>6. /\ HandlersReturn(c) /\ Outstanding(c) /\ LeftToOne(c) /\ DrainsAreStale(c)
      /\ QueuedIsTracked(c)
  BY DEF DrainInv, ConnInv
<1>7. HandlersReturn(c)' /\ Outstanding(c)' /\ LeftToOne(c)' /\ QueuedIsTracked(c)'
  BY <1>1, <1>3, <1>6
  DEF HandlersReturn, Outstanding, LeftToOne, QueuedIsTracked, Unanswered, Tracking, Current
<1>8. DrainsAreStale(c)'
  BY <1>1, <1>6 DEF DrainsAreStale, Tracking, DrainCurrent
<1> QED
  BY <1>2, <1>4, <1>5, <1>7, <1>8, StepOfOne

(* abortNowWithOutcome and drainConn.Close end so.                         *)
LEMMA Aborting ==
    ASSUME DrainInv, NEW c \in Conns, AbortNow(c), UNCHANGED <<served, guestDown>>,
           NEW p \in {"handling", "finishing", "closing"}, pc' = [pc EXCEPT ![c] = p],
           p = pc[c] \/ (p = "closing" /\ pc[c] = "aborting")
    PROVE  DrainInv'
<1>1. CASE closed[c]
  <2>1. UNCHANGED <<ctrlVars, connVars, termVars, queued, sock, holdVars>>
    BY <1>1 DEF AbortNow
  <2> QED
    BY <1>1, <2>1, MovesOn
<1>2. CASE ~closed[c]
  <2>1. /\ MarkClosed(c)
        /\ UNCHANGED <<state, generation, hijacked, drainers>>
    BY <1>2 DEF AbortNow
  <2>2. Resets(c) \/ Recovers(c)
    <3>1. CASE Gone(c) /\ Complete(c, {pending[c]}) /\ UNCHANGED termVars
      BY <3>1 DEF Resets
    <3>2. CASE pending[c] = 0 /\ Gone(c) /\ UNCHANGED <<ctrlVars, holdVars, termVars>>
      BY <3>2, NothingToComplete DEF Resets
    <3>3. CASE Recover(c, pending[c]) /\ UNCHANGED <<ctrlVars, holdVars, queued, sock, slots>>
      BY <3>3 DEF Recovers
    <3> QED
      BY <1>2, <3>1, <3>2, <3>3 DEF AbortNow
  <2>3. drainers' = [drainers EXCEPT ![c] = drainers[c]]
    BY <2>1 DEF DrainInv, TypeOK
  <2> QED
    BY <1>2, <2>1, <2>2, <2>3, Closing
<1> QED
  BY <1>1, <1>2

(* trackedConn.Close: the first close does that, a later one nothing.      *)
LEMMA ClosingConn ==
    ASSUME DrainInv, NEW c \in Conns, CloseConn(c), UNCHANGED <<served, guestDown>>,
           NEW p \in {"reading", "done"}, pc' = [pc EXCEPT ![c] = p],
           p = pc[c] \/ (p = "done" /\ pc[c] = "closing")
    PROVE  DrainInv'
<1>1. CASE closed[c]
  <2>1. UNCHANGED <<ctrlVars, connVars, termVars, queued, sock, holdVars>>
    BY <1>1 DEF CloseConn
  <2> QED
    BY <1>1, <2>1, MovesOn
<1>2. CASE ~closed[c]
  <2>1. /\ MarkClosed(c)
        /\ generation' = [generation EXCEPT ![c] = @ + 1]
        /\ UNCHANGED <<state, hijacked, drainers>>
    BY <1>2 DEF CloseConn
  <2>2. hijacked[c] => pending[c] = 0
    BY DEF DrainInv, ConnInv, Outstanding, Tracking
  <2>3. Resets(c) \/ Recovers(c) \/ Monitored(c)
    <3>1. CASE pending[c] = 0 /\ Gone(c) /\ UNCHANGED <<ctrlVars, holdVars, termVars>>
      BY <3>1, NothingToComplete DEF Resets
    <3>2. CASE Gone(c) /\ Complete(c, {pending[c]}) /\ UNCHANGED termVars
      BY <3>2 DEF Resets
    <3>3. CASE Recover(c, pending[c]) /\ UNCHANGED <<ctrlVars, holdVars, queued, sock, slots>>
      BY <3>3 DEF Recovers
    <3>4. CASE Monitored(c)
      BY <3>4
    <3> QED
      BY <1>2, <2>2, <3>1, <3>2, <3>3, <3>4 DEF CloseConn, Monitored
  <2>4. drainers' = [drainers EXCEPT ![c] = drainers[c]]
    BY <2>1 DEF DrainInv, TypeOK
  <2> QED
    BY <1>2, <2>1, <2>3, <2>4, Closing
<1> QED
  BY <1>1, <1>2

(* A drain ends: stale, or right, or the connection is left to recovery.   *)
LEMMA Drained ==
    ASSUME DrainInv, NEW c \in Conns, NEW d \in drainers[c], DrainEnds(c, d)
    PROVE  DrainInv'
<1>1. /\ d.saw # "polling" /\ drainers' = [drainers EXCEPT ![c] = drainers[c] \ {d}]
      /\ UNCHANGED <<pc, served, state, generation, hijacked, guestDown>>
  BY DEF DrainEnds
<1>2. drainers'[c] = drainers[c] \ {d} /\ \A b \in Conns : b # c => drainers'[b] = drainers[b]
  BY <1>1 DEF DrainInv, TypeOK
<1>3. /\ HandlersReturn(c) /\ Outstanding(c) /\ LeftToOne(c) /\ DrainsAreStale(c)
      /\ QueuedIsTracked(c) /\ served[c] \in Nat /\ pending[c] \in Nat /\ owned[c] \in Nat
  BY DEF DrainInv, ConnInv, TypeOK
<1>4. ASSUME UNCHANGED <<ctrlVars, closed, pending, termVars, queued, sock, holdVars>>
      PROVE  DrainInv'
  <2>1. UNCHANGED <<closed, pending, term, owned, failed, slots, failClosed, queued, sock,
                    handlerDone, connectionDone, holds>>
    BY <1>4 DEF termVars, holdVars
  <2>2. HoldPart' /\ TermPart'
    BY <1>1, <1>4, QuietParts DEF Quiet
  <2>3. TypeOK'
    BY <1>1, <2>1, <2>2 DEF DrainInv, TypeOK, HoldPart
  <2>4. \A b \in Conns : b # c => SameAt(b)
    BY <1>1, <1>2, <2>1 DEF SameAt
  <2>5. HandlersReturn(c)' /\ Outstanding(c)' /\ LeftToOne(c)' /\ QueuedIsTracked(c)'
    BY <1>1, <1>3, <2>1
    DEF HandlersReturn, Outstanding, LeftToOne, QueuedIsTracked, Unanswered, Tracking, Current
  <2>6. DrainsAreStale(c)'
    BY <1>1, <1>2, <1>3, <2>1 DEF DrainsAreStale, Tracking, DrainCurrent
  <2> QED
    BY <2>2, <2>3, <2>4, <2>5, <2>6, StepOfOne
<1>5. ASSUME DrainCurrent(c, d), d.saw = "drained",
             pending' = [pending EXCEPT ![c] = 0], Complete(c, {pending[c]}),
             UNCHANGED <<closed, termVars, queued, sock>>
      PROVE  DrainInv'
  <2>1. UNCHANGED <<closed, term, owned, failed, slots, failClosed, queued, sock>>
    BY <1>5 DEF termVars
  <2>2. pending'[c] = 0 /\ \A b \in Conns : b # c => pending'[b] = pending[b]
    BY <1>5 DEF DrainInv, TypeOK
  <2>3. /\ ~queued[c] /\ owned[c] = 0 /\ Tracking(c)
        /\ pc[c] \notin {"active", "held", "handling", "finishing"}
    BY <1>3, <1>5 DEF DrainsAreStale, DrainCurrent, LeftToOne, Tracking
  <2>4. /\ CtrlTypeOK' /\ CtrlInv' /\ HoldsCounted' /\ \A b \in Conns : HeldUntilBoth(b)'
        /\ handlerDone' = handlerDone /\ holds' \subseteq holds
        /\ connectionDone' = connectionDone \cup (IF pending[c] = 0 THEN {} ELSE {<<c, pending[c]>>})
    BY <1>1, <1>3, <1>5, CompleteOne DEF Outstanding
  <2>5. TermPart'
    BY <2>1, TermStays
  <2>6. TypeOK'
    <3>1. pending[c] # 0 => <<c, pending[c]>> \in Requests
      BY <1>3, DrainAssumption DEF Requests, DrainInv, TypeOK
    <3>2. connectionDone' \subseteq Requests /\ holds' \subseteq Requests
      BY <2>4, <3>1 DEF DrainInv, TypeOK
    <3>3. \A b \in Conns : {served[b], pending'[b], owned[b]} \subseteq 0..MaxRequests[b]
      BY <2>2, DrainAssumption DEF DrainInv, TypeOK
    <3> QED
      BY <1>1, <1>5, <2>1, <2>4, <3>2, <3>3 DEF DrainInv, TypeOK
  <2>7. \A b \in Conns : b # c => SameAt(b)
    BY <1>1, <1>2, <2>1, <2>2, <2>4 DEF SameAt
  <2>8. HandlersReturn(c)' /\ LeftToOne(c)' /\ QueuedIsTracked(c)'
    BY <1>1, <1>3, <2>1, <2>3, <2>4 DEF HandlersReturn, LeftToOne, QueuedIsTracked, Unanswered
  <2>9. Outstanding(c)'
    <3>1. \A k \in Nat : <<c, k>> \in connectionDone' => k <= served[c]
      BY <1>3, <2>4 DEF Outstanding
    <3> QED
      BY <1>1, <1>3, <2>1, <2>2, <2>3, <3>1 DEF Outstanding, Unanswered
  <2>10. DrainsAreStale(c)'
    BY <1>1, <2>1, <2>3 DEF DrainsAreStale, DrainCurrent
  <2> QED
    BY <2>4, <2>5, <2>6, <2>7, <2>8, <2>9, <2>10, StepOfOne DEF HoldPart
<1>6. ASSUME DrainCurrent(c, d), MarkClosed(c), Recover(c, pending[c]),
             UNCHANGED <<ctrlVars, queued, sock, holdVars, slots>>
      PROVE  DrainInv'
  <2>1. ~closed[c] /\ Recovers(c)
    BY <1>6 DEF DrainCurrent, Recovers
  <2>2. pc' = [pc EXCEPT ![c] = pc[c]]
    BY <1>1 DEF DrainInv, TypeOK
  <2> QED
    BY <1>1, <1>6, <2>1, <2>2, Closing
<1> QED
  BY <1>4, <1>5, <1>6 DEF DrainEnds

-----------------------------------------------------------------------------
(* Recovery and monitors: the drain they own is completed when nothing is  *)
(* left in the queue.                                                      *)
LEMMA TermEnds ==
    ASSUME DrainInv, NEW c \in Conns, EndTerm(c),
           UNCHANGED <<pc, served, connVars, guestDown>>,
           sock' = [sock EXCEPT ![c] = "gone"], queued' = [queued EXCEPT ![c] = FALSE],
           slots' = slots - (IF c \in Monitors THEN 1 ELSE 0)
    PROVE  DrainInv'
<1>1. UNCHANGED <<pc, served, state, generation, closed, hijacked, pending, drainers>>
  BY DEF connVars
<1>2. /\ HandlersReturn(c) /\ Outstanding(c) /\ LeftToOne(c) /\ DrainsAreStale(c)
      /\ served[c] \in Nat /\ owned[c] \in Nat /\ slots \in 0..MonitorLimit /\ MonitorLimit \in Nat
  BY DrainAssumption DEF DrainInv, ConnInv, TypeOK
<1>3. /\ term' = [term EXCEPT ![c] = "none"] /\ owned' = [owned EXCEPT ![c] = 0]
      /\ failed' = [failed EXCEPT ![c] = FALSE]
      /\ failClosed' = IF failed[c] THEN failClosed - 1 ELSE failClosed
      /\ Complete(c, {owned[c]})
  BY DEF EndTerm
<1>4. /\ term'[c] = "none" /\ owned'[c] = 0 /\ ~failed'[c] /\ ~queued'[c]
      /\ \A b \in Conns : b # c => /\ term'[b] = term[b] /\ owned'[b] = owned[b]
                                   /\ failed'[b] = failed[b] /\ queued'[b] = queued[b]
  BY <1>3 DEF DrainInv, TypeOK
<1>5. /\ CtrlTypeOK' /\ CtrlInv' /\ HoldsCounted' /\ \A b \in Conns : HeldUntilBoth(b)'
      /\ handlerDone' = handlerDone /\ holds' \subseteq holds
      /\ connectionDone' = connectionDone \cup (IF owned[c] = 0 THEN {} ELSE {<<c, owned[c]>>})
  BY <1>1, <1>2, <1>3, CompleteOne DEF Outstanding
<1>6. MonitorsCounted' /\ slots' \in 0..MonitorLimit
  <2>1. slots' = slots + 0 - (IF c \in Monitors THEN 1 ELSE 0)
    BY <1>2
  <2>2. MonitorsCounted' /\ (c \in Monitors => slots > 0)
    BY <1>3, <2>1, MonitorMoves
  <2> QED
    BY <1>2, <2>2
<1>7. FailuresCounted' /\ failClosed' \in Nat
  <2>1. failClosed' = failClosed + 0 - (IF failed[c] THEN 1 ELSE 0)
    BY <1>3 DEF DrainInv, TypeOK
  <2> QED
    BY <1>3, <2>1, FailureMoves
<1>8. TypeOK'
  <2>1. owned[c] # 0 => <<c, owned[c]>> \in Requests
    BY <1>2, DrainAssumption DEF Requests, DrainInv, TypeOK
  <2>2. connectionDone' \subseteq Requests /\ holds' \subseteq Requests
    BY <1>5, <2>1 DEF DrainInv, TypeOK
  <2>3. \A b \in Conns : {served[b], pending[b], owned'[b]} \subseteq 0..MaxRequests[b]
    <3>1. \A b \in Conns : {served[b], pending[b], owned[b]} \subseteq 0..MaxRequests[b]
      BY DEF DrainInv, TypeOK
    <3>2. \A b \in Conns : 0 \in 0..MaxRequests[b]
      BY DrainAssumption
    <3> QED
      BY <1>4, <3>1, <3>2
  <2> QED
    BY <1>1, <1>3, <1>5, <1>6, <1>7, <2>2, <2>3 DEF DrainInv, TypeOK
<1>9. \A b \in Conns : b # c => SameAt(b)
  BY <1>1, <1>4, <1>5 DEF SameAt
<1>10. HandlersReturn(c)' /\ LeftToOne(c)' /\ QueuedIsTracked(c)' /\ DrainsAreStale(c)'
  BY <1>1, <1>2, <1>4, <1>5
  DEF HandlersReturn, LeftToOne, QueuedIsTracked, DrainsAreStale, Unanswered, Tracking, DrainCurrent
<1>11. Outstanding(c)'
  <2>1. owned[c] # 0 => pending[c] = 0 /\ ~(pc[c] = "held" /\ served[c] = owned[c])
    BY <1>2 DEF Outstanding, LeftToOne, Tracking
  <2>2. \A k \in Nat : <<c, k>> \in connectionDone' => k <= served[c]
    BY <1>2, <1>5 DEF Outstanding
  <2>3. \A k : <<c, k>> \in connectionDone' => <<c, k>> \in connectionDone \/ (k = owned[c] /\ k # 0)
    BY <1>5
  <2> QED
    BY <1>1, <1>2, <1>4, <2>1, <2>2, <2>3 DEF Outstanding, Unanswered, Tracking, Current
<1> QED
  BY <1>5, <1>6, <1>7, <1>8, <1>9, <1>10, <1>11, StepOfOne DEF HoldPart, TermPart

(* Recovery hands a connection on to a monitor, a monitor begins to abort. *)
LEMMA TermMoves ==
    ASSUME DrainInv, NEW c \in Conns,
           UNCHANGED <<ctrlVars, holdVars, pc, served, connVars, guestDown, queued, owned>>,
           NEW next \in {"monitoring", "aborting"}, term' = [term EXCEPT ![c] = next],
           term[c] = "recovering" \/ term[c] = "monitoring",
           NEW f \in BOOLEAN, failed' = [failed EXCEPT ![c] = f],
           failed[c] => f, next = "aborting" => f,
           failClosed' = failClosed + (IF f THEN 1 ELSE 0) - (IF failed[c] THEN 1 ELSE 0),
           slots' = slots + 1 - (IF c \in Monitors THEN 1 ELSE 0), slots' <= MonitorLimit,
           sock' \in [Conns -> {"open", "half", "gone"}]
    PROVE  DrainInv'
<1>1. UNCHANGED <<state, generation, closed, hijacked, pending, drainers, handlerDone, connectionDone,
                  holds>>
  BY DEF connVars, holdVars
<1>2. HoldPart'
  BY HoldsStay
<1>3. MonitorsCounted' /\ slots' \in 0..MonitorLimit
  <2>1. slots \in 0..MonitorLimit /\ MonitorLimit \in Nat
    BY DrainAssumption DEF DrainInv, TypeOK
  <2>2. slots' = slots + (IF next \in {"monitoring", "aborting"} THEN 1 ELSE 0)
                       - (IF c \in Monitors THEN 1 ELSE 0)
    OBVIOUS
  <2>3. MonitorsCounted'
    BY <2>2, MonitorMoves
  <2>4. slots' \in Nat
    BY <2>3, FS_CardinalityType DEF MonitorsCounted
  <2> QED
    BY <2>1, <2>3, <2>4
<1>4. FailuresCounted' /\ failClosed' \in Nat
  BY FailureMoves
<1>5. /\ term'[c] = next /\ failed'[c] = f
      /\ \A b \in Conns : b # c => term'[b] = term[b] /\ failed'[b] = failed[b]
  BY DEF DrainInv, TypeOK
<1>6. TypeOK'
  BY <1>1, <1>2, <1>3, <1>4 DEF DrainInv, TypeOK, HoldPart
<1>7. \A b \in Conns : b # c => SameAt(b)
  BY <1>1, <1>5 DEF SameAt
<1>8. HandlersReturn(c)' /\ Outstanding(c)' /\ QueuedIsTracked(c)' /\ DrainsAreStale(c)'
  BY <1>1
  DEF DrainInv, ConnInv, HandlersReturn, Outstanding, QueuedIsTracked, DrainsAreStale, Unanswered,
      Tracking, Current, DrainCurrent
<1>9. LeftToOne(c)'
  BY <1>1, <1>5 DEF DrainInv, ConnInv, LeftToOne
<1> QED
  BY <1>2, <1>3, <1>4, <1>6, <1>7, <1>8, <1>9, StepOfOne DEF TermPart

(* A round of recovery or of a monitor, and their aborts and restarts.     *)
LEMMA TermSteps ==
    ASSUME DrainInv, NEW c \in Conns, TermStep(c)
    PROVE  DrainInv'
<1>1. /\ LeftToOne(c) /\ failed[c] \in BOOLEAN /\ slots \in 0..MonitorLimit /\ MonitorLimit \in Nat
      /\ failClosed \in Nat /\ sock \in [Conns -> {"open", "half", "gone"}]
      /\ c \in Monitors <=> term[c] \in {"monitoring", "aborting"}
  BY DrainAssumption DEF DrainInv, ConnInv, TypeOK, Monitors
<1>2. CASE RecoverRound(c)
  <2>1. term[c] = "recovering" /\ UNCHANGED <<pc, served, connVars, guestDown>>
    BY <1>2 DEF RecoverRound
  <2>2. CASE Gone(c) /\ EndTerm(c) /\ UNCHANGED slots
    <3>1. slots' = slots - (IF c \in Monitors THEN 1 ELSE 0)
      BY <1>1, <2>1, <2>2
    <3> QED
      BY <2>1, <2>2, <3>1, TermEnds DEF Gone
  <2>3. CASE /\ slots < MonitorLimit
             /\ slots' = slots + 1
             /\ term' = [term EXCEPT ![c] = "monitoring"]
             /\ sock' = [sock EXCEPT ![c] = "half"]
             /\ UNCHANGED <<ctrlVars, holdVars, owned, failed, failClosed, queued>>
    <3>1. /\ failed' = [failed EXCEPT ![c] = failed[c]]
          /\ failClosed' = failClosed + (IF failed[c] THEN 1 ELSE 0) - (IF failed[c] THEN 1 ELSE 0)
      BY <1>1, <2>3 DEF DrainInv, TypeOK
    <3>2. /\ slots' = slots + 1 - (IF c \in Monitors THEN 1 ELSE 0) /\ slots' <= MonitorLimit
          /\ sock' \in [Conns -> {"open", "half", "gone"}]
      BY <1>1, <2>1, <2>3
    <3> QED
      BY <1>1, <2>1, <2>3, <3>1, <3>2, TermMoves
  <2> QED
    BY <1>2, <2>2, <2>3 DEF RecoverRound
<1>3. CASE MonitorSafe(c) \/ MonitorAbort(c)
  <2>1. /\ c \in Monitors /\ UNCHANGED <<pc, served, connVars, guestDown>>
        /\ Gone(c) /\ EndTerm(c) /\ slots' = slots - 1
    BY <1>1, <1>3 DEF MonitorSafe, MonitorAbort
  <2> QED
    BY <2>1, TermEnds DEF Gone
<1>4. CASE MonitorUnsafe(c)
  <2>1. /\ term[c] = "monitoring" /\ term' = [term EXCEPT ![c] = "aborting"]
        /\ failed' = [failed EXCEPT ![c] = TRUE]
        /\ UNCHANGED <<ctrlVars, holdVars, pc, served, connVars, guestDown, queued, owned, slots, sock>>
        /\ failClosed' = failClosed + 1 - (IF failed[c] THEN 1 ELSE 0)
    BY <1>1, <1>4 DEF MonitorUnsafe
  <2>2. /\ slots' = slots + 1 - (IF c \in Monitors THEN 1 ELSE 0) /\ slots' <= MonitorLimit
        /\ sock' \in [Conns -> {"open", "half", "gone"}]
    BY <1>1, <2>1
  <2> QED
    BY <2>1, <2>2, TermMoves
<1>5. CASE TerminateGuest(c)
  <2>1. /\ Quiet /\ guestDown' \in BOOLEAN
        /\ UNCHANGED <<ctrlVars, pc, served, connVars, termVars, queued, sock, holdVars>>
    BY <1>5 DEF TerminateGuest, Quiet
  <2>2. HoldPart' /\ TermPart'
    BY <2>1, QuietParts
  <2>3. UNCHANGED <<state, generation, closed, hijacked, pending, drainers, term, owned, failed,
                    slots, failClosed, handlerDone, connectionDone, holds>>
    BY <2>1 DEF connVars, termVars, holdVars
  <2>4. TypeOK'
    BY <2>1, <2>2, <2>3 DEF DrainInv, TypeOK, HoldPart
  <2>5. \A b \in Conns : SameAt(b)
    BY <2>1, <2>3 DEF SameAt
  <2>6. \A b \in Conns : ConnInv(b)'
    BY <2>2, <2>5, OthersStay DEF HoldPart
  <2> QED
    BY <2>2, <2>4, <2>6 DEF DrainInv, Counted, HoldPart, TermPart
<1> QED
  BY <1>2, <1>3, <1>4, <1>5 DEF TermStep

-----------------------------------------------------------------------------
(* The server, the handlers and the drains.                                *)
LEMMA ServerAndHandlers ==
    ASSUME DrainInv, NEW c \in Conns, ServerStep(c) \/ HandlerStep(c) \/ ShutdownCloses(c)
    PROVE  DrainInv'
<1>1. CASE TakeHold(c)
  BY <1>1, Taking
<1>2. CASE AbortRequest(c)
  BY <1>2, Aborting DEF AbortRequest, Goto
<1>3. CASE AddDrain(c)
  BY <1>3, Tracked, Refused
<1>4. CASE KeepAlive(c) \/ FinishAndClose(c)
  BY <1>4, Finishing
<1>5. CASE ServerCloses(c)
  BY <1>5, ClosingConn DEF ServerCloses, Goto
<1>6. CASE WriteResponse(c)
  <2>1. /\ pc[c] \in {"handling", "finishing"} /\ ~closed[c]
        /\ UNCHANGED <<pc, served, guestDown>>
    BY <1>6 DEF WriteResponse
  <2>2. pc' = [pc EXCEPT ![c] = pc[c]]
    BY <2>1 DEF DrainInv, TypeOK
  <2>3. CASE AbortNow(c)
    BY <2>1, <2>2, <2>3, Aborting
  <2>4. CASE ~AbortNow(c)
    BY <1>6, <2>1, <2>4, Writing DEF WriteResponse
  <2> QED
    BY <2>3, <2>4
<1>7. CASE HandlerReturns(c) \/ HijackedHandlerReturns(c)
  BY <1>7, Returning
<1>8. CASE Hijack(c)
  BY <1>8, Hijacking
<1>9. CASE ShutdownCloses(c)
  <2>1. pc[c] = "reading" /\ CloseConn(c) /\ UNCHANGED <<pc, served, guestDown>>
    BY <1>9 DEF ShutdownCloses
  <2>2. pc' = [pc EXCEPT ![c] = pc[c]]
    BY <2>1 DEF DrainInv, TypeOK
  <2> QED
    BY <2>1, <2>2, ClosingConn
<1> QED
  BY <1>1, <1>2, <1>3, <1>4, <1>5, <1>6, <1>7, <1>8, <1>9 DEF ServerStep, HandlerStep

(* A server with fresh connections holds nothing.                          *)
LEMMA InitHolds == Init => DrainInv
<1> SUFFICES ASSUME Init PROVE DrainInv
  OBVIOUS
<1>1. Monitors = {} /\ Failures = {}
  BY DEF Init, Monitors, Failures
<1>2. Counted
  BY <1>1, FS_EmptySet
  DEF Init, CtrlInit, Counted, CtrlInv, HoldsCounted, MonitorsCounted, FailuresCounted
<1>3. cooldown \in BOOLEAN
  BY CooldownsAssumption DEF Init, CtrlInit
<1>4. TypeOK
  <2>1. CtrlTypeOK
    BY <1>3 DEF Init, CtrlInit, CtrlTypeOK, TimerStates
  <2>2. \A c \in Conns : 0 \in 0..MaxRequests[c]
    BY DrainAssumption
  <2>3. \A c \in Conns : {served[c], pending[c], owned[c]} \subseteq 0..MaxRequests[c]
    BY <2>2 DEF Init
  <2>4. /\ drainers \in [Conns -> SUBSET [gen : Nat, saw : {"polling", "drained", "failed"}]]
        /\ \A c \in Conns : \A d \in drainers[c] : d.gen \in 1..generation[c]
    BY DEF Init
  <2>5. slots \in 0..MonitorLimit
    BY DrainAssumption DEF Init
  <2> QED
    BY <2>1, <2>3, <2>4, <2>5 DEF Init, TypeOK
<1>5. ASSUME NEW c \in Conns
      PROVE  ConnInv(c)
  BY DEF Init, ConnInv, HeldUntilBoth, HandlersReturn, Outstanding, LeftToOne, DrainsAreStale,
         QueuedIsTracked, Unanswered, Tracking
<1> QED
  BY <1>2, <1>4, <1>5 DEF DrainInv

(* Every step keeps the invariant.                                         *)
LEMMA NextHolds == DrainInv /\ [Next]_vars => DrainInv'
<1> SUFFICES ASSUME DrainInv, [Next]_vars PROVE DrainInv'
  OBVIOUS
<1>1. CASE Next
  <2>1. PICK c \in Conns :
          \/ ReadRequest(c) \/ StopReading(c) \/ ShutdownCloses(c)
          \/ ServerStep(c) \/ HandlerStep(c) \/ DrainStep(c) \/ TermStep(c)
          \/ Deliver(c) \/ PeerResets(c)
    BY <1>1 DEF Next
  <2>2. CASE DrainStep(c)
    BY <2>2, Polling, Drained DEF DrainStep
  <2> QED
    BY <2>1, <2>2, Reading, ServerAndHandlers, TermSteps, QueueEmpties
<1>2. CASE UNCHANGED vars
  <2>1. UNCHANGED <<ctrlVars, pc, served, connVars, termVars, queued, sock, holdVars, guestDown>>
    BY <1>2 DEF vars
  <2>2. /\ UNCHANGED <<state, generation, closed, hijacked, pending, drainers, term, owned, failed,
                       slots, failClosed, handlerDone, connectionDone, holds>>
    BY <2>1 DEF connVars, termVars, holdVars
  <2>3. HoldPart' /\ TermPart'
    BY <2>1, QuietParts DEF Quiet
  <2>4. TypeOK'
    BY <2>1, <2>2, <2>3 DEF DrainInv, TypeOK, HoldPart
  <2>5. \A b \in Conns : SameAt(b)
    BY <2>1, <2>2 DEF SameAt
  <2>6. \A b \in Conns : ConnInv(b)'
    BY <2>3, <2>5, OthersStay DEF HoldPart
  <2> QED
    BY <2>3, <2>4, <2>6 DEF DrainInv, Counted, HoldPart, TermPart
<1> QED
  BY <1>1, <1>2

(* Hence the counters, holds and drains agree after every step.            *)
LEMMA Invariance == Spec => []DrainInv
  BY InitHolds, NextHolds, PTL DEF Spec

(* The middleware's state has its types: maxResponseCloseMonitors is never *)
(* exceeded, its semaphore never released too often, and the count of      *)
(* failed drains never below zero.                                         *)
THEOREM TypeCorrect == Spec => []TypeOK
<1>1. DrainInv => TypeOK
  BY DEF DrainInv
<1> QED
  BY <1>1, Invariance, PTL

(* As long as bytes of a response are queued on a connection that the      *)
(* middleware tracks, its request, or who has taken its drain over, holds  *)
(* scale-to-zero off.                                                      *)
THEOREM UndeliveredKeepsAwake == Spec => []UndeliveredMeansAwake
<1>1. ASSUME DrainInv, NEW c \in Conns, queued[c], ~hijacked[c]
      PROVE  control = "+"
  <2>1. /\ HeldUntilBoth(c) /\ Outstanding(c) /\ QueuedIsTracked(c)
        /\ served[c] \in Nat /\ pending[c] \in Nat /\ owned[c] \in Nat
    BY <1>1 DEF DrainInv, ConnInv, TypeOK
  <2>2. PICK k \in {pending[c], owned[c]} : k \in 1..served[c] /\ <<c, k>> \notin connectionDone
    BY <1>1, <2>1 DEF QueuedIsTracked, Outstanding
  <2>3. <<c, k>> \in holds
    BY <2>1, <2>2 DEF HeldUntilBoth
  <2>4. activeCount > 0
    BY <1>1, <2>3, CountMoves DEF DrainInv, Counted, HoldsCounted
  <2> QED
    BY <1>1, <2>4 DEF DrainInv, Counted, CtrlInv
<1>2. DrainInv => UndeliveredMeansAwake
  BY <1>1 DEF UndeliveredMeansAwake
<1> QED
  BY <1>2, Invariance, PTL
==============================================================================

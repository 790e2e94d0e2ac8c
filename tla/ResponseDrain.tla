---------------------------- MODULE ResponseDrain ----------------------------
(***************************************************************************)
(* The HTTP middleware of lib/scaletozero and its tracked connections: the *)
(* hold of a request is given back only when its handler has returned AND  *)
(* its response has left the machine, or the connection is known to be     *)
(* terminated.  Composed with DebouncedController, which the holds drive.  *)
(*                                                                         *)
(* Per connection there is the server's goroutine (pc), the goroutines     *)
(* that poll the send queue of an idle connection (drainers), and at most  *)
(* one goroutine that recovers or monitors a connection that is closed     *)
(* (term).  Server.Shutdown closes idle connections from outside.          *)
(*                                                                         *)
(* c.closing is not modelled: it is only set together with c.closed.       *)
(* Outcomes (counters, logs) are left out; completing the drains a step    *)
(* has taken under c.mu is part of that step.                              *)
(***************************************************************************)
EXTENDS DebouncedController, FiniteSets

CONSTANTS
    Conns,          \* connections
    MaxRequests,    \* bound: requests served on each connection
    MonitorLimit    \* maxResponseCloseMonitors

ASSUME DrainAssumption ==
    MaxRequests \in [Conns -> Nat \ {0}] /\ MonitorLimit \in Nat

VARIABLES
    pc,             \* the server goroutine of each connection
    served,         \* how many requests of each reached the middleware
    state,          \* drainConn.state
    generation,     \* drainConn.generation
    closed,         \* drainConn.closed
    hijacked,       \* drainConn.hijackedConn
    pending,        \* drainConn.pending: the request it tracks, or 0
    drainers,       \* the runIdleDrain goroutines
    term,           \* what the goroutine of a closed connection is doing
    owned,          \* the request whose drain it must complete, or 0
    failed,         \* that drain is counted in failClosedResponseHolds
    queued,         \* bytes of a response are in the send queue
    sock,           \* the socket: open, half (write side shut) or gone
    handlerDone,    \* responseHold.handlerDone
    connectionDone, \* responseHold.connectionDone
    holds,          \* the requests whose hold is not released
    slots,          \* responseCloseMonitorSlots in use
    failClosed,     \* failClosedResponseHolds
    guestDown       \* terminateGuest was called

connVars == <<state, generation, closed, hijacked, pending, drainers>>
termVars == <<term, owned, failed, slots, failClosed>>
holdVars == <<handlerDone, connectionDone, holds>>
vars == <<ctrlVars, pc, served, connVars, termVars, queued, sock, holdVars,
          guestDown>>

Requests == UNION {{c} \X (1..MaxRequests[c]) : c \in Conns}

TypeOK ==
    /\ CtrlTypeOK
    /\ pc \in [Conns -> {"reading", "active", "held", "handling", "hijacked",
                         "finishing", "aborting", "closing", "done"}]
    /\ served \in [Conns -> Nat]
    /\ state \in [Conns -> {"New", "Active", "Idle", "Hijacked"}]
    /\ generation \in [Conns -> Nat]
    /\ closed \in [Conns -> BOOLEAN]
    /\ hijacked \in [Conns -> BOOLEAN]
    /\ pending \in [Conns -> Nat]
    /\ drainers \in [Conns -> SUBSET [gen : Nat, saw : {"polling", "drained", "failed"}]]
    /\ \A c \in Conns : \A d \in drainers[c] : d.gen \in 1..generation[c]
    /\ term \in [Conns -> {"none", "recovering", "monitoring", "aborting"}]
    /\ owned \in [Conns -> Nat]
    /\ \A c \in Conns : {served[c], pending[c], owned[c]} \subseteq 0..MaxRequests[c]
    /\ failed \in [Conns -> BOOLEAN]
    /\ queued \in [Conns -> BOOLEAN]
    /\ sock \in [Conns -> {"open", "half", "gone"}]
    /\ handlerDone \subseteq Requests
    /\ connectionDone \subseteq Requests
    /\ holds \subseteq Requests
    /\ slots \in 0..MonitorLimit
    /\ failClosed \in Nat
    /\ guestDown \in BOOLEAN

Init ==
    /\ CtrlInit
    /\ pc = [c \in Conns |-> "reading"]
    /\ served = [c \in Conns |-> 0]
    /\ state = [c \in Conns |-> "New"]
    /\ generation = [c \in Conns |-> 0]
    /\ closed = [c \in Conns |-> FALSE]
    /\ hijacked = [c \in Conns |-> FALSE]
    /\ pending = [c \in Conns |-> 0]
    /\ drainers = [c \in Conns |-> {}]
    /\ term = [c \in Conns |-> "none"]
    /\ owned = [c \in Conns |-> 0]
    /\ failed = [c \in Conns |-> FALSE]
    /\ queued = [c \in Conns |-> FALSE]
    /\ sock = [c \in Conns |-> "open"]
    /\ handlerDone = {} /\ connectionDone = {} /\ holds = {}
    /\ slots = 0
    /\ failClosed = 0
    /\ guestDown = FALSE

-----------------------------------------------------------------------------
Current(c) == <<c, served[c]>>

Goto(c, next) == pc' = [pc EXCEPT ![c] = next]

(* responseHold.finish: the second of the two events releases the hold.    *)
Release(rs) ==
    /\ holds' = holds \ rs
    /\ IF rs = {} THEN UNCHANGED ctrlVars ELSE \E ok \in BOOLEAN : Enable(ok)

FinishHandler(r) ==
    /\ handlerDone' = handlerDone \cup {r}
    /\ Release({r} \cap connectionDone)
    /\ UNCHANGED connectionDone

(* requestDrain.complete for the drains of the requests ks of c.           *)
Complete(c, ks) ==
    LET rs == {<<c, k>> : k \in ks \ {0}}
    IN  /\ connectionDone' = connectionDone \cup rs
        /\ Release(rs \cap handlerDone)
        /\ UNCHANGED handlerDone

(* The socket is torn down: what was queued will not be sent.              *)
Gone(c) ==
    /\ sock' = [sock EXCEPT ![c] = "gone"]
    /\ queued' = [queued EXCEPT ![c] = FALSE]

(* Start recoverResponseConnection for request k of c.                     *)
Recover(c, k) ==
    /\ term' = [term EXCEPT ![c] = "recovering"]
    /\ owned' = [owned EXCEPT ![c] = k]
    /\ failed' = [failed EXCEPT ![c] = TRUE]
    /\ failClosed' = failClosed + 1

(* takePendingLocked of a connection that is now closed.                   *)
MarkClosed(c) ==
    /\ closed' = [closed EXCEPT ![c] = TRUE]
    /\ pending' = [pending EXCEPT ![c] = 0]

-----------------------------------------------------------------------------
(* abortNowWithOutcome: reset the connection, or leave it to recovery.     *)
AbortNow(c) ==
    IF closed[c]
      THEN UNCHANGED <<ctrlVars, connVars, termVars, queued, sock, holdVars>>
      ELSE /\ MarkClosed(c)
           /\ \/ /\ Gone(c)
                 /\ Complete(c, {pending[c]})
                 /\ UNCHANGED termVars
              \/ /\ pending[c] = 0      \* best effort: TCPConn.Close
                 /\ Gone(c)
                 /\ UNCHANGED <<ctrlVars, holdVars, termVars>>
              \/ /\ pending[c] # 0
                 /\ Recover(c, pending[c])
                 /\ UNCHANGED <<ctrlVars, holdVars, queued, sock, slots>>
           /\ UNCHANGED <<state, generation, hijacked, drainers>>

(* drainConn.Close: an open response is handed to a monitor; without a     *)
(* free slot, or when the descriptor cannot be duplicated, it is aborted.  *)
CloseConn(c) ==
    LET k == pending[c]
    IN  IF closed[c]
          THEN UNCHANGED <<ctrlVars, connVars, termVars, queued, sock, holdVars>>
          ELSE /\ MarkClosed(c)
               /\ generation' = [generation EXCEPT ![c] = @ + 1]
               /\ UNCHANGED <<state, hijacked, drainers>>
               /\ \/ /\ hijacked[c] \/ k = 0
                     /\ Gone(c)
                     /\ UNCHANGED <<ctrlVars, holdVars, termVars>>
                  \/ /\ ~hijacked[c] /\ k # 0       \* aborted
                     /\ Gone(c)
                     /\ Complete(c, {k})
                     /\ UNCHANGED termVars
                  \/ /\ ~hijacked[c] /\ k # 0       \* nothing worked
                     /\ Recover(c, k)
                     /\ UNCHANGED <<ctrlVars, holdVars, queued, sock, slots>>
                  \/ /\ ~hijacked[c] /\ k # 0       \* duplicated, monitored
                     /\ slots < MonitorLimit
                     /\ sock[c] # "gone"
                     /\ slots' = slots + 1
                     /\ term' = [term EXCEPT ![c] = "monitoring"]
                     /\ owned' = [owned EXCEPT ![c] = k]
                     /\ sock' = [sock EXCEPT ![c] = "half"]
                     /\ UNCHANGED <<ctrlVars, holdVars, queued, failed,
                                    failClosed>>

-----------------------------------------------------------------------------
(* The server reads a request and announces StateActive (activate), which  *)
(* makes every running idle drain stale.                                   *)
Activate(c) ==
    IF closed[c] \/ hijacked[c]
      THEN UNCHANGED connVars
      ELSE /\ state' = [state EXCEPT ![c] = "Active"]
           /\ generation' = [generation EXCEPT ![c] = @ + 1]
           /\ UNCHANGED <<closed, hijacked, pending, drainers>>

ReadRequest(c) ==
    /\ pc[c] = "reading"
    /\ served[c] < MaxRequests[c]
    /\ Activate(c)
    /\ pc' \in {[pc EXCEPT ![c] = "active"],    \* a request for the router
                [pc EXCEPT ![c] = "closing"]}   \* malformed: 400, then close
    /\ UNCHANGED <<ctrlVars, served, termVars, queued, sock, holdVars, guestDown>>

(* End of file, a read error or the idle timeout.                          *)
StopReading(c) ==
    /\ pc[c] = "reading"
    /\ Goto(c, "closing")
    /\ UNCHANGED <<ctrlVars, served, connVars, termVars, queued, sock, holdVars,
                   guestDown>>

(* The middleware takes the hold; when it cannot, it aborts.               *)
TakeHold(c) ==
    /\ pc[c] = "active"
    /\ \E ok \in BOOLEAN :
        /\ Disable(ok)
        /\ IF ok
             THEN /\ served' = [served EXCEPT ![c] = @ + 1]
                  /\ holds' = holds \cup {<<c, served[c] + 1>>}
                  /\ Goto(c, "held")
             ELSE /\ Goto(c, "aborting")
                  /\ UNCHANGED <<served, holds>>
    /\ UNCHANGED <<connVars, termVars, queued, sock, handlerDone,
                   connectionDone, guestDown>>

AbortRequest(c) ==
    /\ pc[c] = "aborting"
    /\ AbortNow(c)
    /\ Goto(c, "closing")
    /\ UNCHANGED <<served, guestDown>>

(* Mutant of AddDrain: the drain that the new one replaces is forgotten.   *)
AddDrainForgets(c) ==
    /\ pc[c] = "held"
    /\ \/ /\ closed[c] \/ hijacked[c]
          /\ connectionDone' = connectionDone \cup {Current(c)}
          /\ handlerDone' = handlerDone \cup {Current(c)}
          /\ Release({Current(c)})
          /\ Goto(c, "finishing")
          /\ UNCHANGED pending
       \/ /\ ~closed[c] /\ ~hijacked[c]
          /\ pending' = [pending EXCEPT ![c] = served[c]]
          /\ Goto(c, "handling")
          /\ UNCHANGED <<ctrlVars, holdVars>>
    /\ UNCHANGED <<served, state, generation, closed, hijacked, drainers,
                   termVars, queued, sock, guestDown>>

(* addDrain: track this response, completing the previous one as reused;   *)
(* on a closed connection the handler does not run.                        *)
AddDrain(c) ==
    /\ pc[c] = "held"
    /\ \/ /\ closed[c] \/ hijacked[c]
          /\ connectionDone' = connectionDone \cup {Current(c)}
          /\ handlerDone' = handlerDone \cup {Current(c)}
          /\ Release({Current(c)})
          /\ Goto(c, "finishing")
          /\ UNCHANGED pending
       \/ /\ ~closed[c] /\ ~hijacked[c]
          /\ pending' = [pending EXCEPT ![c] = served[c]]
          /\ Complete(c, {pending[c]})
          /\ Goto(c, "handling")
    /\ UNCHANGED <<served, state, generation, closed, hijacked, drainers,
                   termVars, queued, sock, guestDown>>

(* drainConn.Write: bytes are queued, or the write fails and aborts.       *)
WriteResponse(c) ==
    /\ pc[c] \in {"handling", "finishing"}
    /\ ~closed[c]
    /\ \/ /\ sock[c] = "open"
          /\ queued' = [queued EXCEPT ![c] = TRUE]
          /\ UNCHANGED <<ctrlVars, connVars, termVars, sock, holdVars>>
       \/ AbortNow(c)
    /\ UNCHANGED <<pc, served, guestDown>>

(* The deferred finishHandler, after a return or a panic.                  *)
HandlerReturns(c) ==
    /\ pc[c] = "handling"
    /\ FinishHandler(Current(c))
    /\ pc' \in {[pc EXCEPT ![c] = "finishing"], [pc EXCEPT ![c] = "closing"]}
    /\ UNCHANGED <<served, connVars, termVars, queued, sock, guestDown>>

(* The handler takes the connection over (a WebSocket).                    *)
Hijack(c) ==
    /\ pc[c] = "handling"
    /\ Goto(c, "hijacked")
    /\ IF closed[c]
         THEN UNCHANGED <<ctrlVars, connVars, holdVars>>
         ELSE /\ hijacked' = [hijacked EXCEPT ![c] = TRUE]
              /\ state' = [state EXCEPT ![c] = "Hijacked"]
              /\ generation' = [generation EXCEPT ![c] = @ + 1]
              /\ pending' = [pending EXCEPT ![c] = 0]
              /\ Complete(c, {pending[c]})
              /\ UNCHANGED <<closed, drainers>>
    /\ UNCHANGED <<served, termVars, queued, sock, guestDown>>

HijackedHandlerReturns(c) ==
    /\ pc[c] = "hijacked"
    /\ FinishHandler(Current(c))
    /\ Goto(c, "closing")
    /\ UNCHANGED <<served, connVars, termVars, queued, sock, guestDown>>

(* The response is finalized and the connection kept: StateIdle starts a   *)
(* goroutine that waits for the queue to drain.                            *)
KeepAlive(c) ==
    /\ pc[c] = "finishing"
    /\ Goto(c, "reading")
    /\ IF closed[c] \/ hijacked[c] \/ pending[c] = 0
         THEN UNCHANGED connVars
         ELSE /\ state' = [state EXCEPT ![c] = "Idle"]
              /\ generation' = [generation EXCEPT ![c] = @ + 1]
              /\ drainers' = [drainers EXCEPT ![c] =
                    @ \cup {[gen |-> generation[c] + 1, saw |-> "polling"]}]
              /\ UNCHANGED <<closed, hijacked, pending>>
    /\ UNCHANGED <<ctrlVars, served, termVars, queued, sock, holdVars, guestDown>>

(* ... or not kept.                                                        *)
FinishAndClose(c) ==
    /\ pc[c] = "finishing"
    /\ Goto(c, "closing")
    /\ UNCHANGED <<ctrlVars, served, connVars, termVars, queued, sock, holdVars,
                   guestDown>>

ServerCloses(c) ==
    /\ pc[c] = "closing"
    /\ CloseConn(c)
    /\ Goto(c, "done")
    /\ UNCHANGED <<served, guestDown>>

(* Server.Shutdown closes a connection it sees idle, while the connection's*)
(* goroutine may be about to read a request from its buffer.               *)
ShutdownCloses(c) ==
    /\ pc[c] = "reading"
    /\ CloseConn(c)
    /\ UNCHANGED <<pc, served, guestDown>>

-----------------------------------------------------------------------------
(* waitForResponseDrain: the queue is seen empty, or time runs out, or the *)
(* ioctl fails.  A cancelled wait usually ends, but may have seen enough.  *)
DrainSees(c, d) ==
    /\ d \in drainers[c] /\ d.saw = "polling"
    /\ \E what \in {"drained", "failed"} :
        /\ what = "drained" => ~queued[c]
        /\ drainers' = [drainers EXCEPT ![c] =
                            (@ \ {d}) \cup {[d EXCEPT !.saw = what]}]
    /\ UNCHANGED <<ctrlVars, pc, served, state, generation, closed, hijacked,
                   pending, termVars, queued, sock, holdVars, guestDown>>

DrainCancelled(c, d) ==
    /\ d \in drainers[c] /\ d.saw = "polling"
    /\ d.gen # generation[c]
    /\ drainers' = [drainers EXCEPT ![c] = @ \ {d}]
    /\ UNCHANGED <<ctrlVars, pc, served, state, generation, closed, hijacked,
                   pending, termVars, queued, sock, holdVars, guestDown>>

(* Mutant of DrainCurrent: an idle connection is taken for the same idle   *)
(* period.                                                                 *)
DrainCurrentByState(c, d) == ~closed[c] /\ ~hijacked[c] /\ state[c] = "Idle"

(* Nothing has happened to the connection since the drain was started.     *)
DrainCurrent(c, d) ==
    /\ ~closed[c] /\ ~hijacked[c]
    /\ d.gen = generation[c]
    /\ state[c] = "Idle"

(* The rest of runIdleDrain, under c.mu.                                   *)
DrainEnds(c, d) ==
    /\ d \in drainers[c] /\ d.saw # "polling"
    /\ drainers' = [drainers EXCEPT ![c] = @ \ {d}]
    /\ \/ /\ ~DrainCurrent(c, d)
          /\ UNCHANGED <<ctrlVars, closed, pending, termVars, queued, sock,
                         holdVars>>
       \/ /\ DrainCurrent(c, d)
          /\ d.saw = "drained"          \* and the deadline is cleared
          /\ pending' = [pending EXCEPT ![c] = 0]
          /\ Complete(c, {pending[c]})
          /\ UNCHANGED <<closed, termVars, queued, sock>>
       \/ /\ DrainCurrent(c, d)         \* failed, or the deadline is not
          /\ MarkClosed(c)
          /\ Recover(c, pending[c])
          /\ UNCHANGED <<ctrlVars, queued, sock, holdVars, slots>>
    /\ UNCHANGED <<pc, served, state, generation, hijacked, guestDown>>

-----------------------------------------------------------------------------
(* The recovery or the monitor is over: complete the drain it owns.        *)
EndTerm(c) ==
    /\ Complete(c, {owned[c]})
    /\ term' = [term EXCEPT ![c] = "none"]
    /\ owned' = [owned EXCEPT ![c] = 0]
    /\ failed' = [failed EXCEPT ![c] = FALSE]
    /\ failClosed' = IF failed[c] THEN failClosed - 1 ELSE failClosed

(* One round of recoverResponseConnection: abort, or else monitor.         *)
RecoverRound(c) ==
    /\ term[c] = "recovering"
    /\ \/ /\ Gone(c)
          /\ EndTerm(c)
          /\ UNCHANGED slots
       \/ /\ slots < MonitorLimit
          /\ sock[c] # "gone"
          /\ slots' = slots + 1
          /\ term' = [term EXCEPT ![c] = "monitoring"]
          /\ sock' = [sock EXCEPT ![c] = "half"]
          /\ UNCHANGED <<ctrlVars, holdVars, owned, failed, failClosed, queued>>
    /\ UNCHANGED <<pc, served, connVars, guestDown>>

(* monitorClosedResponse: the peer has acknowledged everything, or it is   *)
(* gone.                                                                   *)
MonitorSafe(c) ==
    /\ term[c] \in {"monitoring", "aborting"}
    /\ ~queued[c]
    /\ Gone(c)
    /\ EndTerm(c)
    /\ slots' = slots - 1
    /\ UNCHANGED <<pc, served, connVars, guestDown>>

(* Time is up or the socket cannot be inspected: from now on abort.        *)
MonitorUnsafe(c) ==
    /\ term[c] = "monitoring"
    /\ term' = [term EXCEPT ![c] = "aborting"]
    /\ failed' = [failed EXCEPT ![c] = TRUE]
    /\ failClosed' = IF failed[c] THEN failClosed ELSE failClosed + 1
    /\ UNCHANGED <<ctrlVars, pc, served, connVars, owned, slots, queued, sock,
                   holdVars, guestDown>>

MonitorAbort(c) ==
    /\ term[c] = "aborting"
    /\ Gone(c)
    /\ EndTerm(c)
    /\ slots' = slots - 1
    /\ UNCHANGED <<pc, served, connVars, guestDown>>

(* The recovery deadline passes: the guest goes down, holds and all.       *)
TerminateGuest(c) ==
    /\ term[c] \in {"recovering", "aborting"}
    /\ guestDown' = TRUE
    /\ UNCHANGED <<ctrlVars, pc, served, connVars, termVars, queued, sock,
                   holdVars>>

-----------------------------------------------------------------------------
(* The kernel sends what is queued; the peer may reset the connection.     *)
Deliver(c) ==
    /\ queued[c]
    /\ queued' = [queued EXCEPT ![c] = FALSE]
    /\ UNCHANGED <<ctrlVars, pc, served, connVars, termVars, sock, holdVars,
                   guestDown>>

PeerResets(c) ==
    /\ sock[c] # "gone"
    /\ Gone(c)
    /\ UNCHANGED <<ctrlVars, pc, served, connVars, termVars, holdVars, guestDown>>

ServerStep(c) ==
    \/ TakeHold(c) \/ AbortRequest(c) \/ AddDrain(c) \/ KeepAlive(c)
    \/ FinishAndClose(c) \/ ServerCloses(c)

HandlerStep(c) ==
    \/ WriteResponse(c) \/ HandlerReturns(c) \/ Hijack(c)
    \/ HijackedHandlerReturns(c)

DrainStep(c) ==
    \E d \in drainers[c] : DrainSees(c, d) \/ DrainCancelled(c, d) \/ DrainEnds(c, d)

TermStep(c) ==
    \/ RecoverRound(c) \/ MonitorSafe(c) \/ MonitorUnsafe(c) \/ MonitorAbort(c)
    \/ TerminateGuest(c)

Next ==
    /\ ~guestDown
    /\ \E c \in Conns :
         \/ ReadRequest(c) \/ StopReading(c) \/ ShutdownCloses(c)
         \/ ServerStep(c) \/ HandlerStep(c) \/ DrainStep(c) \/ TermStep(c)
         \/ Deliver(c) \/ PeerResets(c)

(* Goroutines run and their timeouts pass.  A handler may run for ever, a  *)
(* client may keep its connection open and stop reading.                   *)
Fairness ==
    \A c \in Conns :
        /\ WF_vars(~guestDown /\ ServerStep(c))
        /\ WF_vars(~guestDown /\ DrainStep(c))
        /\ WF_vars(~guestDown /\ TermStep(c))

Spec == Init /\ [][Next]_vars /\ Fairness

-----------------------------------------------------------------------------
(* Bytes of a response that the middleware has seen are never in the send  *)
(* queue of a connection it tracks while the platform may put the machine  *)
(* to sleep: "until each non-loopback HTTP response is finalized and its   *)
(* TCP send queue drains or the connection terminates" (middleware.go:227).*)
UndeliveredMeansAwake ==
    \A c \in Conns : (queued[c] /\ ~hijacked[c]) => control = "+"

(* The holds of requests whose handlers have returned are all released, or *)
(* the guest goes down: no path forgets a response.  (The requests are     *)
(* finitely many, so a forgotten one would stay.)                          *)
EveryHoldEnds == []<>(holds \cap handlerDone = {} \/ guestDown)
=============================================================================

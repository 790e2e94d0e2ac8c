------------------------------ MODULE CdpMonitor ------------------------------
(***************************************************************************)
(* The CDP monitor (lib/cdpmonitor): its connection to the browser, which  *)
(* is replaced when it is lost, and the optional capture that telemetry    *)
(* switches on and off.  A switch is a revision: SetTelemetry closes the   *)
(* gate of publish at once, and a worker drains the old capture and cleans *)
(* the pages up before it opens the gate for the new one.                  *)
(***************************************************************************)
EXTENDS Naturals, FiniteSets

CONSTANTS
    Targets,    \* pages
    MaxRev,     \* bounds how often capture is switched
    MaxConns    \* bounds how often a connection is opened

ASSUME MonitorAssumption == MaxRev \in Nat \ {0} /\ MaxConns \in Nat

VARIABLES
    desired, applied,   \* desiredTelemetry and appliedTelemetry: [rev, on]
    signalled,          \* telemetryChanged holds a signal
    worker,             \* reconcileTelemetry: its stage and the state it loaded
    enabled,            \* telemetryEnabled
    conn,               \* m.conn: a generation, and whether it is usable
    alive,              \* pages of the browser
    attached, ready, optional, computed,    \* m.sessions, networkReady,
                                            \* optionalSessions, computedStates
    setup,              \* the captureWg goroutine of each page
    obligations,        \* interactionTargets
    domains, listeners, \* browser: pages with optional domains, with listeners
    handler,            \* an event in dispatchEvent
    async,              \* work in telemetryWg
    timer,              \* a callback of a computedState
    stale               \* history: something old was published

gateVars == <<desired, applied, signalled, worker, enabled>>
pageVars == <<alive, attached, ready, optional, computed, setup, obligations,
              domains, listeners>>
workVars == <<handler, async, timer, stale>>
monitorVars == <<gateVars, conn, pageVars, workVars>>

State == [rev : 0..MaxRev, on : BOOLEAN]
Idle == [rev |-> 0, gen |-> 0]      \* no such work
Capture == [rev : 0..MaxRev, gen : 0..MaxConns]
NoTimer == [rev |-> 0, gen |-> 0, stage |-> "none", live |-> FALSE]
SetupStages == {"none", "network", "waiting", "cleanup", "again", "enabling", "inject"}

MonitorTypeOK ==
    /\ desired \in State /\ applied \in State
    /\ signalled \in BOOLEAN /\ enabled \in BOOLEAN /\ stale \in BOOLEAN
    /\ worker \in [stage : {"idle", "locking", "draining", "cleaning", "finishing"}, state : State]
    /\ conn \in [gen : 0..MaxConns, status : {"none", "up", "down"}]
    /\ {alive, attached, ready, optional, computed, obligations, domains, listeners}
            \subseteq SUBSET Targets
    /\ setup \in [Targets -> SetupStages]
    /\ handler \in Capture /\ async \in Capture
    /\ timer \in [rev : 0..MaxRev, gen : 0..MaxConns,
                  stage : {"none", "fired", "checked"}, live : BOOLEAN]

(* New, and SetTelemetry(false) by the API service before it starts it.    *)
MonitorInit ==
    /\ desired = [rev |-> 1, on |-> FALSE]
    /\ applied = [rev |-> 0, on |-> TRUE]
    /\ signalled = TRUE /\ enabled = TRUE
    /\ worker = [stage |-> "idle", state |-> applied]
    /\ conn = [gen |-> 0, status |-> "none"]
    /\ alive = Targets
    /\ attached = {} /\ ready = {} /\ optional = {} /\ computed = {}
    /\ setup = [t \in Targets |-> "none"]
    /\ obligations = {} /\ domains = {} /\ listeners = {}
    /\ handler = Idle /\ async = Idle /\ timer = NoTimer
    /\ stale = FALSE

-----------------------------------------------------------------------------
CaptureEnabled == desired.on /\ applied = desired

Current == [rev |-> applied.rev, gen |-> conn.gen]

(* m.publish of a captured event: the gate, under desiredMu.               *)
PublishCaptured(work) == stale' = (stale \/ (CaptureEnabled /\ work # Current))

(* telemetryMu: readers, and the worker, which is a writer that waits or   *)
(* holds; it keeps new readers out.                                        *)
ReadLocked(t) == setup[t] \in {"cleanup", "enabling", "inject"}
WriterWaits == worker.stage # "idle"

(* conn.cancel, by whoever finds the connection broken; the contexts of    *)
(* capture descend from it.                                                *)
Lose ==
    /\ conn' = [conn EXCEPT !.status = IF @ = "up" THEN "down" ELSE @]
    /\ timer' = [timer EXCEPT !.live = FALSE]
    /\ domains' = {}

SetTelemetry ==
    /\ desired.rev < MaxRev
    /\ desired' = [rev |-> desired.rev + 1, on |-> ~desired.on]
    /\ signalled' = TRUE
    /\ UNCHANGED <<applied, worker, enabled, conn, pageVars, workVars>>

-----------------------------------------------------------------------------
(* What publishes: the handler of an event, which may leave work behind    *)
(* that publishes later, and the timers of the computed states.            *)

Dispatch ==
    /\ handler = Idle /\ attached # {}
    /\ CaptureEnabled /\ enabled /\ conn.status = "up" /\ ~WriterWaits
    /\ handler' = Current
    /\ UNCHANGED <<gateVars, conn, pageVars, async, timer, stale>>

Handled ==
    /\ handler # Idle
    /\ PublishCaptured(handler)
    /\ handler' = Idle
    /\ \/ async = Idle /\ async' = handler
       \/ UNCHANGED async
    /\ UNCHANGED <<gateVars, conn, pageVars, timer>>

AsyncPublishes ==
    /\ async # Idle
    /\ PublishCaptured(async)
    /\ async' = Idle
    /\ UNCHANGED <<gateVars, conn, pageVars, handler, timer>>

(* The callback of a timer finds its state alive; it then takes            *)
(* computedPublishMu and looks at its context, and publishes under it.     *)
TimerFires ==
    /\ timer = NoTimer /\ computed # {}
    /\ timer' = [rev |-> applied.rev, gen |-> conn.gen, stage |-> "fired",
                 live |-> conn.status = "up"]
    /\ UNCHANGED <<gateVars, conn, pageVars, handler, async, stale>>

TimerChecks ==
    /\ timer.stage = "fired"
    /\ timer' = IF timer.live THEN [timer EXCEPT !.stage = "checked"] ELSE NoTimer
    /\ UNCHANGED <<gateVars, conn, pageVars, handler, async, stale>>

TimerPublishes ==
    /\ timer.stage = "checked"
    /\ PublishCaptured([rev |-> timer.rev, gen |-> timer.gen])
    /\ timer' = NoTimer
    /\ UNCHANGED <<gateVars, conn, pageVars, handler, async>>

-----------------------------------------------------------------------------
(* The browser surface attaches to a page; a goroutine prepares it.        *)
Attach(t) ==
    /\ conn.status = "up" /\ t \in alive \ attached /\ setup[t] = "none"
    /\ attached' = attached \cup {t}
    /\ setup' = [setup EXCEPT ![t] = "network"]
    /\ computed' = IF ~WriterWaits /\ enabled /\ CaptureEnabled
                     THEN computed \cup {t} ELSE computed
    /\ UNCHANGED <<gateVars, conn, alive, ready, optional, obligations, domains,
                   listeners, workVars>>

(* handleDetachedFromTarget; the page may have been destroyed, which ends  *)
(* every obligation (Target.targetDestroyed).                              *)
Detach(t) ==
    /\ conn.status = "up" /\ t \in attached
    /\ attached' = attached \ {t} /\ ready' = ready \ {t}
    /\ optional' = optional \ {t} /\ computed' = computed \ {t}
    /\ domains' = domains \ {t}
    /\ \/ /\ alive' = alive \ {t} /\ listeners' = listeners \ {t}
          /\ obligations' = obligations \ {t}
       \/ UNCHANGED <<alive, listeners, obligations>>
    /\ UNCHANGED <<gateVars, conn, setup, workVars>>

NetworkEnabled(t) ==
    /\ setup[t] = "network"
    /\ \/ /\ conn.status = "up"
          /\ setup' = [setup EXCEPT ![t] = "waiting"]
          /\ UNCHANGED <<conn, timer, domains>>
       \/ /\ setup' = [setup EXCEPT ![t] = "none"]
          /\ IF t \in attached THEN Lose ELSE UNCHANGED <<conn, timer, domains>>
    /\ UNCHANGED <<gateVars, alive, attached, ready, optional, computed,
                   obligations, listeners, handler, async, stale>>

TakeReadLock(t) ==
    /\ setup[t] \in {"waiting", "again"} /\ ~WriterWaits
    /\ setup' = [setup EXCEPT ![t] = IF @ = "waiting" THEN "cleanup" ELSE "enabling"]
    /\ UNCHANGED <<gateVars, conn, alive, attached, ready, optional, computed,
                   obligations, domains, listeners, workVars>>

Obliged(t) == t \in obligations

(* cleanupAttachedTarget, and the page is ready.                           *)
CleanupAttached(t) ==
    /\ setup[t] = "cleanup"
    /\ \/ /\ Obliged(t) /\ conn.status = "up" /\ t \in attached
          /\ listeners' = listeners \ {t} /\ obligations' = obligations \ {t}
          /\ ready' = ready \cup {t}
          /\ setup' = [setup EXCEPT ![t] = "enabling"]
          /\ UNCHANGED <<conn, timer, domains>>
       \/ /\ Obliged(t) /\ t \in attached
          /\ \E gone \in SUBSET {t} : listeners' = listeners \ gone
          /\ setup' = [setup EXCEPT ![t] = "none"]
          /\ Lose
          /\ UNCHANGED <<ready, obligations>>
       \/ /\ ~Obliged(t) \/ t \notin attached
          /\ ready' = ready \cup ({t} \cap attached)
          /\ setup' = [setup EXCEPT ![t] = "enabling"]
          /\ UNCHANGED <<conn, timer, domains, listeners, obligations>>
    /\ UNCHANGED <<gateVars, alive, attached, optional, computed, handler, async, stale>>

(* enableOptionalCapture, up to the script it sends.                       *)
EnableOptional(t) ==
    /\ setup[t] = "enabling"
    /\ IF t \in attached \ optional /\ enabled /\ CaptureEnabled /\ conn.status = "up"
         THEN /\ optional' = optional \cup {t} /\ computed' = computed \cup {t}
              /\ domains' = domains \cup {t}
              /\ setup' = [setup EXCEPT ![t] = "inject"]
         ELSE /\ setup' = [setup EXCEPT ![t] = "none"]
              /\ UNCHANGED <<optional, computed, domains>>
    /\ UNCHANGED <<gateVars, conn, alive, attached, ready, obligations, listeners, workVars>>

(* A registration whose answer is lost may have been executed.             *)
Uncertain(t) == obligations \cup {t}

(* injectScript: executed and answered, rejected, or nobody knows.         *)
Inject(t) ==
    /\ setup[t] = "inject"
    /\ setup' = [setup EXCEPT ![t] = "none"]
    /\ \/ /\ conn.status = "up" /\ t \in attached
          /\ listeners' = listeners \cup {t} /\ obligations' = obligations \cup {t}
          /\ UNCHANGED <<conn, timer, domains>>
       \/ /\ conn.status = "up"
          /\ UNCHANGED <<conn, timer, domains, listeners, obligations>>
       \/ /\ \E done \in SUBSET ({t} \cap alive) : listeners' = listeners \cup done
          /\ obligations' = IF t \in alive THEN Uncertain(t) ELSE obligations
          /\ Lose
    /\ UNCHANGED <<gateVars, alive, attached, ready, optional, computed, handler, async, stale>>

-----------------------------------------------------------------------------
(* reconcileTelemetry: a signal, under restartMu.                          *)
WorkerStarts ==
    /\ signalled /\ worker.stage = "idle"
    /\ signalled' = FALSE
    /\ worker' = [stage |-> "locking", state |-> desired]
    /\ UNCHANGED <<desired, applied, enabled, conn, pageVars, workVars>>

WorkerLocks ==
    /\ worker.stage = "locking"
    /\ handler = Idle /\ \A t \in Targets : ~ReadLocked(t)
    /\ IF applied = worker.state
         THEN worker' = [worker EXCEPT !.stage = "idle"] /\ UNCHANGED enabled
         ELSE worker' = [worker EXCEPT !.stage = "draining"] /\ enabled' = FALSE
    /\ UNCHANGED <<desired, applied, signalled, conn, pageVars, workVars>>

(* Mutant of Drained: the worker does not wait for what is going to publish*)
DrainedAtOnce == TRUE

(* telemetryWg.Wait; the computed states are then stopped under their      *)
(* cancelled context, and computedPublishMu passed through once.           *)
Drained == async = Idle

WorkerDrains ==
    /\ worker.stage = "draining" /\ Drained
    /\ timer' = [timer EXCEPT !.live = FALSE]
    /\ computed' = {}
    /\ worker' = [worker EXCEPT !.stage = "cleaning"]
    /\ UNCHANGED <<desired, applied, signalled, enabled, conn, alive, attached, ready,
                   optional, setup, obligations, domains, listeners, handler, async, stale>>

TimersPassed == timer.stage # "checked"

(* Mutant of CleanupFailed: the failure is only logged.                    *)
CleanupFailedQuietly == UNCHANGED <<conn, timer, domains>>

(* The connection is given up: the next one applies what is desired.       *)
CleanupFailed == Lose

(* The pages of a usable connection are cleaned; what cannot be cleaned is *)
(* left to the next connection.                                            *)
WorkerCleans ==
    /\ worker.stage = "cleaning" /\ TimersPassed
    /\ \E done \in SUBSET (optional \cap attached) :
        LET left == obligations \ done
            cleaned == done = optional \cap attached /\ left = {}
        IN  IF conn.status # "up"
              THEN /\ done = {} /\ optional' = {}
                   /\ worker' = [worker EXCEPT !.stage = "finishing"]
                   /\ UNCHANGED <<conn, timer, domains, listeners, obligations>>
              ELSE /\ listeners' = listeners \ (done \cap obligations)
                   /\ obligations' = left
                   /\ IF cleaned
                        THEN /\ worker' = [worker EXCEPT !.stage = "finishing"]
                             /\ optional' = {}
                             /\ domains' = domains \ done
                             /\ UNCHANGED <<conn, timer>>
                        ELSE /\ worker' = [worker EXCEPT !.stage = "idle"]
                             /\ optional' = optional \ done
                             /\ CleanupFailed
    /\ UNCHANGED <<desired, applied, signalled, enabled, alive, attached, ready,
                   computed, setup, handler, async, stale>>

(* An obsolete revision is not applied; one that captures needs a usable   *)
(* connection, whose replacement applies it otherwise.                     *)
WorkerFinishes ==
    /\ worker.stage = "finishing"
    /\ worker' = [worker EXCEPT !.stage = "idle"]
    /\ IF desired # worker.state
         THEN signalled' = TRUE /\ UNCHANGED <<applied, enabled, setup>>
         ELSE IF worker.state.on /\ conn.status # "up"
           THEN UNCHANGED <<signalled, applied, enabled, setup>>
           ELSE /\ applied' = worker.state
                /\ enabled' = (IF worker.state.on THEN TRUE ELSE enabled)
                /\ setup' = [t \in Targets |-> IF worker.state.on /\ t \in ready
                                                 THEN "again" ELSE setup[t]]
                /\ UNCHANGED signalled
    /\ UNCHANGED <<desired, conn, alive, attached, ready, optional, computed,
                   obligations, domains, listeners, workVars>>

-----------------------------------------------------------------------------
(* supervise.  The socket is lost, or the browser has gone with its pages. *)
LoseConnection ==
    /\ conn.status = "up" /\ conn.gen < MaxConns
    /\ Lose
    /\ \/ UNCHANGED <<alive, listeners>>
       \/ alive' = {} /\ listeners' = {}
    /\ UNCHANGED <<gateVars, attached, ready, optional, computed, setup, obligations,
                   handler, async, stale>>

WorkFinished == handler = Idle /\ async = Idle /\ \A t \in Targets : setup[t] = "none"

(* closeConnection and clearState, under restartMu.                        *)
CloseConnection ==
    /\ conn.status = "down" /\ worker.stage = "idle"
    /\ WorkFinished /\ TimersPassed
    /\ conn' = [conn EXCEPT !.status = "none"]
    /\ attached' = {} /\ ready' = {} /\ optional' = {} /\ computed' = {}
    /\ UNCHANGED <<gateVars, alive, setup, obligations, domains, listeners, workVars>>

(* Mutant of Pruned: obligations end with the connection they stem from.   *)
PrunedEntirely == {}

(* pruneInteractionTargets: only a page that is gone is forgotten.         *)
Pruned == obligations \cap alive

(* openConnection.                                                         *)
OpenConnection ==
    /\ conn.status = "none" /\ worker.stage = "idle" /\ conn.gen < MaxConns
    /\ conn' = [gen |-> conn.gen + 1, status |-> "up"]
    /\ obligations' = Pruned
    /\ enabled' = desired.on /\ applied' = desired
    /\ UNCHANGED <<desired, signalled, worker, alive, attached, ready, optional, computed,
                   setup, domains, listeners, workVars>>

-----------------------------------------------------------------------------
SetupStep(t) ==
    NetworkEnabled(t) \/ TakeReadLock(t) \/ CleanupAttached(t) \/ EnableOptional(t) \/ Inject(t)
WorkerStep == WorkerStarts \/ WorkerLocks \/ WorkerDrains \/ WorkerCleans \/ WorkerFinishes
WorkStep == Handled \/ AsyncPublishes \/ TimerChecks \/ TimerPublishes

MonitorNext ==
    \/ SetTelemetry \/ Dispatch \/ WorkStep \/ TimerFires
    \/ \E t \in Targets : Attach(t) \/ Detach(t) \/ SetupStep(t)
    \/ WorkerStep
    \/ LoseConnection \/ CloseConnection \/ OpenConnection

(* Goroutines run, and what they ask the browser ends or times out; the    *)
(* supervisor dials again and again, and gets through while MaxConns lasts.*)
MonitorFairness ==
    /\ WF_monitorVars(WorkerStep) /\ WF_monitorVars(Handled) /\ WF_monitorVars(AsyncPublishes)
    /\ WF_monitorVars(TimerChecks \/ TimerPublishes)
    /\ \A t \in Targets : SF_monitorVars(SetupStep(t))
    /\ WF_monitorVars(CloseConnection) /\ WF_monitorVars(OpenConnection)

MonitorSpec == MonitorInit /\ [][MonitorNext]_monitorVars /\ MonitorFairness

-----------------------------------------------------------------------------
(* "A revision change always drains the previous capture, including an     *)
(* off/on pair coalesced before this worker runs" (applyTelemetry), and    *)
(* "stale sessions cannot write into the next one" (captureWg).            *)
NothingStale == ~stale

(* While nothing is captured, a page that is ready has neither listeners   *)
(* nor optional domains.                                                   *)
OffMeansClean ==
    (~desired.on /\ applied = desired /\ conn.status = "up") =>
        ready \cap (listeners \cup domains) = {}

(* No capture publishes into one that was switched on after it, and        *)
(* capture that is off has left nothing in the pages.                      *)
CaptureIsClean == NothingStale /\ OffMeansClean

(* The last switch is applied, unless the last connection is lost.         *)
SwitchesAreApplied ==
    desired.rev = MaxRev ~>
        (applied = desired \/ (conn.gen = MaxConns /\ conn.status # "up"))
=============================================================================

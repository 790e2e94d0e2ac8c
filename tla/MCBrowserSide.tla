----------------------------- MODULE MCBrowserSide -----------------------------
(***************************************************************************)
(* Small instances, for TLC, of the parts that follow what the browser     *)
(* does: the event stream, the telemetry configuration, the CDP monitor,   *)
(* the DevTools proxy and the tools of pages.  They share no state in this *)
(* model; the initial choice of `part` says which of them a behaviour is   *)
(* about, and the others rest.                                             *)
(***************************************************************************)
EXTENDS EventStream, Telemetry, CdpMonitor, WebMcp

CONSTANTS
    s1, w1, r1, r2, c1,
    Parts,          \* the parts that are explored
    MaxLives, MaxTails

VARIABLES
    part,
    sup, browserLife, browser, log, tail, tails, current, sending, inbox, at, on,
    reason

OneStream == {s1}
OneWriter == {w1}
TwoRequests == {r1, r2}

P == INSTANCE DevtoolsProxy WITH
    Subscribers <- {c1}, life <- browserLife, pc <- at

proxyVars == <<sup, browserLife, browser, log, tail, tails, current, sending, inbox,
               at, on, reason>>
allVars == <<part, vars, telemetryVars, monitorVars, proxyVars, webVars>>

SideInit == part \in Parts /\ Init /\ TelemetryInit /\ MonitorInit /\ P!Init /\ WebInit

StreamNext ==
    /\ part = "stream" /\ Next
    /\ UNCHANGED <<part, telemetryVars, monitorVars, proxyVars, webVars>>

SessionNext ==
    /\ part = "telemetry" /\ TelemetryNext
    /\ UNCHANGED <<part, vars, monitorVars, proxyVars, webVars>>

CapturePartNext ==
    /\ part = "monitor" /\ MonitorNext
    /\ UNCHANGED <<part, vars, telemetryVars, proxyVars, webVars>>

ProxyNext ==
    /\ part = "proxy" /\ P!Next
    /\ UNCHANGED <<part, vars, telemetryVars, monitorVars, webVars>>

WebPartNext ==
    /\ part = "web" /\ WebNext
    /\ UNCHANGED <<part, vars, telemetryVars, monitorVars, proxyVars>>

SideNext == StreamNext \/ SessionNext \/ CapturePartNext \/ ProxyNext \/ WebPartNext

(* The fairness of each part, for the behaviours that are about it.        *)
StreamFairness ==
    /\ WF_vars(part = "stream" /\ StoreEnvelope)
    /\ \A r \in Readers : WF_vars(part = "stream" /\ ReaderStep(r))

SessionFairness ==
    \A r \in Requests : SF_telemetryVars(part = "telemetry" /\ RequestStep(r))

CaptureFairness ==
    /\ WF_monitorVars(part = "monitor" /\ WorkerStep)
    /\ WF_monitorVars(part = "monitor" /\ Handled)
    /\ WF_monitorVars(part = "monitor" /\ AsyncPublishes)
    /\ WF_monitorVars(part = "monitor" /\ (TimerChecks \/ TimerPublishes))
    /\ \A t \in Targets : SF_monitorVars(part = "monitor" /\ SetupStep(t))
    /\ WF_monitorVars(part = "monitor" /\ CloseConnection)
    /\ WF_monitorVars(part = "monitor" /\ OpenConnection)

ProxyFairness ==
    /\ WF_(proxyVars)(part = "proxy" /\ P!ChromeStep /\ UNCHANGED <<at, on, reason>>)
    /\ WF_(proxyVars)(part = "proxy" /\ P!ManagerStep /\ UNCHANGED <<at, on, reason>>)
    /\ WF_(proxyVars)(part = "proxy" /\ P!SessionStep(c1))

WebPartFairness ==
    /\ WF_webVars(part = "web" /\ Handle)
    /\ WF_webVars(part = "web" /\ EnableSession)
    /\ \A i \in Invocations : WF_webVars(part = "web" /\ InvocationStep(i))

(* Readers do not act on one another: one of them is enough.               *)
OneReader == phase[s1] = "new" \/ phase[w1] = "new"

SideSpec ==
    /\ SideInit /\ [][SideNext]_allVars
    /\ StreamFairness /\ SessionFairness /\ CaptureFairness /\ ProxyFairness
    /\ WebPartFairness

-----------------------------------------------------------------------------
(* No proxied session stays on a DevTools URL that is not the current one. *)
StaleSessionsEnd == P!StaleSessionsEnd
=============================================================================

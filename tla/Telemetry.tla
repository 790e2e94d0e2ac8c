------------------------------- MODULE Telemetry -------------------------------
(***************************************************************************)
(* The telemetry configuration (lib/telemetry, cmd/api/api/telemetry.go):  *)
(* PUT and PATCH commit a configuration to the session under monitorMu and *)
(* storageMu, tell the collectors, and reconcile the two sinks afterwards, *)
(* each under a lock of its own.  Producers publish all the while, and the *)
(* service may shut down.                                                  *)
(***************************************************************************)
EXTENDS Naturals, Sequences

CONSTANTS
    Requests,   \* PUT and PATCH requests
    MaxCaptured \* bounds the number of events

ASSUME TelemetryAssumption == MaxCaptured \in Nat

VARIABLES
    session,    \* TelemetrySession; after: storeS2After
    captured,   \* history: for each event, was it captured with storage on?
    middleware, \* telemetryMiddlewareEnabled
    capture,    \* what SetTelemetry last asked of the CDP monitor
    pc,         \* how far each request is
    wanted,     \* the configuration it commits
    former,     \* the session it commits it to
    export,     \* the OTLP controller has a writer
    exportLost, \* history: the last start of the OTLP writer failed
    s2,         \* the S2 controller
    life        \* of the service

telemetryVars == <<session, captured, middleware, capture, pc, wanted, former,
          export, exportLost, s2, life>>

Cats == {"cdp", "control"}
DefaultCats == {"control"}
Toggle == {"on", "off", "omitted"}
Config == [cats : SUBSET Cats, otlp : BOOLEAN, s2 : BOOLEAN]
Session == [active : BOOLEAN, cats : SUBSET Cats, otlp : BOOLEAN, s2 : BOOLEAN,
            after : 0..MaxCaptured]
NoConfig == [cats |-> {}, otlp |-> FALSE, s2 |-> FALSE]
NoSession == [active |-> FALSE, cats |-> DefaultCats, otlp |-> FALSE,
              s2 |-> FALSE, after |-> 0]
Stages == {"start", "admitted", "settling", "export", "exporting", "storage",
           "opening", "done"}

Latest == Len(captured)  \* es.seq

TelemetryTypeOK ==
    /\ session \in Session
    /\ captured \in Seq(BOOLEAN) /\ Latest <= MaxCaptured
    /\ middleware \in BOOLEAN /\ capture \in BOOLEAN
    /\ pc \in [Requests -> Stages]
    /\ wanted \in [Requests -> Config]
    /\ former \in [Requests -> Session]
    /\ export \in BOOLEAN /\ exportLost \in BOOLEAN
    /\ s2 \in [open : BOOLEAN, ever : BOOLEAN, after : 0..MaxCaptured]
    /\ life \in {"up", "over", "stopped", "closed"}

TelemetryInit ==
    /\ session = NoSession
    /\ captured = <<>>
    /\ middleware = FALSE /\ capture = FALSE
    /\ pc = [r \in Requests |-> "start"]
    /\ wanted = [r \in Requests |-> NoConfig]
    /\ former = [r \in Requests |-> NoSession]
    /\ export = FALSE /\ exportLost = FALSE
    /\ s2 = [open |-> FALSE, ever |-> FALSE, after |-> 0]
    /\ life = "up"

-----------------------------------------------------------------------------
(* TelemetrySession.                                                       *)

StartSession(cfg) ==
    [active |-> TRUE, cats |-> cfg.cats, otlp |-> cfg.otlp, s2 |-> cfg.s2, after |-> Latest]

(* Mutant of Update: storage that is turned on starts where it last did.   *)
UpdateKeepsAfter(s, cfg) ==
    [active |-> TRUE, cats |-> cfg.cats, otlp |-> cfg.otlp, s2 |-> cfg.s2, after |-> s.after]

(* UpdateConfig: turning storage on is a boundary in the stream.           *)
Update(s, cfg) ==
    [active |-> TRUE, cats |-> cfg.cats, otlp |-> cfg.otlp, s2 |-> cfg.s2,
     after |-> IF cfg.s2 /\ ~s.s2 THEN Latest ELSE s.after]

StopSession(s) == [s EXCEPT !.active = FALSE, !.otlp = FALSE, !.s2 = FALSE]

(* Publish passes an event whose category is captured.                     *)
Publish ==
    /\ session.active /\ session.cats # {}
    /\ Latest < MaxCaptured
    /\ captured' = Append(captured, session.s2)
    /\ UNCHANGED <<session, middleware, capture, pc, wanted, former, export,
                   exportLost, s2, life>>

-----------------------------------------------------------------------------
(* Locks, as the requests hold them.                                       *)

MonitorFree == \A r \in Requests : pc[r] \notin {"admitted", "settling"}

(* Mutant of ExportFree: what is wanted is read without exportMu.          *)
ExportUnlocked == TRUE

ExportFree == \A r \in Requests : pc[r] # "exporting"

StorageFree == \A r \in Requests : pc[r] \notin {"settling", "opening"}

Resolve(toggle, default) == IF toggle = "omitted" THEN default ELSE toggle = "on"

(* telemetryConfigFromOAPI: omitted is off, but for storage; no categories *)
(* at all are the default ones.                                            *)
PutConfig(cats, otlp, store) ==
    [cats |-> {c \in Cats : cats[c] = "on"},
     otlp |-> Resolve(otlp, FALSE), s2 |-> Resolve(store, TRUE)]

(* mergeTelemetryConfig: omitted is unchanged.                             *)
PatchConfig(cats, otlp, store) ==
    [cats |-> {c \in Cats : Resolve(cats[c], c \in session.cats)},
     otlp |-> Resolve(otlp, session.otlp), s2 |-> Resolve(store, session.s2)]

(* A body without a browser block asks for DefaultCats, one that switches  *)
(* every category off clears the configuration.                            *)
PutBodies ==
    {PutConfig(cats, otlp, store) : cats \in [Cats -> Toggle], otlp \in Toggle, store \in Toggle}
    \cup {[PutConfig([c \in Cats |-> "off"], otlp, store) EXCEPT !.cats = DefaultCats] :
            otlp \in Toggle, store \in Toggle}

PatchBodies ==
    {PatchConfig(cats, otlp, store) : cats \in [Cats -> Toggle], otlp \in Toggle, store \in Toggle}

(* A request under monitorMu.  A malformed PUT, a PATCH of nothing, or one *)
(* of no session, goes on to the sinks.                                    *)
Admit(r) ==
    /\ pc[r] = "start" /\ MonitorFree
    /\ \/ /\ pc' = [pc EXCEPT ![r] = "admitted"]
          /\ \E cfg \in PutBodies \cup (IF session.active THEN PatchBodies ELSE {}) :
                wanted' = [wanted EXCEPT ![r] = cfg]
       \/ pc' = [pc EXCEPT ![r] = "export"] /\ UNCHANGED wanted
    /\ UNCHANGED <<session, captured, middleware, capture, former, export,
                   exportLost, s2, life>>

(* storageDisableConflict.                                                 *)
Conflicts(cfg) == ~cfg.s2 /\ s2.ever

Conflict(r) ==
    /\ pc[r] = "admitted" /\ StorageFree
    /\ Conflicts(wanted[r])
    /\ pc' = [pc EXCEPT ![r] = "export"]
    /\ wanted' = [wanted EXCEPT ![r] = NoConfig]
    /\ UNCHANGED <<session, captured, middleware, capture, former, export,
                   exportLost, s2, life>>

(* stopTelemetryState.                                                     *)
StopCollectors == middleware' = FALSE /\ capture' = FALSE

(* Every category is off: the session, if there is one, ends.              *)
Clear(r) ==
    /\ pc[r] = "admitted" /\ StorageFree
    /\ ~Conflicts(wanted[r]) /\ wanted[r].cats = {}
    /\ IF session.active
         THEN session' = StopSession(session) /\ StopCollectors
         ELSE UNCHANGED <<session, middleware, capture>>
    /\ pc' = [pc EXCEPT ![r] = "export"]
    /\ wanted' = [wanted EXCEPT ![r] = NoConfig]
    /\ UNCHANGED <<captured, former, export, exportLost, s2, life>>

Commit(r) ==
    /\ pc[r] = "admitted" /\ StorageFree
    /\ ~Conflicts(wanted[r]) /\ wanted[r].cats # {}
    /\ former' = [former EXCEPT ![r] = session]
    /\ session' = IF session.active THEN Update(session, wanted[r]) ELSE StartSession(wanted[r])
    /\ pc' = [pc EXCEPT ![r] = "settling"]
    /\ UNCHANGED <<captured, middleware, capture, wanted, export, exportLost, s2, life>>

(* reconcileTelemetryState fails only once the service shuts down; it has  *)
(* then set the middleware and not the monitor, and rollbackTelemetry sets *)
(* the middleware back.                                                    *)
Settle(r) ==
    /\ pc[r] = "settling"
    /\ IF life = "up"
         THEN /\ middleware' = ("control" \in wanted[r].cats)
              /\ capture' = ("cdp" \in wanted[r].cats)
              /\ UNCHANGED session
         ELSE IF former[r].active
           THEN /\ session' = Update(session, former[r])
                /\ middleware' = ("control" \in former[r].cats)
                /\ UNCHANGED capture
           ELSE session' = StopSession(session) /\ StopCollectors
    /\ pc' = [pc EXCEPT ![r] = "export"]
    /\ wanted' = [wanted EXCEPT ![r] = NoConfig]
    /\ former' = [former EXCEPT ![r] = NoSession]
    /\ UNCHANGED <<captured, export, exportLost, s2, life>>

-----------------------------------------------------------------------------
(* reconcileExport takes exportMu, reads what the session wants, and then  *)
(* starts or stops the writer, which may drain for seconds.                *)
ReadExport(r) ==
    /\ pc[r] = "export" /\ ExportFree
    /\ pc' = [pc EXCEPT ![r] = "exporting"]
    /\ wanted' = [wanted EXCEPT ![r].otlp = session.otlp]
    /\ UNCHANGED <<session, captured, middleware, capture, former, export,
                   exportLost, s2, life>>

ApplyExport(r) ==
    /\ pc[r] = "exporting"
    /\ IF wanted[r].otlp /\ ~export
         THEN \E started \in BOOLEAN : export' = started /\ exportLost' = ~started
         ELSE export' = wanted[r].otlp /\ UNCHANGED exportLost
    /\ pc' = [pc EXCEPT ![r] = "storage"]
    /\ wanted' = [wanted EXCEPT ![r] = NoConfig]
    /\ UNCHANGED <<session, captured, middleware, capture, former, s2, life>>

(* reconcileStorage: the writer is opened once, after the boundary that is *)
(* read here; opening it takes the network, and may fail.                  *)
StartStorage(r) ==
    /\ pc[r] = "storage" /\ StorageFree
    /\ IF session.s2 /\ ~s2.ever /\ life = "up"
         THEN /\ pc' = [pc EXCEPT ![r] = "opening"]
              /\ s2' = [s2 EXCEPT !.after = session.after]
         ELSE pc' = [pc EXCEPT ![r] = "done"] /\ UNCHANGED s2
    /\ UNCHANGED <<session, captured, middleware, capture, wanted, former,
                   export, exportLost, life>>

(* Mutant of Opened: storageMu is held while monitorMu is asked for.       *)
OpenedUnderMonitor(r) == pc[r] = "opening" /\ MonitorFree

(* The network has answered.                                               *)
Opened(r) == pc[r] = "opening"

OpenStorage(r) ==
    /\ Opened(r)
    /\ \/ s2' = [s2 EXCEPT !.open = TRUE, !.ever = TRUE]
       \/ s2' = [s2 EXCEPT !.after = 0]
    /\ pc' = [pc EXCEPT ![r] = "done"]
    /\ UNCHANGED <<session, captured, middleware, capture, wanted, former,
                   export, exportLost, life>>

-----------------------------------------------------------------------------
(* ApiService.Shutdown cancels the lifecycle, and later stops the session. *)
CancelLifecycle ==
    /\ life = "up"
    /\ life' = "over"
    /\ UNCHANGED <<session, captured, middleware, capture, pc, wanted, former,
                   export, exportLost, s2>>

StopAtShutdown ==
    /\ life = "over" /\ MonitorFree
    /\ session' = StopSession(session)
    /\ life' = "stopped"
    /\ UNCHANGED <<captured, middleware, capture, pc, wanted, former, export,
                   exportLost, s2>>

(* main closes the sinks; S2's Stop waits for a start in flight and may    *)
(* time out, which leaves the writer.                                      *)
CloseSinks ==
    /\ life = "stopped"
    /\ life' = "closed"
    /\ \/ s2' = [s2 EXCEPT !.open = FALSE] /\ \A r \in Requests : pc[r] # "opening"
       \/ UNCHANGED s2
    /\ export' = FALSE
    /\ UNCHANGED <<session, captured, middleware, capture, pc, wanted, former, exportLost>>

-----------------------------------------------------------------------------
RequestStep(r) ==
    \/ Conflict(r) \/ Clear(r) \/ Commit(r) \/ Settle(r)
    \/ ReadExport(r) \/ ApplyExport(r) \/ StartStorage(r) \/ OpenStorage(r)

TelemetryNext ==
    \/ Publish
    \/ \E r \in Requests : Admit(r) \/ RequestStep(r)
    \/ CancelLifecycle \/ StopAtShutdown \/ CloseSinks

(* A handler runs on, and gets a mutex it waits for (Go's mutexes do not   *)
(* starve); the network answers or fails.                                  *)
TelemetryFairness == \A r \in Requests : SF_telemetryVars(RequestStep(r))

TelemetrySpec == TelemetryInit /\ [][TelemetryNext]_telemetryVars /\ TelemetryFairness

-----------------------------------------------------------------------------
(* "The sink stores only events captured under that config, not what the   *)
(* ring still holds from earlier storage-off capture" (reconcileStorage).  *)
StoredWasWanted ==
    s2.open => \A n \in (s2.after + 1)..Latest : captured[n]

(* "Whichever call wins exportMu last observes the final committed state,  *)
(* so the sink converges" (reconcileExport).                               *)
ExportConverges ==
    (life = "up" /\ \A r \in Requests : pc[r] \in {"start", "storage", "opening", "done"})
        => (export = session.otlp \/ (session.otlp /\ exportLost))

(* A request gets through the three locks and is answered.                 *)
RequestsEnd == \A r \in Requests : pc[r] = "admitted" ~> pc[r] = "done"
=============================================================================

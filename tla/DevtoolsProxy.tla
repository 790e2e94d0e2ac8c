----------------------------- MODULE DevtoolsProxy -----------------------------
(***************************************************************************)
(* WebSocketProxyHandler (lib/devtoolsproxy/proxy.go): a client is         *)
(* connected to the current upstream URL, dialled with retries while       *)
(* Chromium restarts, and is put off as soon as another URL is announced.  *)
(* A connection to a Chromium that is gone may look alive for ever: only   *)
(* the watcher is relied on.                                               *)
(***************************************************************************)
EXTENDS DevtoolsUpstream

VARIABLES
    pc,     \* where the handler of every client is
    on,     \* upstreamURL
    reason  \* of the cdp_disconnect event

sessionVars == <<pc, on, reason>>
vars == <<upstreamVars, sessionVars>>

Sessions == Subscribers

Init ==
    /\ UpstreamInit
    /\ pc = [c \in Sessions |-> "new"]
    /\ on = [c \in Sessions |-> 0]
    /\ reason = [c \in Sessions |-> "none"]

-----------------------------------------------------------------------------
(* "Subscribe to upstream URL changes so we can tear down stale sessions"  *)
(* comes before Current, so that no announcement falls in between.         *)
Connect(c) ==
    /\ pc[c] = "new"
    /\ pc' = [pc EXCEPT ![c] = "reading"]
    /\ inbox' = Subscribed(c)
    /\ UNCHANGED <<chromeVars, log, tail, tails, current, sending, on, reason>>

ReadCurrent(c) ==
    /\ pc[c] = "reading"
    /\ pc' = [pc EXCEPT ![c] = "dialing"]
    /\ on' = [on EXCEPT ![c] = current]
    /\ UNCHANGED <<upstreamVars, reason>>

Reachable(url) == life = url /\ browser \in {"bound", "serving"}

DialSucceeds(c) ==
    /\ pc[c] = "dialing" /\ Reachable(on[c])
    /\ pc' = [pc EXCEPT ![c] = "pumping"]
    /\ UNCHANGED <<upstreamVars, on, reason>>

DialFails(c) ==
    /\ pc[c] = "dialing" /\ ~(Reachable(on[c]) /\ browser = "serving")
    /\ IF current # on[c]
       THEN on' = [on EXCEPT ![c] = current] /\ UNCHANGED pc
       ELSE pc' = [pc EXCEPT ![c] = "waiting"] /\ UNCHANGED on
    /\ UNCHANGED <<upstreamVars, reason>>

(* Whatever URL arrives, the dial is tried again.                          *)
Retry(c) ==
    /\ pc[c] = "waiting" /\ inbox[c] > 0
    /\ pc' = [pc EXCEPT ![c] = "dialing"]
    /\ on' = [on EXCEPT ![c] = inbox[c]]
    /\ inbox' = Subscribed(c)
    /\ UNCHANGED <<chromeVars, log, tail, tails, current, sending, reason>>

(* No newer URL within five seconds, or the client has gone.               *)
GiveUp(c, why) ==
    /\ pc[c] = "waiting" \/ (pc[c] = "dialing" /\ why = "context_cancelled")
    /\ pc' = [pc EXCEPT ![c] = "closed"]
    /\ reason' = [reason EXCEPT ![c] = why]
    /\ inbox' = Unsubscribed(c)
    /\ UNCHANGED <<chromeVars, log, tail, tails, current, sending, on>>

-----------------------------------------------------------------------------
(* The goroutine that waits for another URL.                               *)
Watch(c) ==
    /\ pc[c] = "pumping" /\ inbox[c] > 0
    /\ inbox' = Subscribed(c)
    /\ pc' = IF inbox[c] = on[c] THEN pc ELSE [pc EXCEPT ![c] = "closing"]
    /\ UNCHANGED <<chromeVars, log, tail, tails, current, sending, on, reason>>

(* The connection to Chromium breaks, which it need not do in time.        *)
UpstreamBreaks(c) ==
    /\ pc[c] = "pumping" /\ ~Reachable(on[c])
    /\ pc' = [pc EXCEPT ![c] = "closing"]
    /\ UNCHANGED <<upstreamVars, on, reason>>

ClientCloses(c) ==
    /\ pc[c] = "pumping"
    /\ pc' = [pc EXCEPT ![c] = "closed"]
    /\ reason' = [reason EXCEPT ![c] = "client_close"]
    /\ inbox' = Unsubscribed(c)
    /\ UNCHANGED <<chromeVars, log, tail, tails, current, sending, on>>

(* resolveDisconnectReason polls Current for another URL, for a while.     *)
Resolve(c) ==
    /\ pc[c] = "closing"
    /\ pc' = [pc EXCEPT ![c] = "closed"]
    /\ reason' = [reason EXCEPT ![c] =
            IF current # on[c] THEN "upstream_changed" ELSE "upstream_error"]
    /\ inbox' = Unsubscribed(c)
    /\ UNCHANGED <<chromeVars, log, tail, tails, current, sending, on>>

SessionStep(c) ==
    \/ ReadCurrent(c) \/ DialSucceeds(c) \/ DialFails(c) \/ Retry(c)
    \/ Watch(c) \/ Resolve(c)

Next ==
    \/ UpstreamNext /\ UNCHANGED sessionVars
    \/ \E c \in Sessions :
        \/ Connect(c) \/ SessionStep(c)
        \/ \E why \in {"upstream_error", "context_cancelled"} : GiveUp(c, why)
        \/ UpstreamBreaks(c) \/ ClientCloses(c)

Fairness ==
    /\ WF_vars(ChromeStep /\ UNCHANGED sessionVars)
    /\ WF_vars(ManagerStep /\ UNCHANGED sessionVars)
    /\ \A c \in Sessions : WF_vars(SessionStep(c))

Spec == Init /\ [][Next]_vars /\ Fairness

-----------------------------------------------------------------------------
(* "Force clients off a stale upstream as soon as UpstreamManager publishes*)
(* a different DevTools URL": no session stays on a URL that is not the    *)
(* current one, whatever was announced while it was being dialled.         *)
StaleSessionsEnd ==
    \A c \in Sessions : []<>(pc[c] = "pumping" => on[c] = current)
=============================================================================

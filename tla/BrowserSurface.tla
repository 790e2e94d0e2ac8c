----------------------------- MODULE BrowserSurface -----------------------------
(***************************************************************************)
(* Windows, tabs, frames and sessions of the browser as a client of        *)
(* DevTools tracks them (lib/browsersurface).  Events are handled in       *)
(* order by one goroutine; answers to commands pass them by, and go to     *)
(* goroutines that attach to a target, initialize a session or list the    *)
(* targets again.  Whatever they find out may be stale when they store it. *)
(***************************************************************************)
EXTENDS Integers, Sequences, FiniteSets

CONSTANTS
    Pages,
    Home,           \* the page that embeds the frame
    Iframe,         \* a frame with a target of its own
    RawWindows,     \* the browser's windows
    MaxSessions,    \* bound on the sessions of a target
    MaxTabs,        \* bound on nextTabID
    MaxRefreshes,   \* bound on RefreshTargets
    MaxTroubles     \* bound on moves between windows and on late or failed answers

(* Chromium numbers its windows from 1.                                    *)
ASSUME SurfaceAssumption ==
    /\ IsFiniteSet(Pages) /\ Home \in Pages /\ Iframe \notin Pages
    /\ RawWindows \subseteq Nat \ {0}
    /\ MaxSessions \in Nat /\ MaxTabs \in Nat

VARIABLES
    alive,      \* the browser: each target: "none", "open", "gone"
    issued,     \* the browser: how many sessions a target has had
    attached, enabled,  \* the browser's sessions; those with Page.enable
    queue,      \* events that are not handled yet
    nextTabID, tabs,    \* tabsByTarget, and the window of each tab
    windows,
    tracking,   \* trackingTarget and trackingNonPageTarget, where true
    sessions, frames,
    attaching,  \* goroutines: attachPage, trackNonPageTarget, updateTarget
    initializing,   \* goroutines: initializeSession
    refresh,    \* RefreshTargets
    stale,      \* the targets it has tracked after they had closed
    refreshes, troubles

targetVars == <<alive, issued, attached, enabled, queue, troubles>>
tabVars == <<nextTabID, tabs, windows>>
trackedVars == <<tabVars, tracking, sessions, frames>>
refreshVars == <<refresh, stale, refreshes>>
goVars == <<attaching, initializing, refreshVars>>
surfaceVars == <<targetVars, trackedVars, goVars>>

Targets == Pages \cup {Iframe}
NoTab == [id |-> 0, window |-> 0]
Session == Targets \X (1..MaxSessions)
Idle == [stage |-> "idle", known |-> {}, listed |-> {}, left |-> {}]

Event(kind, subject) == [kind |-> kind, of |-> subject, on |-> <<Home, 0>>]
Known(s) == sessions[s].stage # "none"
TabIDs == {tabs[p].id : p \in Pages} \ {0}

(* A target may be open before, open later or never come; what the bounds *)
(* allow may be used up.                                                   *)
SurfaceInit ==
    /\ alive \in [Targets -> {"none", "open", "gone"}]
    /\ alive[Iframe] = "open" => alive[Home] = "open"
    /\ attached = {} /\ enabled = {}
    /\ issued = [t \in Targets |-> 0]
    /\ queue = <<>>
    /\ nextTabID = 0 /\ tabs = [p \in Pages |-> NoTab] /\ windows = {}
    /\ tracking = {}
    /\ sessions = [s \in Session |-> [tab |-> 0, stage |-> "none"]]
    /\ frames = [t \in Targets |-> 0]
    /\ attaching = {} /\ initializing = {}
    /\ refresh = Idle /\ stale = {}
    /\ refreshes \in {0, MaxRefreshes} /\ troubles \in {0, MaxTroubles}

-----------------------------------------------------------------------------
(* The browser.                                                            *)
Sends(new) == queue' = queue \o new
Trouble == troubles < MaxTroubles /\ troubles' = troubles + 1
InSomeOrder(S) ==
    {q \in [1..Cardinality(S) -> S] : \A s \in S : \E k \in 1..Cardinality(S) : q[k] = s}
OnHome(kind, f) ==
    {[k \in DOMAIN on |-> [kind |-> kind, of |-> f, on |-> on[k]]] :
        on \in InSomeOrder({s \in enabled : s[1] = Home})}

OpenTarget(t) ==
    /\ alive[t] = "none"
    /\ t = Iframe => alive[Home] = "open"
    /\ alive' = [alive EXCEPT ![t] = "open"]
    /\ \E told \in IF t = Iframe THEN OnHome("added", t) ELSE {<<>>} :
          Sends(told \o <<Event("created", t)>>)
    /\ UNCHANGED <<issued, attached, enabled, troubles, trackedVars, goVars>>

(* A page changes its title, its URL or its window.                        *)
ChangePage(p) ==
    /\ Trouble
    /\ p \in Pages /\ alive[p] = "open"
    /\ Sends(<<Event("changed", p)>>)
    /\ UNCHANGED <<alive, issued, attached, enabled, trackedVars, goVars>>

(* Detached is sent before destroyed; a page takes its frame with it, and  *)
(* the frame goes alone or because the page navigates.                     *)
Farewell(t) ==
    {[k \in DOMAIN left |-> Event("detached", left[k])] \o <<Event("destroyed", t)>> :
        left \in InSomeOrder({s \in attached : s[1] = t})}

CloseTarget(t) ==
    /\ alive[t] = "open"
    /\ LET gone == {t} \cup (IF t = Home /\ alive[Iframe] = "open" THEN {Iframe} ELSE {})
           left == {s \in attached : s[1] \notin gone}
       IN /\ alive' = [u \in Targets |-> IF u \in gone THEN "gone" ELSE alive[u]]
          /\ attached' = left /\ enabled' = enabled \cap left
          /\ \E frame \in IF Iframe \in gone THEN Farewell(Iframe) ELSE {<<>>},
               page \in IF t = Iframe THEN OnHome("removed", t) \cup OnHome("navigated", Home)
                       ELSE Farewell(t) :
                Sends(frame \o page)
    /\ UNCHANGED <<issued, troubles, trackedVars, goVars>>

-----------------------------------------------------------------------------
(* Tabs and windows.                                                       *)
(* bindSessionsLocked: the tab of a target, of its parent or of itself as  *)
(* a frame.                                                                *)
TabFor(t, pages, seen) ==
    IF t \in Pages /\ pages[t].id # 0 THEN pages[t].id
    ELSE IF t = Iframe /\ seen[Home] # 0 THEN seen[Home]
    ELSE seen[t]
Bound(some, pages, seen) ==
    [s \in Session |->
        IF some[s].stage # "none" /\ some[s].tab = 0
        THEN [some[s] EXCEPT !.tab = TabFor(s[1], pages, seen)] ELSE some[s]]

Attaching(t, tab) ==
    [target |-> t, tab |-> tab, stage |-> IF t \in Pages THEN "window" ELSE "attach",
     session |-> <<t, 0>>]

(* registerPage and trackNonPageTarget: attach unless that is under way or *)
(* done.                                                                   *)
Track(t) ==
    /\ LET new == t \in Pages /\ tabs[t].id = 0 IN
        /\ new => nextTabID < MaxTabs
        /\ nextTabID' = IF new THEN nextTabID + 1 ELSE nextTabID
        /\ tabs' = IF new THEN [tabs EXCEPT ![t] = [id |-> nextTabID + 1, window |-> 0]] ELSE tabs
        /\ sessions' = IF t \in Pages THEN Bound(sessions, tabs', frames) ELSE sessions
        /\ attaching' = IF t \in tracking THEN attaching
                        ELSE attaching \cup {Attaching(t, IF t \in Pages THEN tabs'[t].id ELSE 0)}
    /\ tracking' = tracking \cup {t}
    /\ UNCHANGED <<windows, frames>>

(* A window lives as long as it has a tab (removeEmptyWindowLocked).       *)
Kept(all, pages, raw) ==
    IF \E p \in Pages : pages[p].id # 0 /\ pages[p].window = raw THEN all ELSE all \ {raw}

AssignWindow(p, raw) ==
    IF tabs[p].id = 0 THEN UNCHANGED tabVars
    ELSE /\ tabs' = [tabs EXCEPT ![p].window = raw]
         /\ windows' = LET old == tabs[p].window IN
                       IF old = raw THEN windows \cup {raw}
                       ELSE Kept(windows \cup {raw}, tabs', old)
         /\ UNCHANGED nextTabID

-----------------------------------------------------------------------------
(* Sessions.                                                               *)
(* removeSessionLocked                                                     *)
RemoveSessions(gone) ==
    LET them == {s \in gone : Known(s)} IN
    /\ sessions' = [s \in Session |-> IF s \in them THEN [tab |-> 0, stage |-> "none"] ELSE sessions[s]]
    /\ tracking' = tracking \ {s[1] : s \in them}

AddSession(s) ==
    IF Known(s) THEN UNCHANGED <<sessions, initializing>>
    ELSE /\ sessions' = Bound([sessions EXCEPT ![s] = [tab |-> 0, stage |-> "new"]], tabs, frames)
         /\ initializing' = initializing \cup {[session |-> s, stage |-> "waiting", tab |-> 0]}

(* removeTarget, removeTabLocked                                           *)
RemoveTarget(t) ==
    IF t \in Pages /\ tabs[t].id # 0
    THEN LET id == tabs[t].id
             them == {s \in Session : Known(s) /\ sessions[s].tab = id}
         IN /\ sessions' = [s \in Session |->
                              IF s \in them THEN [tab |-> 0, stage |-> "none"] ELSE sessions[s]]
            /\ tracking' = tracking \ ({s[1] : s \in them} \cup {t})
            /\ frames' = [f \in Targets |-> IF frames[f] = id THEN 0 ELSE frames[f]]
            /\ tabs' = [tabs EXCEPT ![t] = NoTab]
            /\ windows' = Kept(windows, tabs', tabs[t].window)
            /\ UNCHANGED nextTabID
    ELSE /\ sessions' = [s \in Session |-> IF s[1] = t THEN [tab |-> 0, stage |-> "none"] ELSE sessions[s]]
         /\ tracking' = tracking \ {u \in {t} : u = Iframe \/ \E s \in Session : s[1] = t /\ Known(s)}
         /\ UNCHANGED <<tabVars, frames>>

(* updateTarget: a known page is asked for its window again.               *)
Update(p) ==
    IF tabs[p].id = 0 THEN Track(p)
    ELSE /\ attaching' = attaching \cup {[Attaching(p, tabs[p].id) EXCEPT !.stage = "look"]}
         /\ UNCHANGED trackedVars

(* attachFrame and navigateFrame ignore a session without a tab.           *)
FrameMoves(e) ==
    /\ frames' = LET tab == sessions[e.on].tab IN
                 IF tab = 0 THEN frames
                 ELSE [f \in Targets |->
                         IF f = e.of THEN tab
                         ELSE IF e.kind = "navigated" /\ f = Iframe THEN 0
                         ELSE frames[f]]
    /\ sessions' = IF e.kind = "added" THEN Bound(sessions, tabs, frames') ELSE sessions

(* handleProtocolEvent                                                     *)
Handle ==
    /\ queue # <<>>
    /\ queue' = Tail(queue)
    /\ LET e == Head(queue) IN
       \/ e.kind = "created" /\ Track(e.of) /\ UNCHANGED initializing
       \/ e.kind = "changed" /\ Update(e.of) /\ UNCHANGED initializing
       \/ e.kind = "destroyed" /\ RemoveTarget(e.of) /\ UNCHANGED <<attaching, initializing>>
       \/ /\ e.kind = "attached" /\ AddSession(e.of)
          /\ UNCHANGED <<tabVars, tracking, frames, attaching>>
       \/ /\ e.kind = "detached" /\ RemoveSessions({e.of})
          /\ UNCHANGED <<tabVars, frames, attaching, initializing>>
       \/ /\ e.kind = "removed"
          /\ frames' = [frames EXCEPT ![e.of] = 0]
          /\ UNCHANGED <<tabVars, tracking, sessions, attaching, initializing>>
       \/ /\ e.kind \in {"added", "navigated"} /\ FrameMoves(e)
          /\ UNCHANGED <<tabVars, tracking, attaching, initializing>>
    /\ UNCHANGED <<alive, issued, attached, enabled, troubles, refreshVars>>

-----------------------------------------------------------------------------
(* attachPage and attachTarget.                                            *)
MoveOn(g, to) == attaching' = (attaching \ {g}) \cup {to}

FindWindow(g) ==
    /\ g.stage = "window"
    /\ \/ \E raw \in RawWindows : alive[g.target] = "open" /\ AssignWindow(g.target, raw)
       \/ IF tabs[g.target].window # 0 THEN UNCHANGED tabVars
          ELSE AssignWindow(g.target, -g.tab)
    /\ MoveOn(g, [g EXCEPT !.stage = "attach"])
    /\ UNCHANGED <<targetVars, tracking, sessions, frames, initializing, refreshVars>>

LookAgain(g) ==
    /\ g.stage = "look"
    /\ \/ \E raw \in RawWindows : alive[g.target] = "open" /\ AssignWindow(g.target, raw)
       \/ UNCHANGED tabVars
    /\ attaching' = attaching \ {g}
    /\ UNCHANGED <<targetVars, tracking, sessions, frames, initializing, refreshVars>>

(* The browser attaches if the target is there; the answer may come after  *)
(* the deadline.                                                           *)
Attach(g) ==
    /\ g.stage = "attach"
    /\ LET s == <<g.target, issued[g.target] + 1>> IN
       \/ /\ alive[g.target] = "open" /\ s \in Session
          /\ issued' = [issued EXCEPT ![g.target] = @ + 1]
          /\ attached' = attached \cup {s}
          /\ Sends(<<Event("attached", s)>>)
          /\ \/ MoveOn(g, [g EXCEPT !.stage = "answered", !.session = s]) /\ UNCHANGED troubles
             \/ MoveOn(g, [g EXCEPT !.stage = "failed"]) /\ Trouble
       \/ /\ alive[g.target] # "open" /\ MoveOn(g, [g EXCEPT !.stage = "failed"])
          /\ UNCHANGED <<issued, attached, queue, troubles>>
       \/ /\ MoveOn(g, [g EXCEPT !.stage = "failed"]) /\ Trouble
          /\ UNCHANGED <<issued, attached, queue>>
    /\ UNCHANGED <<alive, enabled, trackedVars, initializing, refreshVars>>

Answered(g) ==
    /\ g.stage = "answered"
    /\ AddSession(g.session)
    /\ MoveOn(g, [g EXCEPT !.stage = "check"])
    /\ UNCHANGED <<targetVars, tabVars, tracking, frames, refreshVars>>

(* Mutant of Tracked: attachTarget does not look again.                    *)
TrackedOnce(t) == TRUE

Tracked(t) == t \in tracking

(* "The target can close while the attach command is in flight."           *)
CheckTracked(g) ==
    /\ g.stage = "check"
    /\ IF Tracked(g.target) THEN UNCHANGED trackedVars
       ELSE RemoveSessions({g.session}) /\ UNCHANGED <<tabVars, frames>>
    /\ attaching' = attaching \ {g}
    /\ UNCHANGED <<targetVars, initializing, refreshVars>>

AttachFails(g) ==
    /\ g.stage = "failed"
    /\ tracking' = IF g.target = Iframe \/ tabs[g.target].id = g.tab THEN tracking \ {g.target} ELSE tracking
    /\ attaching' = attaching \ {g}
    /\ UNCHANGED <<targetVars, tabVars, sessions, frames, initializing, refreshVars>>

-----------------------------------------------------------------------------
(* initializeSession: it waits for a tab, asks for the frames, and adds    *)
(* them to the tab it has found.                                           *)
Replace(i, some) == initializing' = (initializing \ {i}) \cup some

FindTab(i) ==
    /\ i.stage = "waiting"
    /\ LET now == Bound(sessions, tabs, frames)
           s == i.session
       IN \/ /\ now[s].stage # "new" /\ Replace(i, {})
             /\ sessions' = now /\ UNCHANGED <<tracking, frames>>
          \/ /\ now[s].stage = "new" /\ now[s].tab # 0
             /\ sessions' = [now EXCEPT ![s].stage = "initializing"]
             /\ Replace(i, {[i EXCEPT !.stage = "asking", !.tab = now[s].tab]})
             /\ UNCHANGED <<tracking, frames>>
          \/ /\ now[s].stage = "new" /\ now[s].tab = 0
             /\ RemoveSessions({s}) /\ Replace(i, {}) /\ UNCHANGED frames
    /\ UNCHANGED <<targetVars, tabVars, attaching, refreshVars>>

AskFrames(i) ==
    /\ i.stage = "asking"
    /\ \/ ~Known(i.session) /\ Replace(i, {}) /\ UNCHANGED enabled
       \/ /\ Known(i.session) /\ i.session \in attached
          /\ enabled' = enabled \cup {i.session}
          /\ Replace(i, {[i EXCEPT !.stage = "told"]})
    /\ UNCHANGED <<alive, issued, attached, queue, troubles, trackedVars, attaching, refreshVars>>

(* failSessionInitialization: the session is removed, and the browser told *)
(* to detach it.                                                           *)
AskFails(i) ==
    /\ i.stage = "asking" /\ Known(i.session)
    /\ IF i.session \in attached THEN Trouble ELSE UNCHANGED troubles
    /\ RemoveSessions({i.session})
    /\ attached' = attached \ {i.session} /\ enabled' = enabled \ {i.session}
    /\ Sends(IF i.session \in attached THEN <<Event("detached", i.session)>> ELSE <<>>)
    /\ Replace(i, {})
    /\ UNCHANGED <<alive, issued, tabVars, frames, attaching, refreshVars>>

AddFrames(i) ==
    /\ i.stage = "told"
    /\ IF Known(i.session)
       THEN /\ frames' = [frames EXCEPT ![i.session[1]] = i.tab]
            /\ sessions' = Bound([sessions EXCEPT ![i.session].stage = "ready"], tabs, frames')
       ELSE UNCHANGED <<frames, sessions>>
    /\ Replace(i, {})
    /\ UNCHANGED <<targetVars, tabVars, tracking, attaching, refreshVars>>

-----------------------------------------------------------------------------
(* RefreshTargets: the targets that were known before the list was asked   *)
(* for, and are not in it, are removed.                                    *)
RefreshTargets ==
    /\ refresh.stage = "idle" /\ refreshes < MaxRefreshes
    /\ refreshes' = refreshes + 1
    /\ refresh' = [Idle EXCEPT !.stage = "asking",
                       !.known = {p \in Pages : tabs[p].id # 0} \cup (tracking \cap {Iframe})]
    /\ UNCHANGED <<targetVars, trackedVars, attaching, initializing, stale>>

ListTargets ==
    /\ refresh.stage = "asking"
    /\ LET listed == {t \in Targets : alive[t] = "open"} IN
        refresh' = [refresh EXCEPT !.stage = "tracking", !.listed = listed, !.left = listed]
    /\ UNCHANGED <<targetVars, trackedVars, attaching, initializing, stale, refreshes>>

TrackListed ==
    /\ refresh.stage = "tracking"
    /\ \/ \E t \in refresh.left :
            /\ Track(t)
            /\ refresh' = [refresh EXCEPT !.left = @ \ {t}]
            /\ stale' = IF alive[t] = "gone" THEN stale \cup {t} ELSE stale
       \/ /\ refresh.left = {}
          /\ refresh' = [refresh EXCEPT !.stage = "removing", !.left = refresh.known \ refresh.listed]
          /\ UNCHANGED <<trackedVars, attaching, stale>>
    /\ UNCHANGED <<targetVars, initializing, refreshes>>

RemoveUnlisted ==
    /\ refresh.stage = "removing"
    /\ \/ \E t \in refresh.left :
            /\ RemoveTarget(t)
            /\ refresh' = [refresh EXCEPT !.left = @ \ {t}]
       \/ /\ refresh.left = {}
          /\ refresh' = Idle
          /\ UNCHANGED trackedVars
    /\ UNCHANGED <<targetVars, attaching, initializing, stale, refreshes>>

-----------------------------------------------------------------------------
BrowserStep ==
    \E t \in Targets : OpenTarget(t) \/ CloseTarget(t) \/ ChangePage(t)

SurfaceNext ==
    \/ BrowserStep \/ Handle
    \/ \E g \in attaching : FindWindow(g) \/ LookAgain(g) \/ Attach(g) \/ Answered(g)
                               \/ CheckTracked(g) \/ AttachFails(g)
    \/ \E i \in initializing : FindTab(i) \/ AskFrames(i) \/ AskFails(i) \/ AddFrames(i)
    \/ RefreshTargets \/ ListTargets \/ TrackListed \/ RemoveUnlisted

SurfaceSpec == SurfaceInit /\ [][SurfaceNext]_surfaceVars

-----------------------------------------------------------------------------
AllHandled == queue = <<>> /\ attaching = {} /\ initializing = {} /\ refresh = Idle

(* Every tab with a window has one that is known, and no window outlives   *)
(* its last tab, in whatever order tabs move, close and are found.         *)
WindowsAreUsed ==
    /\ \A p \in Pages : tabs[p].window # 0 => tabs[p].window \in windows
    /\ \A raw \in windows : \E p \in Pages : tabs[p].window = raw

(* Once everything has been handled, no session is left of a target that   *)
(* has gone, although it was attached to while it went (attachTarget), and *)
(* every session is in a tab that is there.  Not so for a target that went *)
(* before RefreshTargets got to its entry in the list: that one is tracked *)
(* as if it had just been opened.                                          *)
GoneIsForgotten ==
    AllHandled => \A s \in Session : Known(s) /\ s[1] \notin stale =>
        alive[s[1]] = "open" /\ sessions[s].tab \in TabIDs

(* What is known of the browser is true once every event is handled, and   *)
(* no window is kept without a tab at any time.                            *)
SurfaceSettles == GoneIsForgotten /\ WindowsAreUsed
=============================================================================

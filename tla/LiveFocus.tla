------------------------------ MODULE LiveFocus ------------------------------
(***************************************************************************)
(* Which field of the browser has the focus, as the live view is told      *)
(* (lib/livefocus).  While there are subscribers, and for a while after, a *)
(* run keeps a connection to the browser; on it, one goroutine per frame   *)
(* polls a watcher in the page, and a goroutine per session looks for new  *)
(* frames.  Each merges what all of them know and publishes it.            *)
(*                                                                         *)
(* A state is the frame whose field is focused, or None.  One page is      *)
(* modelled, and its frames share its session.                             *)
(***************************************************************************)
EXTENDS Naturals, FiniteSets

CONSTANTS
    Clients,        \* live views
    Inner,          \* frames that the page may embed
    MaxRuns,        \* bounds the runs of the watcher
    MaxTimers,      \* bounds the timers, and with them who subscribes again
    MaxChanges,     \* bounds the changes of the page
    MaxLosses       \* bounds the connections that are lost

ASSUME FocusAssumption ==
    /\ IsFiniteSet(Inner) /\ {"none", "top", "nothing"} \cap Inner = {}
    /\ {MaxRuns, MaxTimers, MaxChanges, MaxLosses} \subseteq Nat

VARIABLES
    exists, focus,  \* the browser: the frames of the page, the focused one
    dirty,          \* the browser: frames that have changed since their report
    subs,           \* subs: who is subscribed
    channel, shown, \* per client, what its channel holds, and what it got last
    latest,
    run,            \* the current run, 0 for none
    runs,           \* runs so far
    runStage,          \* per run, how far its goroutine is
    conn,           \* w.conn: whose connection, 0 for none
    timer,          \* lingerTimer, 0 for none
    timers,         \* timers so far
    armed, expired, \* timers that run; those whose callback waits for the mutex
    closed,
    poller,         \* the connection of the run: per frame, its goroutine
    known,          \* what it holds: a report with the focus, or not
    newer,          \* per frame, those whose last report is newer (seq)
    counted,        \* per frame, the frames of its last report, itself included
    emits,          \* per frame, the state its goroutine has taken to publish
    scan,           \* the goroutine that looks for frames
    draining,       \* states taken on connections that have ended since
    missed,         \* history: frames have changed and their number has not,
                    \*   or could not be asked for, since they last were
    changes, losses

None == "none"
Top == "top"
Frames == Inner \cup {Top}
Runs == 1..MaxRuns
Nothing == "nothing"
NoScan == [at |-> "no", again |-> FALSE, tree |-> {}]

browserVars == <<exists, focus, dirty, changes>>
clientVars == <<subs, channel, shown>>
timerVars == <<timer, timers, armed, expired>>
runVars == <<run, runs, runStage, conn, losses>>
frameVars == <<poller, known, newer, counted, missed>>
linkVars == <<frameVars, emits, scan>>
focusVars == <<browserVars, clientVars, latest, timerVars, runVars, closed, linkVars,
               draining>>

NoLink ==
    /\ poller' = [f \in Frames |-> "none"] /\ known' = [f \in Frames |-> FALSE]
    /\ newer' = [f \in Frames |-> {}] /\ counted' = [f \in Frames |-> {}] /\ missed' = FALSE
    /\ emits' = [f \in Frames |-> Nothing] /\ scan' = NoScan

(* What the bounds allow may be used up.                                   *)
FocusInit ==
    /\ exists \in {{Top} \cup within : within \in SUBSET Inner}
    /\ focus \in {None, Top} /\ dirty = Frames
    /\ subs = {}
    /\ channel = [c \in Clients |-> Nothing] /\ shown = [c \in Clients |-> Nothing]
    /\ latest = None
    /\ run = 0 /\ runs = 0 /\ runStage = [r \in Runs |-> "none"] /\ conn = 0
    /\ timer = 0 /\ timers \in {0, MaxTimers} /\ armed = {} /\ expired = {}
    /\ closed = FALSE
    /\ poller = [f \in Frames |-> "none"] /\ known = [f \in Frames |-> FALSE]
    /\ newer = [f \in Frames |-> {}] /\ counted = [f \in Frames |-> {}] /\ missed = FALSE
    /\ emits = [f \in Frames |-> Nothing] /\ scan = NoScan /\ draining = {}
    /\ changes \in 0..MaxChanges /\ losses \in {0, MaxLosses}

-----------------------------------------------------------------------------
(* The page.                                                               *)
Change == changes < MaxChanges /\ changes' = changes + 1

MoveFocus(f) ==
    /\ Change /\ f \in (exists \cup {None}) \ {focus}
    /\ focus' = f /\ dirty' = dirty \cup ({f, focus} \ {None})
    /\ UNCHANGED <<exists, clientVars, latest, timerVars, runVars, closed, linkVars,
                   draining>>

(* A frame that comes back is another frame: one that nobody remembers.    *)
AddFrame(f) ==
    /\ Change /\ f \in Inner \ (exists \cup scan.tree \cup counted[Top]) /\ poller[f] = "none"
    /\ exists' = exists \cup {f} /\ dirty' = dirty \cup {f, Top}
    /\ UNCHANGED <<focus, clientVars, latest, timerVars, runVars, closed, linkVars, draining>>

RemoveFrame(f) ==
    /\ Change /\ f \in Inner \cap exists
    /\ exists' = exists \ {f} /\ dirty' = dirty \cup {Top}
    /\ focus' = IF focus = f THEN None ELSE focus
    /\ UNCHANGED <<clientVars, latest, timerVars, runVars, closed, linkVars, draining>>

-----------------------------------------------------------------------------
(* Subscribers and the linger timer.                                       *)
Subscribe(c) ==
    /\ c \notin subs /\ (timers < MaxTimers \/ runs = 0)
    /\ subs' = subs \cup {c}
    /\ channel' = [channel EXCEPT ![c] = latest]
    /\ timer' = 0 /\ armed' = armed \ {timer}
    /\ IF run = 0 /\ ~closed
       THEN /\ runs < MaxRuns
            /\ runs' = runs + 1 /\ run' = runs' /\ runStage' = [runStage EXCEPT ![runs'] = "idle"]
       ELSE UNCHANGED <<run, runs, runStage>>
    /\ UNCHANGED <<browserVars, shown, latest, timers, expired, conn, losses, closed,
                   linkVars, draining>>

(* ServeHTTP.                                                              *)
Receive(c) ==
    /\ c \in subs /\ channel[c] # Nothing
    /\ shown' = [shown EXCEPT ![c] = channel[c]]
    /\ channel' = [channel EXCEPT ![c] = Nothing]
    /\ UNCHANGED <<browserVars, subs, latest, timerVars, runVars, closed, linkVars, draining>>

Unsubscribe(c) ==
    /\ c \in subs
    /\ subs' = subs \ {c}
    /\ channel' = [channel EXCEPT ![c] = Nothing] /\ shown' = [shown EXCEPT ![c] = Nothing]
    /\ IF subs' # {} \/ run = 0 THEN UNCHANGED timerVars
       ELSE /\ timers' = timers + 1 /\ timer' = timers' /\ armed' = armed \cup {timer'}
            /\ UNCHANGED expired
    /\ UNCHANGED <<browserVars, latest, runVars, closed, linkVars, draining>>

Expire(t) ==
    /\ t \in armed
    /\ armed' = armed \ {t} /\ expired' = expired \cup {t}
    /\ UNCHANGED <<browserVars, clientVars, latest, timer, timers, runVars, closed, linkVars,
                   draining>>

(* stopLocked: the contexts of the run and of its connection end.          *)
Taken == {emits[f] : f \in Frames} \ {Nothing}

StopRun ==
    IF run = 0 THEN UNCHANGED <<run, latest, linkVars, draining>>
    ELSE /\ run' = 0 /\ latest' = None
         /\ NoLink /\ draining' = draining \cup Taken

(* Mutant of StillMeant: whichever timer it is.                            *)
StillMeantAny(t) == TRUE

StillMeant(t) == timer = t

Linger(t) ==
    /\ t \in expired /\ expired' = expired \ {t}
    /\ IF StillMeant(t) THEN timer' = 0 /\ StopRun
       ELSE UNCHANGED <<timer, run, latest, linkVars, draining>>
    /\ UNCHANGED <<browserVars, clientVars, timers, armed, runs, runStage, conn, losses, closed>>

Close ==
    /\ ~closed /\ closed' = TRUE
    /\ timer' = 0 /\ armed' = armed \ {timer}
    /\ StopRun
    /\ UNCHANGED <<browserVars, clientVars, timers, expired, runs, runStage, conn, losses>>

-----------------------------------------------------------------------------
(* A run.  Its context has ended once it is not the current one.           *)
Goes(r, from, to) == runStage[r] = from /\ runStage' = [runStage EXCEPT ![r] = to]

Dial(r) ==
    /\ r = run /\ Goes(r, "idle", "dialing")
    /\ UNCHANGED <<browserVars, clientVars, latest, timerVars, run, runs, conn, losses,
                   closed, linkVars, draining>>

Quit(r) ==
    /\ r # run /\ Goes(r, "idle", "over")
    /\ UNCHANGED <<browserVars, clientVars, latest, timerVars, run, runs, conn, losses,
                   closed, linkVars, draining>>

(* A dial may succeed, or fail, although the run has been replaced.        *)
Connect(r) ==
    /\ Goes(r, "dialing", "on")
    /\ conn' = r
    /\ IF r = run
       THEN scan' = [NoScan EXCEPT !.at = "asked"] /\ UNCHANGED <<frameVars, emits>>
       ELSE UNCHANGED linkVars
    /\ UNCHANGED <<browserVars, clientVars, latest, timerVars, run, runs, losses, closed,
                   draining>>

DialFails(r) ==
    /\ Goes(r, "dialing", "ended")
    /\ (r = run) => losses < MaxLosses
    /\ losses' = IF r = run THEN losses + 1 ELSE losses
    /\ UNCHANGED <<browserVars, clientVars, latest, timerVars, run, runs, conn, closed,
                   linkVars, draining>>

(* The connection is lost, or the context has ended.  Either ends the      *)
(* connection's context.                                                   *)
Disconnect(r) ==
    /\ Goes(r, "on", "ended")
    /\ conn' = IF conn = r THEN 0 ELSE conn
    /\ IF r = run
       THEN /\ losses < MaxLosses /\ losses' = losses + 1
            /\ NoLink /\ draining' = draining \cup Taken
       ELSE UNCHANGED <<losses, linkVars, draining>>
    /\ UNCHANGED <<browserVars, clientVars, latest, timerVars, run, runs, closed>>

(* Mutant of Publish: a channel that is full keeps what is in it.          *)
PublishIfRoom(state, live) ==
    IF ~live \/ state = latest THEN UNCHANGED <<latest, channel>>
    ELSE /\ latest' = state
         /\ channel' = [c \in Clients |->
                       IF c \in subs /\ channel[c] = Nothing THEN state ELSE channel[c]]

(* publish, where `live` is that the context has not ended.                *)
Publish(state, live) ==
    IF ~live \/ state = latest THEN UNCHANGED <<latest, channel>>
    ELSE /\ latest' = state
         /\ channel' = [c \in Clients |-> IF c \in subs THEN state ELSE channel[c]]

(* The empty state, unless the run has ended.                              *)
Reset(r) ==
    /\ Goes(r, "ended", IF r = run THEN "idle" ELSE "over")
    /\ Publish(None, r = run)
    /\ UNCHANGED <<browserVars, subs, shown, timerVars, run, runs, conn, losses, closed,
                   linkVars, draining>>

(* Mutant of Drained: the context of the connection is not looked at.      *)
DrainedAnyway(s) == Publish(s, run # 0)

(* The goroutine of a frame publishes after its connection has ended.      *)
Drained(s) == Publish(s, FALSE)

Drain(s) ==
    /\ s \in draining /\ draining' = draining \ {s}
    /\ Drained(s)
    /\ UNCHANGED <<browserVars, subs, shown, timerVars, runVars, closed, linkVars>>

-----------------------------------------------------------------------------
(* The connection of the current run, while it is on.                      *)
On == run # 0 /\ runStage[run] = "on"

(* scan, of which one runs at a time.                                      *)
Scanned ==
    scan' = IF scan.at = "no" THEN [scan EXCEPT !.at = "asked"]
            ELSE [scan EXCEPT !.again = TRUE]

FrameTree ==
    /\ On /\ scan.at = "asked"
    /\ scan' = [scan EXCEPT !.at = "walk", !.tree = exists]
    /\ missed' = FALSE
    /\ UNCHANGED <<browserVars, clientVars, latest, timerVars, runVars, closed, poller, known,
                   newer, counted, emits, draining>>

(* Mutant of AfterWalk: what was asked for meanwhile is forgotten.         *)
AfterWalkDone == NoScan

AfterWalk == IF scan.again THEN [NoScan EXCEPT !.at = "asked"] ELSE NoScan

(* The browser answers with an error, or not in time: the scan is over, as *)
(* if it had found nothing.                                                *)
ScanFails ==
    /\ On /\ scan.at = "asked"
    /\ scan' = AfterWalk
    /\ missed' = TRUE
    /\ UNCHANGED <<browserVars, clientVars, latest, timerVars, runVars, closed, poller, known,
                   newer, counted, emits, draining>>

WatchFrames ==
    /\ On /\ scan.at = "walk"
    /\ poller' = [f \in Frames |->
                    IF f \in scan.tree /\ poller[f] = "none" THEN "inject" ELSE poller[f]]
    /\ scan' = AfterWalk
    /\ UNCHANGED <<browserVars, clientVars, latest, timerVars, runVars, closed, known,
                   newer, counted, missed, emits, draining>>

(* pollFrame.                                                              *)
Polls(f, from, to) == On /\ poller[f] = from /\ poller' = [poller EXCEPT ![f] = to]

(* A frame that fails is given up once it is gone.                         *)
Inject(f) ==
    /\ Polls(f, "inject", IF f \in exists THEN "poll" ELSE "leave")
    /\ dirty' = dirty \cup {f}
    /\ counted' = [counted EXCEPT ![f] = {}]
    /\ IF f \in exists THEN UNCHANGED <<known, newer>>
       ELSE /\ known' = [known EXCEPT ![f] = FALSE]
            /\ newer' = [g \in Frames |-> IF g = f THEN {} ELSE newer[g] \ {f}]
    /\ UNCHANGED <<exists, focus, changes, clientVars, latest, timerVars, runVars, closed,
                   missed, emits, scan, draining>>

(* The watcher answers when something has changed, or its document goes.   *)
(* Either becomes the newest report; only the number of frames in it is    *)
(* compared with the one before.                                           *)
Embedded(f) == IF f = Top THEN exists ELSE {f}

SameNumber(f) == Cardinality(counted[f]) = Cardinality(Embedded(f))

Report(f) ==
    /\ f \in dirty \/ f \notin exists
    /\ Polls(f, "poll", CASE f \notin exists -> "lost"
                          [] f \in exists /\ SameNumber(f) -> "emit"
                          [] OTHER -> "emitScan")
    /\ dirty' = dirty \ {f}
    /\ known' = [known EXCEPT ![f] = (f = focus)]
    /\ newer' = [g \in Frames |-> IF g = f THEN {} ELSE newer[g] \cup {f}]
    /\ counted' = [counted EXCEPT ![f] = Embedded(f)]
    /\ missed' = (missed \/ (SameNumber(f) /\ counted[f] # Embedded(f)))
    /\ UNCHANGED <<exists, focus, changes, clientVars, latest, timerVars, runVars, closed,
                   emits, scan, draining>>

(* merge: the newest report with a focused field.                          *)
Focused == {f \in Frames : known[f]}

Merged ==
    IF Focused = {} THEN None ELSE CHOOSE f \in Focused : newer[f] \cap Focused = {}

(* Mutant of EmitMuIsFree: every goroutine publishes when it likes.        *)
EmitMuIsOpen == TRUE

EmitMuIsFree == Taken = {}

(* emit: a state is taken and published under emitMu.                      *)
Take(f) ==
    /\ On /\ poller[f] \in {"emit", "emitScan", "lost", "leave"} /\ emits[f] = Nothing
    /\ EmitMuIsFree
    /\ emits' = [emits EXCEPT ![f] = Merged]
    /\ UNCHANGED <<browserVars, clientVars, latest, timerVars, runVars, closed, frameVars,
                   scan, draining>>

AfterEmit(f) ==
    CASE poller[f] = "emit" -> "poll"
      [] poller[f] = "emitScan" -> "scan"
      [] poller[f] = "lost" -> "inject"
      [] poller[f] = "leave" -> "none"

Emit(f) ==
    /\ On /\ emits[f] # Nothing
    /\ Publish(emits[f], TRUE)
    /\ emits' = [emits EXCEPT ![f] = Nothing]
    /\ poller' = [poller EXCEPT ![f] = AfterEmit(f)]
    /\ UNCHANGED <<browserVars, subs, shown, timerVars, runVars, closed, known, newer,
                   counted, missed, scan, draining>>

AskScan(f) ==
    /\ Polls(f, "scan", "poll")
    /\ Scanned
    /\ UNCHANGED <<browserVars, clientVars, latest, timerVars, runVars, closed, known,
                   newer, counted, missed, emits, draining>>

FocusNext ==
    \/ \E f \in Frames \cup {None} : MoveFocus(f)
    \/ \E f \in Inner : AddFrame(f) \/ RemoveFrame(f)
    \/ \E c \in Clients : Subscribe(c) \/ Receive(c) \/ Unsubscribe(c)
    \/ \E t \in 1..timers : Expire(t) \/ Linger(t)
    \/ Close
    \/ \E r \in Runs : Dial(r) \/ Quit(r) \/ Connect(r) \/ DialFails(r) \/ Disconnect(r) \/ Reset(r)
    \/ \E s \in draining : Drain(s)
    \/ FrameTree \/ ScanFails \/ WatchFrames
    \/ \E f \in Frames : Inject(f) \/ Report(f) \/ Take(f) \/ Emit(f) \/ AskScan(f)

FocusSpec == FocusInit /\ [][FocusNext]_focusVars

-----------------------------------------------------------------------------
(* The browser is watched while somebody is subscribed, and for as long as *)
(* the linger timer will stop it otherwise.                                *)
WatchedWhileSubscribed ==
    /\ subs # {} /\ ~closed => run # 0
    /\ run # 0 => subs # {} \/ timer # 0

(* What is shown is what the browser says now, over the connection there   *)
(* is: nothing before it is made and once its end has been published.      *)
LatestIsLive == latest # None => run # 0 /\ runStage[run] \in {"on", "ended"}

(* A subscriber has the newest state, or will be given it.                 *)
NewestReaches ==
    ~closed => \A c \in subs : latest = IF channel[c] = Nothing THEN shown[c] ELSE channel[c]

(* Once all that changed has been reported, the state is the truth about   *)
(* the frames that are watched, and every frame is.  Two things leave a    *)
(* frame unwatched until its page is scanned again: frames that changed    *)
(* places between two reports of the page, since only their number is      *)
(* looked at, and a scan that failed, since nothing repeats it.  The focus *)
(* in such a frame is told as none.                                        *)
Quiet ==
    /\ On /\ scan = NoScan /\ Taken = {}
    /\ \A f \in Frames : \/ poller[f] = "none"
                         \/ poller[f] = "poll" /\ f \in exists \ dirty

Watched == {f \in Frames : poller[f] = "poll"}

SettledIsTrue ==
    Quiet =>
      /\ latest = IF focus \in Watched THEN focus ELSE None
      /\ ~missed => Watched = exists

(* A live view that is connected is shown which of the watched fields has  *)
(* the focus.                                                              *)
FocusIsTrue == WatchedWhileSubscribed /\ LatestIsLive /\ NewestReaches /\ SettledIsTrue
=============================================================================

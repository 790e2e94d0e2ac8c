---------------------------- MODULE DevtoolsUpstream ----------------------------
(***************************************************************************)
(* Chromium under supervisord, and UpstreamManager (lib/devtoolsproxy),    *)
(* which tails the log Chromium announces its DevTools URL in.  Every      *)
(* launch is a new life with a URL of its own; a URL is the number of the  *)
(* life.  When the tail is restarted it reads the log from the start       *)
(* (`tail -n +1`), and announces the URLs of earlier lives again.          *)
(***************************************************************************)
EXTENDS Integers, Sequences

CONSTANTS
    Subscribers,    \* those that may call Subscribe
    MaxLives,       \* bounds the launches of Chromium
    MaxTails        \* bounds the restarts of the tail

VARIABLES
    sup,        \* what supervisord is to do: "RUNNING" restarts what exits
    life,       \* the latest life
    browser,    \* its process: "none", "starting", "bound": the listener
                \* accepts connections, "serving": it answers CDP
    log,        \* the URLs announced, in order
    tail, tails,    \* what the tail has read; how often it was restarted
    current,    \* u.currentURL, or 0
    sending,    \* stored by setCurrent and not broadcast yet, or 0
    inbox       \* the channel of every subscriber: 0 empty, -1 none

chromeVars == <<sup, life, browser>>
managerVars == <<log, tail, tails, current, sending, inbox>>
upstreamVars == <<chromeVars, managerVars>>

UpstreamTypeOK ==
    /\ sup \in {"RUNNING", "STOPPED"}
    /\ life \in 0..MaxLives
    /\ browser \in {"none", "starting", "bound", "serving"}
    /\ log \in Seq(1..MaxLives)
    /\ tail \in 0..Len(log) /\ tails \in 0..MaxTails
    /\ current \in 0..life /\ sending \in 0..life
    /\ inbox \in [Subscribers -> -1..life]

UpstreamInit ==
    /\ sup = "RUNNING" /\ life = 1 /\ browser = "serving"
    /\ log = <<1>> /\ tail = 1 /\ tails = 0
    /\ current = 1 /\ sending = 0
    /\ inbox = [s \in Subscribers |-> -1]

-----------------------------------------------------------------------------
Launch ==
    /\ life < MaxLives
    /\ life' = life + 1
    /\ browser' = "starting"

(* The program exits, or is killed, and supervisord launches it again.     *)
Crash ==
    /\ browser # "none" /\ sup = "RUNNING" /\ life < MaxLives
    /\ browser' = "none"
    /\ UNCHANGED <<sup, life, managerVars>>

Autorestart ==
    /\ sup = "RUNNING" /\ browser = "none"
    /\ Launch
    /\ UNCHANGED <<sup, managerVars>>

(* "DevTools listening on ws://..."                                        *)
Announce ==
    /\ browser = "starting"
    /\ browser' = "bound"
    /\ log' = Append(log, life)
    /\ UNCHANGED <<sup, life, tail, tails, current, sending, inbox>>

Serve ==
    /\ browser = "bound"
    /\ browser' = "serving"
    /\ UNCHANGED <<sup, life, managerVars>>

-----------------------------------------------------------------------------
(* runTailOnce reads a line; setCurrent stores the URL and broadcasts it.  *)
ReadLine ==
    /\ sending = 0 /\ tail < Len(log)
    /\ tail' = tail + 1
    /\ current' = log[tail + 1]
    /\ sending' = IF current' # current THEN current' ELSE 0
    /\ UNCHANGED <<chromeVars, log, tails, inbox>>

TailRestarts ==
    /\ sending = 0 /\ tails < MaxTails /\ tail > 0
    /\ tails' = tails + 1
    /\ tail' = 0
    /\ UNCHANGED <<chromeVars, log, current, sending, inbox>>

(* Mutant of Delivered: a full channel keeps what it holds.                *)
DeliveredIfEmpty(s) == IF inbox[s] = 0 THEN sending ELSE inbox[s]

(* A channel holds one URL, and the latest replaces it.                    *)
Delivered(s) == IF inbox[s] = -1 THEN -1 ELSE sending

Broadcast ==
    /\ sending # 0
    /\ inbox' = [s \in Subscribers |-> Delivered(s)]
    /\ sending' = 0
    /\ UNCHANGED <<chromeVars, log, tail, tails, current>>

Subscribed(s) == [inbox EXCEPT ![s] = 0]
Unsubscribed(s) == [inbox EXCEPT ![s] = -1]

ChromeStep == Autorestart \/ Announce \/ Serve
ManagerStep == ReadLine \/ Broadcast

UpstreamNext == ChromeStep \/ ManagerStep \/ Crash \/ TailRestarts
=============================================================================

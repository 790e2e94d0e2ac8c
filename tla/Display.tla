-------------------------------- MODULE Display --------------------------------
(***************************************************************************)
(* Resizing the headless display (cmd/api/api/display.go, and the display  *)
(* part of chromium_configure.go).  Without a recording, the viewport is   *)
(* resized over CDP, the size is remembered as an override, and a          *)
(* goroutine restarts Xvfb; with one, Xvfb is restarted in the request.    *)
(* Requests exclude one another by chromiumConfigMu, so `request` is the   *)
(* one that has it; resizes of Xvfb exclude one another by xvfbResizeMu,   *)
(* so `resize` is the one that has it.                                     *)
(***************************************************************************)
EXTENDS Integers, FiniteSets

CONSTANTS
    Screens,        \* sizes, positive numbers
    Recordings,
    MaxResizes      \* bounds the requests

(* 0 stands for none, and for an error of xrandr.                          *)
ASSUME DisplayAssumption == Screens \subseteq Nat \ {0}

VARIABLES
    xvfb,           \* the size of Xvfb, or 0 while it does not run
    override,       \* viewportOverride, or 0
    conf,           \* the size supervisord has read for Xvfb
    request,        \* the request in progress: none or one
    resize,         \* the holder of xvfbResizeMu: none or one
    background,     \* the goroutines that wait for xvfbResizeMu
    recording,      \* recordings in progress
    resuming,       \* those stopped for a resize, to get a new segment
    want,           \* history: the size last granted
    broken,         \* history: whether a step of the last resize of Xvfb failed:
                    \* "no"; "kept", in a goroutine, which kept the override; or
                    \* "lost", in a request, or without being noticed
    resizes         \* requests so far

screenVars == <<xvfb, conf, override, broken>>
handlerVars == <<request, want, resizes>>
recordVars == <<recording, resuming>>
resizeVars == <<resize, background>>
displayVars == <<screenVars, handlerVars, recordVars, resizeVars>>

DisplayInit ==
    /\ xvfb \in Screens /\ conf = xvfb /\ want = xvfb
    /\ override = 0
    /\ request = {} /\ resize = {} /\ background = {}
    /\ recording = {} /\ resuming = {}
    /\ broken = "no" /\ resizes = 0

(* getCurrentResolution, where 0 is an error of xrandr.                    *)
Reported == IF override # 0 THEN override ELSE xvfb

-----------------------------------------------------------------------------
(* A request that would change nothing, or cannot tell, is answered.       *)
Begin(size, api, idle) ==
    /\ request = {} /\ resizes < MaxResizes
    /\ resizes' = resizes + 1
    /\ request' = IF Reported \in {0, size} THEN {}
                  ELSE {[id |-> resizes', size |-> size, api |-> api,
                         idle |-> idle, at |-> "check", list |-> {}, stopped |-> {}]}
    /\ UNCHANGED <<screenVars, want, recordVars, resizeVars>>

(* requireIdle refuses; otherwise the active recordings are listed.        *)
Check(q) ==
    /\ q.at = "check"
    /\ request' = IF q.idle /\ recording # {} THEN {}
                  ELSE {[q EXCEPT !.at = "list"]}
    /\ UNCHANGED <<screenVars, want, resizes, recordVars, resizeVars>>

List(q) ==
    /\ q.at = "list"
    /\ request' = {[q EXCEPT !.at = "stop", !.list = recording]}
    /\ UNCHANGED <<screenVars, want, resizes, recordVars, resizeVars>>

(* stopActiveRecordings skips what is not recording any more.  When one    *)
(* cannot be stopped, the request ends, and those before it stay stopped.  *)
StopOne(q, rec) ==
    /\ q.at = "stop" /\ rec \in q.list
    /\ \/ /\ request' = {[q EXCEPT !.list = @ \ {rec},
                                   !.stopped = @ \cup ({rec} \cap recording)]}
          /\ recording' = recording \ {rec}
       \/ rec \in recording /\ request' = {} /\ UNCHANGED recording
    /\ UNCHANGED <<screenVars, want, resizes, resuming, resizeVars>>

(* setViewportViaCDP, which may fail, and then, by a goroutine, Xvfb.      *)
FastPath(q, ok) ==
    /\ q.at = "stop" /\ q.list = {} /\ q.stopped = {} /\ q.api = "patch"
    /\ request' = {}
    /\ IF ok
       THEN /\ override' = q.size /\ want' = q.size
            /\ background' = background \cup {[id |-> q.id, size |-> q.size]}
       ELSE UNCHANGED <<override, want, background>>
    /\ UNCHANGED <<xvfb, conf, broken, resizes, recordVars, resize>>

Resize(by) == [id |-> by.id, size |-> by.size, at |-> "config", told |-> TRUE]

(* The synchronous path, by itself or within chromium_configure.           *)
LockXvfb(q) ==
    /\ q.at = "stop" /\ q.list = {}
    /\ q.stopped # {} \/ q.api = "configure"
    /\ resize = {}
    /\ resize' = {Resize(q)}
    /\ request' = {[q EXCEPT !.at = "resize"]}
    /\ UNCHANGED <<screenVars, want, resizes, recordVars, background>>

(* backgroundResizeXvfb, unless a newer request has superseded it.         *)
Background(b) ==
    /\ b \in background /\ resize = {}
    /\ background' = background \ {b}
    /\ resize' = IF override = b.size
                 THEN {Resize(b)} ELSE {}
    /\ UNCHANGED <<screenVars, handlerVars, recordVars>>

-----------------------------------------------------------------------------
Mine(z) == {q \in request : q.id = z.id}

(* The end of a request after its resize, with the deferred new segments.  *)
EndOf(z) ==
    /\ request' = request \ Mine(z)
    /\ resuming' = resuming \cup UNION {q.stopped : q \in Mine(z)}

(* resizeXvfb: writing the configuration and `supervisorctl reread`, whose *)
(* failure is only logged, and `update`, which restarts what has changed.  *)
(* An answer of ProcessExec that is not 200 carries no error and passes    *)
(* for success: the command was killed with the context of its request,    *)
(* could not be started, or overran its output.  supervisord then has the  *)
(* old size, or the one that Xvfb is started with by default.              *)
Reread(z, ok) ==
    /\ z.at = "config"
    /\ IF ok THEN conf' = z.size ELSE conf' \in Screens
    /\ xvfb' \in {xvfb, 0, conf'}
    /\ resize' = {[z EXCEPT !.at = "restart", !.told = ok]}
    /\ UNCHANGED <<override, broken, handlerVars, recordVars, background>>

Restart(z) ==
    /\ z.at = "restart"
    /\ xvfb' = 0
    /\ resize' = {[z EXCEPT !.at = "starting"]}
    /\ UNCHANGED <<conf, override, broken, handlerVars, recordVars, background>>

Restarted(z) ==
    /\ z.at = "starting"
    /\ xvfb' = conf
    /\ resize' = {[z EXCEPT !.at = "settle"]}
    /\ UNCHANGED <<conf, override, broken, handlerVars, recordVars, background>>

(* `supervisorctl restart xvfb` passes for done in the same way.           *)
RestartUnnoticed(z) ==
    /\ z.at = "restart"
    /\ xvfb' \in {xvfb, 0, conf}
    /\ resize' = {[z EXCEPT !.at = "settle", !.told = FALSE]}
    /\ UNCHANGED <<conf, override, broken, handlerVars, recordVars, background>>

(* Any of these steps fails, perhaps after it was done: the override stays.*)
ResizeFails(z) ==
    /\ z.at # "settle"
    /\ xvfb' \in {xvfb} \cup (IF z.at = "config" THEN {} ELSE {0, conf})
    /\ resize' = {}
    /\ EndOf(z)
    /\ broken' = IF Mine(z) = {} THEN "kept" ELSE "lost"
    /\ UNCHANGED <<conf, override, want, resizes, recording, background>>

(* Mutant of Settled: the goroutine clears the override in any case.       *)
SettledAlways(z) == 0

(* The goroutine clears the override only if it is its own still; the      *)
(* synchronous path clears whatever there is.                              *)
Settled(z) == IF Mine(z) = {} /\ override # z.size THEN override ELSE 0

Settle(z) ==
    /\ z.at = "settle"
    /\ override' = Settled(z)
    /\ want' = IF Mine(z) = {} THEN want ELSE z.size
    /\ resize' = {}
    /\ EndOf(z)
    /\ broken' = IF z.told THEN "no" ELSE "lost"
    /\ UNCHANGED <<xvfb, conf, resizes, recording, background>>

-----------------------------------------------------------------------------
(* startNewRecordingSegments, which may fail for a recording.              *)
Resume(rec) ==
    /\ rec \in resuming
    /\ resuming' = resuming \ {rec}
    /\ recording' \in {recording, recording \cup {rec}}
    /\ UNCHANGED <<screenVars, handlerVars, resizeVars>>

(* Clients start and stop recordings whenever they like.                   *)
ClientRecords(rec) ==
    /\ rec \notin resuming /\ \A q \in request : rec \notin q.stopped
    /\ recording' = IF rec \in recording THEN recording \ {rec}
                    ELSE recording \cup {rec}
    /\ UNCHANGED <<screenVars, handlerVars, resuming, resizeVars>>

RequestStep(q) ==
    \/ Check(q) \/ List(q) \/ LockXvfb(q)
    \/ \E rec \in Recordings : StopOne(q, rec)
    \/ \E ok \in BOOLEAN : FastPath(q, ok)

ResizeStep(z) ==
    \/ \E ok \in BOOLEAN : Reread(z, ok)
    \/ Restart(z) \/ Restarted(z) \/ RestartUnnoticed(z)
    \/ ResizeFails(z) \/ Settle(z)

DisplayNext ==
    \/ \E size \in Screens, api \in {"patch", "configure"}, idle \in BOOLEAN :
        Begin(size, api, idle)
    \/ \E q \in request : RequestStep(q)
    \/ \E z \in resize : ResizeStep(z)
    \/ \E b \in background : Background(b)
    \/ \E rec \in Recordings : Resume(rec) \/ ClientRecords(rec)

DisplaySpec == DisplayInit /\ [][DisplayNext]_displayVars

-----------------------------------------------------------------------------
(* Between requests, the size that is reported is the one granted last,    *)
(* also while Xvfb is restarted and after a goroutine has failed to, and   *)
(* when no resize is under way Xvfb has it ("so Xvfb always converges to   *)
(* the latest requested size", display.go:408): whatever order requests,   *)
(* their goroutines and recordings come in.  "Always" is not what the code *)
(* does.  Xvfb has not got that size when a step of the last resize failed;*)
(* and when it failed within a request, or passed for done (Reread,        *)
(* RestartUnnoticed: the client of a synchronous resize went away), not    *)
(* even the report need be that size, for nothing remembers it.            *)
XvfbConverges == request = {} =>
    /\ override # 0 \/ broken # "lost" => Reported = want
    /\ broken = "no" /\ resize = {} /\ background = {} =>
        override = 0 /\ xvfb = want
=============================================================================

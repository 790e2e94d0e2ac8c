---------------------------- MODULE ChromiumConfig ----------------------------
(***************************************************************************)
(* Configuration of Chromium (cmd/api/api/chromium.go,                     *)
(* chromium_configure.go): requests that write the extension directory,    *)
(* the policy file and the flags file, one at a time under                 *)
(* chromiumConfigMu, and then bring Chromium to run with what they wrote:  *)
(* by loading an extension over CDP, or by stopping and starting it and    *)
(* waiting for its DevTools.  Chromium may exit and be launched again by   *)
(* supervisord at any of these steps.                                      *)
(***************************************************************************)
EXTENDS DevtoolsUpstream

CONSTANTS
    Bodies  \* what a request may ask: api, the places it writes, its token

VARIABLES
    body, pc,
    holder,     \* chromiumConfigMu: the request that has it, if any
    files,      \* the tokens in the directory, the policy and the flags
    snap,       \* the files as the transaction of the holder found them
    launched,   \* the files as the current life found them
    loaded,     \* tokens loaded into the current life over CDP
    stage,      \* which restart of a request it is
    prev,       \* prevUpstream
    commands,   \* `supervisorctl start` commands in flight
    failed,     \* those whose error their waiter has not seen
    outcome,    \* what a request will answer if it still has to clean up
    answer,
    ready, since,   \* history: the life found ready, the one that was stopped
    late        \* history: a start that was given up on has launched Chromium

requestVars == <<body, pc, holder, stage, prev, outcome, answer>>
fileVars == <<files, snap, launched, loaded>>
startVars == <<commands, failed, late>>
vars == <<upstreamVars, requestVars, fileVars, startVars, ready, since>>

Requests == Subscribers
Places == {"dir", "policy", "flags"}
Stages == {"first", "fallback", "rollback", "again"}

(* What a request writes is one transaction: an extension and the files    *)
(* that name it, or a change of one of the two files.  A configure that    *)
(* brings several of these keeps the ones before the one that fails, and   *)
(* is not a body of this model.                                            *)
ASSUME BodiesAssumption ==
    \A b \in Bodies :
        /\ b.api \in {"upload", "force", "configure", "prefer_cdp", "patch"}
        /\ b.places \subseteq Places
        /\ \/ "dir" \in b.places
           \/ b.api \in {"configure", "patch"} /\ \E p \in Places : b.places = {p}

Unpacked(r) == body[r].places = Places
IsExtension(r) == "dir" \in body[r].places
Me(r) == <<r, stage[r]>>

Init ==
    /\ UpstreamInit
    /\ body \in [Requests -> Bodies]
    /\ pc = [r \in Requests |-> "new"]
    /\ holder = {}
    /\ files = [p \in Places |-> {}]
    /\ snap = files /\ launched = files /\ loaded = {}
    /\ stage = [r \in Requests |-> "first"]
    /\ prev = [r \in Requests |-> 0]
    /\ commands = {} /\ failed = {} /\ late = FALSE
    /\ outcome = [r \in Requests |-> "ok"]
    /\ answer = [r \in Requests |-> "none"]
    /\ ready = [r \in Requests |-> 0] /\ since = [r \in Requests |-> 0]

(* The running Chromium has what r asked for.                              *)
Effective(r) ==
    \/ \A p \in body[r].places : body[r].token \in launched[p]
    \/ Unpacked(r) /\ body[r].token \in loaded

Goto(r, where) == pc' = [pc EXCEPT ![r] = where]

Finish(r, a) ==
    /\ Goto(r, "done")
    /\ holder' = {}
    /\ answer' = [answer EXCEPT ![r] = a]

-----------------------------------------------------------------------------
(* A configure request that needs a restart stops Chromium before it writes*)
(* anything; the other requests write first.                               *)
Lock(r) ==
    /\ pc[r] = "new" /\ holder = {}
    /\ holder' = {r}
    /\ Goto(r, IF body[r].api = "configure" THEN "stop" ELSE "commit")
    /\ UNCHANGED <<upstreamVars, body, stage, prev, outcome, answer, fileVars,
                   startVars, ready, since>>

(* Where a request that could not write goes: configure starts Chromium    *)
(* again, which it has stopped, and the others answer.                     *)
Abandon(r, a) ==
    IF body[r].api = "configure"
    THEN /\ Goto(r, "start")
         /\ outcome' = [outcome EXCEPT ![r] = a]
         /\ UNCHANGED <<holder, answer>>
    ELSE Finish(r, a) /\ UNCHANGED outcome

(* commitPreparedExtensions: the names are checked again under the lock,   *)
(* and the files are remembered.                                           *)
Commit(r) ==
    /\ pc[r] = "commit"
    /\ IF IsExtension(r) /\ body[r].token \in files["dir"]
       THEN Abandon(r, "refused") /\ UNCHANGED snap
       ELSE /\ snap' = files
            /\ Goto(r, "write")
            /\ UNCHANGED <<holder, answer, outcome>>
    /\ UNCHANGED <<upstreamVars, body, stage, prev, files, launched, loaded,
                   startVars, ready, since>>

Missing(r) == {p \in body[r].places : body[r].token \notin files[p]}
NextPlace(r) ==
    IF "dir" \in Missing(r) THEN "dir"
    ELSE IF "policy" \in Missing(r) THEN "policy" ELSE "flags"

(* Renaming the directory, AddExtensions or ApplyOverrides, and            *)
(* mergeAndWriteChromiumFlags, in this order.                              *)
Write(r) ==
    /\ pc[r] = "write" /\ Missing(r) # {}
    /\ files' = [files EXCEPT ![NextPlace(r)] = @ \cup {body[r].token}]
    /\ UNCHANGED <<upstreamVars, requestVars, snap, launched, loaded, startVars,
                   ready, since>>

(* Mutant of RolledBack: the policy is left as the transaction wrote it.   *)
RolledBackWithoutPolicy(r) ==
    [files EXCEPT !["dir"] = @ \ {body[r].token}, !["flags"] = snap["flags"]]

(* committedExtensionBatch.rollback                                        *)
RolledBack(r) ==
    [files EXCEPT !["dir"] = @ \ {body[r].token}, !["policy"] = snap["policy"],
                  !["flags"] = snap["flags"]]

(* A write fails, and what was written before it is taken back.            *)
WriteFails(r) ==
    /\ pc[r] = "write" /\ Missing(r) # {}
    /\ files' = IF IsExtension(r) THEN RolledBack(r) ELSE files
    /\ Abandon(r, "failed")
    /\ UNCHANGED <<upstreamVars, body, stage, prev, snap, launched, loaded,
                   startVars, ready, since>>

Committed(r) ==
    /\ pc[r] = "write" /\ Missing(r) = {}
    /\ Goto(r, CASE body[r].api = "configure" -> "start"
                 [] body[r].api \in {"upload", "prefer_cdp"} /\ Unpacked(r) -> "load"
                 [] OTHER -> "stop")
    /\ UNCHANGED <<upstreamVars, body, holder, stage, prev, outcome, answer,
                   fileVars, startVars, ready, since>>

-----------------------------------------------------------------------------
Connected == current = life /\ browser = "serving"

(* loadUnpackedExtensions                                                  *)
Load(r) ==
    /\ pc[r] = "load" /\ Connected
    /\ loaded' = loaded \cup {body[r].token}
    /\ Finish(r, "ok")
    /\ UNCHANGED <<upstreamVars, body, stage, prev, outcome, files, snap, launched,
                   startVars, ready, since>>

(* It fails, perhaps after it was done: Chromium is restarted instead.     *)
LoadFails(r) ==
    /\ pc[r] = "load"
    /\ loaded' \in {loaded} \cup (IF Connected THEN {loaded \cup {body[r].token}} ELSE {})
    /\ Goto(r, "stop")
    /\ stage' = [stage EXCEPT ![r] = "fallback"]
    /\ UNCHANGED <<upstreamVars, body, holder, prev, outcome, answer, files, snap,
                   launched, startVars, ready, since>>

-----------------------------------------------------------------------------
(* stopChromium: also a command whose result is not confirmed succeeds.    *)
Stop(r) ==
    /\ pc[r] = "stop"
    /\ sup' = "STOPPED" /\ browser' = "none"
    /\ since' = [since EXCEPT ![r] = life]
    /\ Goto(r, IF body[r].api = "configure" /\ stage[r] = "first"
               THEN "commit" ELSE "start")
    /\ UNCHANGED <<life, managerVars, body, holder, stage, prev, outcome, answer,
                   fileVars, startVars, ready>>

(* startChromiumAndWait                                                    *)
Start(r) ==
    /\ pc[r] = "start"
    /\ Goto(r, "wait")
    /\ prev' = [prev EXCEPT ![r] = current]
    /\ inbox' = Subscribed(r)
    /\ commands' = commands \cup {Me(r)}
    /\ UNCHANGED <<chromeVars, log, tail, tails, current, sending, body, holder, stage,
                   outcome, answer, fileVars, failed, late, ready, since>>

(* `supervisorctl start chromium`, in a goroutine of its own, which may    *)
(* outlive the wait for it: two minutes against ninety seconds.            *)
Waiting(m) == pc[m[1]] = "wait" /\ stage[m[1]] = m[2]

StartCommand(m) ==
    /\ m \in commands
    /\ commands' = commands \ {m}
    /\ \/ /\ sup = "STOPPED" /\ Launch
          /\ sup' = "RUNNING"
          /\ launched' = files /\ loaded' = {}
          /\ late' = (late \/ ~Waiting(m))
          /\ UNCHANGED failed
       \/ /\ failed' = IF Waiting(m) THEN failed \cup {m} ELSE failed
          /\ UNCHANGED <<chromeVars, launched, loaded, late>>
    /\ UNCHANGED <<managerVars, requestVars, files, snap, ready, since>>

(* Mutant of TryReady: a connection is enough.                             *)
TryReadyDialOnly(r, url) ==
    /\ url \notin {0, prev[r]}
    /\ url = life => browser \in {"bound", "serving"}

(* The URL is new, and Browser.getVersion is answered there.               *)
TryReady(r, url) ==
    /\ url \notin {0, prev[r]}
    /\ url = life /\ browser = "serving"

(* An announced URL, or the current one at the next tick.                  *)
Ready(r) ==
    /\ pc[r] = "wait"
    /\ \E url \in {inbox[r], current} \ {-1} :
        /\ TryReady(r, url)
        /\ ready' = [ready EXCEPT ![r] = url]
    /\ Goto(r, "relocate")
    /\ inbox' = Unsubscribed(r)
    /\ failed' = failed \ {Me(r)}
    /\ UNCHANGED <<chromeVars, log, tail, tails, current, sending, body, holder, stage,
                   prev, outcome, answer, fileVars, commands, late, since>>

-----------------------------------------------------------------------------
(* How a request goes on after a restart that went well or did not; an     *)
(* upload is rolled back, configure tries to start Chromium once more, and *)
(* what was written for another request stays.                             *)
Succeeded(r) ==
    CASE outcome[r] # "ok" -> Finish(r, outcome[r])
      [] outcome[r] = "ok" /\ Unpacked(r)
         /\ (body[r].api = "upload" \/ stage[r] = "fallback") ->
            Goto(r, "verify") /\ UNCHANGED <<holder, answer>>
      [] OTHER -> Finish(r, "ok")

RollBack(r) ==
    /\ files' = RolledBack(r)
    /\ Goto(r, "stop")
    /\ stage' = [stage EXCEPT ![r] = "rollback"]
    /\ outcome' = [outcome EXCEPT ![r] = "failed"]
    /\ UNCHANGED <<holder, answer>>

Failed(r) ==
    CASE body[r].api \in {"upload", "force"} /\ outcome[r] = "ok" -> RollBack(r)
      [] body[r].api \in {"configure", "prefer_cdp"} /\ pc[r] = "wait"
         /\ stage[r] # "again" /\ outcome[r] = "ok" ->
            /\ Goto(r, "start")
            /\ stage' = [stage EXCEPT ![r] = "again"]
            /\ outcome' = [outcome EXCEPT ![r] = "kept"]
            /\ UNCHANGED <<files, holder, answer>>
      [] OTHER ->
            /\ Finish(r, IF outcome[r] # "ok" THEN outcome[r]
                         ELSE IF body[r].api = "configure" /\ pc[r] = "stop"
                         THEN "failed" ELSE "kept")
            /\ UNCHANGED <<files, stage, outcome>>

(* The command reports an error, or ninety seconds are over.               *)
StartFails(r) ==
    /\ pc[r] = "wait"
    /\ Failed(r)
    /\ inbox' = Unsubscribed(r)
    /\ failed' = failed \ {Me(r)}
    /\ UNCHANGED <<chromeVars, log, tail, tails, current, sending, body, prev, snap,
                   launched, loaded, commands, late, ready, since>>

(* supervisorctl cannot stop Chromium, or not in time.                     *)
StopFails(r) ==
    /\ pc[r] = "stop"
    /\ Failed(r)
    /\ \/ sup' = "STOPPED" /\ browser' = "none"
       \/ UNCHANGED <<sup, browser>>
    /\ UNCHANGED <<life, managerVars, body, prev, snap, launched, loaded, startVars,
                   ready, since>>

(* reapplyBrowserLocation, whose failure undoes nothing.                   *)
Relocate(r, ok) ==
    /\ pc[r] = "relocate"
    /\ IF ok THEN Succeeded(r)
       ELSE Finish(r, IF outcome[r] = "ok" THEN "kept" ELSE outcome[r])
    /\ UNCHANGED <<upstreamVars, body, stage, prev, outcome, fileVars, startVars,
                   ready, since>>

(* verifyUnpackedExtensions                                                *)
Verify(r) ==
    /\ pc[r] = "verify" /\ Connected /\ Effective(r)
    /\ Finish(r, "ok")
    /\ UNCHANGED <<upstreamVars, body, stage, prev, outcome, fileVars, startVars,
                   ready, since>>

VerifyFails(r) ==
    /\ pc[r] = "verify"
    /\ Failed(r)
    /\ UNCHANGED <<upstreamVars, body, prev, snap, launched, loaded, startVars,
                   ready, since>>

-----------------------------------------------------------------------------
Step(r) ==
    \/ Lock(r) \/ Commit(r) \/ Write(r) \/ WriteFails(r) \/ Committed(r)
    \/ Load(r) \/ LoadFails(r) \/ Stop(r) \/ StopFails(r) \/ Start(r)
    \/ Ready(r) \/ StartFails(r) \/ Verify(r) \/ VerifyFails(r)
    \/ \E ok \in BOOLEAN : Relocate(r, ok)

(* A life that supervisord launches finds the files as they are.           *)
Environment ==
    \/ /\ Autorestart
       /\ launched' = files /\ loaded' = {}
       /\ UNCHANGED <<requestVars, files, snap, startVars, ready, since>>
    \/ /\ Announce \/ Serve \/ Crash \/ ManagerStep \/ TailRestarts
       /\ UNCHANGED <<requestVars, fileVars, startVars, ready, since>>

Next ==
    \/ Environment
    \/ \E r \in Requests : Step(r)
    \/ \E m \in commands : StartCommand(m)

Spec == Init /\ [][Next]_vars

-----------------------------------------------------------------------------
(* Once the lock is free, the directory, the policy and the flags hold     *)
(* what was asked by the requests that were granted, or that the code says *)
(* it leaves installed, and nothing of those that were refused or rolled   *)
(* back.                                                                   *)
Stands(r) == answer[r] \in {"ok", "kept"}

FilesAgree ==
    holder = {} =>
        \A p \in Places :
            files[p] = {body[r].token : r \in {q \in Requests : Stands(q)
                                               /\ p \in body[q].places}}

(* A request that was granted has been served: the life that was found     *)
(* ready for it is later than the one it stopped, and Chromium runs, and   *)
(* will after a crash, with what was asked, unless a start that had been   *)
(* given up on launched it.                                                *)
GrantedIsServed ==
    \A r \in Requests : answer[r] = "ok" =>
        /\ ready[r] # 0 => ready[r] > since[r]
        /\ (browser # "none" /\ ~late) => Effective(r)
=============================================================================

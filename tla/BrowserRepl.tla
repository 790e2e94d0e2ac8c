------------------------------- MODULE BrowserRepl -------------------------------
(***************************************************************************)
(* The browser REPL (cmd/api/api/browser_repl.go, custom_webmcp.go): one   *)
(* Node process that the API starts when it is needed, and that executes   *)
(* code for one admitted request at a time.  The request that holds        *)
(* admission starts, ends and replaces the process.  The process itself    *)
(* (runtime/browser-repl.ts) may exit, hang, or refuse code.               *)
(***************************************************************************)
EXTENDS Naturals, FiniteSets

CONSTANTS
    Callers,        \* requests
    MaxRepls        \* bounds how many processes are started

VARIABLES
    request,        \* what each caller asks for
    stage,          \* how far its handler is
    over,           \* callers whose context is cancelled
    response,
    admission,      \* who holds it
    lifecycle,      \* FALSE once Shutdown has cancelled it
    stopping,       \* Shutdown
    child,          \* m.child, or 0
    customToolsReplID,
    daemon,         \* each process: "no", "booting", "serving", "leaving", "gone"
    offspring,      \* it has other processes in its group
    executing,      \* the code it executes, one after the other
    page,           \* a page has invoked a tool of it
    socket,         \* the process that listens at the path, or 0
    snapshot,       \* the process that wrote the discovery file, or 0
    reply,          \* on each caller's connection
    dispatched      \* history: callers whose code was written to a process

callVars == <<request, stage, over, response, reply, dispatched>>
managerVars == <<admission, lifecycle, stopping, child, customToolsReplID>>
daemonVars == <<daemon, offspring, executing, page, socket, snapshot>>
replVars == <<callVars, managerVars, daemonVars>>

Repls == 1..MaxRepls
Nobody == "nobody"
Api == "shutdown"

(* Neither nobody nor Shutdown is a request.                               *)
ASSUME ReplAssumption == MaxRepls \in Nat /\ Nobody \notin Callers /\ Api \notin Callers

(* POST /repl with code, with reset alone, with both; and the invocation   *)
(* of a custom tool, whose context is left once it is admitted.            *)
Requests == {"code", "reset", "resetCode", "custom"}
Resets(c) == request[c] \in {"reset", "resetCode"}

ReplInit ==
    /\ request = [c \in Callers |-> "none"]
    /\ stage = [c \in Callers |-> "new"]
    /\ over = {}
    /\ response = [c \in Callers |-> "none"]
    /\ reply = [c \in Callers |-> "none"]
    /\ dispatched = {}
    /\ admission = Nobody /\ lifecycle = TRUE /\ stopping = "no"
    /\ child = 0 /\ customToolsReplID = 0
    /\ daemon = [d \in Repls |-> "no"]
    /\ offspring = {} /\ page = {}
    /\ executing = [d \in Repls |-> {}]
    /\ socket = 0 /\ snapshot = 0

-----------------------------------------------------------------------------
(* Callers.                                                                *)
Call(c) ==
    /\ stage[c] = "new"
    /\ \E what \in Requests : request' = [request EXCEPT ![c] = what]
    /\ stage' = [stage EXCEPT ![c] = "queued"]
    /\ UNCHANGED <<over, response, reply, dispatched, managerVars, daemonVars>>

(* A client leaves, or its deadline passes.                                *)
ContextEnds(c) ==
    /\ stage[c] \notin {"new", "answered"} /\ c \notin over
    /\ over' = over \cup {c}
    /\ UNCHANGED <<request, stage, response, reply, dispatched, managerVars, daemonVars>>

(* The invocation of a custom tool leaves the context of its request       *)
(* before it is sent.                                                      *)
Detached(c) == request[c] = "custom" /\ stage[c] = "reading"

(* The operation context of an admitted request.                           *)
Cancelled(c) == ~lifecycle \/ (c \in over /\ ~Detached(c))

(* What a handler leaves alone as long as it does not answer.              *)
handlerVars == <<over, reply, response, admission>>

(* The answer; admission is released.                                      *)
Answer(c, what) ==
    /\ stage' = [stage EXCEPT ![c] = "answered"]
    /\ over' = over \ {c} /\ reply' = [reply EXCEPT ![c] = "none"]
    /\ response' = [response EXCEPT ![c] = what]
    /\ admission' = IF admission = c THEN Nobody ELSE admission

(* acquire, with the check that follows it.                                *)
Acquire(c) ==
    /\ stage[c] = "queued"
    /\ \/ /\ admission = Nobody /\ ~Cancelled(c)
          /\ admission' = c
          /\ stage' = [stage EXCEPT ![c] = IF Resets(c) THEN "reset" ELSE "ensure"]
          /\ UNCHANGED <<over, reply, response>>
       \/ Cancelled(c) /\ Answer(c, "notDispatched")
    /\ UNCHANGED <<request, dispatched, lifecycle, stopping, child, customToolsReplID,
                   daemonVars>>

-----------------------------------------------------------------------------
(* SIGKILL to the group.                                                   *)
GroupKilled(d) == offspring \ {d}

Kill(d) ==
    /\ daemon' = [daemon EXCEPT ![d] = "gone"]
    /\ offspring' = GroupKilled(d)
    /\ executing' = [executing EXCEPT ![d] = {}]
    /\ page' = page \ {d}

(* clearLocked.                                                            *)
Clear ==
    /\ child' = 0 /\ customToolsReplID' = 0
    /\ snapshot' = 0 /\ socket' = 0

(* terminateLocked and killLocked: SIGTERM unless it is known to be of no  *)
(* use, then SIGKILL.                                                      *)
SignalTerm ==
    daemon' = IF child # 0 /\ daemon[child] \in {"booting", "serving"}
                THEN [daemon EXCEPT ![child] = IF daemon[child] = "booting" THEN "gone" ELSE "leaving"]
                ELSE daemon

KillAndClear == Kill(child) /\ Clear

(* An explicit reset.                                                      *)
Reset(c) ==
    /\ stage[c] = "reset"
    /\ IF Cancelled(c)
         THEN Answer(c, "notDispatched") /\ UNCHANGED daemon
         ELSE /\ stage' = [stage EXCEPT ![c] = IF child = 0 THEN "ensure" ELSE "resetting"]
              /\ SignalTerm
              /\ UNCHANGED handlerVars
    /\ UNCHANGED <<request, dispatched, lifecycle, stopping, child, customToolsReplID,
                   offspring, executing, page, socket, snapshot>>

ResetEnds(c) ==
    /\ stage[c] = "resetting"
    /\ KillAndClear
    /\ stage' = [stage EXCEPT ![c] = "ensure"]
    /\ UNCHANGED <<request, over, response, reply, dispatched, admission, lifecycle, stopping>>

NotStarted(c) == IF request[c] = "custom" THEN "notDispatched" ELSE "500"

(* ensureLocked and the beginning of startLocked: the child that is there, *)
(* or a new one, after what is left of one that has exited is killed.      *)
Ensure(c) ==
    /\ stage[c] = "ensure"
    /\ \/ /\ child # 0 /\ daemon[child] # "gone"
          /\ stage' = [stage EXCEPT ![c] = "ready"]
          /\ UNCHANGED <<child, customToolsReplID, daemonVars, handlerVars>>
       \/ /\ child # 0 /\ daemon[child] = "gone"
          /\ KillAndClear
          /\ UNCHANGED <<stage, handlerVars>>
       \/ /\ child = 0                     \* it cannot be started
          /\ Answer(c, NotStarted(c))
          /\ socket' = 0
          /\ UNCHANGED <<child, customToolsReplID, daemon, offspring, executing, page, snapshot>>
       \/ /\ child = 0
          /\ \E d \in Repls :
                /\ \A e \in Repls : daemon[e] = "no" <=> e >= d
                /\ child' = d
                /\ daemon' = [daemon EXCEPT ![d] = "booting"]
          /\ socket' = 0
          /\ stage' = [stage EXCEPT ![c] = "starting"]
          /\ UNCHANGED <<customToolsReplID, offspring, executing, page, snapshot, handlerVars>>
    /\ UNCHANGED <<request, dispatched, lifecycle, stopping>>

Connects == socket # 0 /\ daemon[socket] = "serving"

(* The rest of startLocked: the socket answers, the child has exited, or   *)
(* the request is cancelled or has waited long enough.                     *)
Starting(c) ==
    /\ stage[c] = "starting"
    /\ \/ /\ Connects
          /\ customToolsReplID' = child
          /\ stage' = [stage EXCEPT ![c] = "ready"]
          /\ UNCHANGED <<child, daemonVars, handlerVars>>
       \/ KillAndClear /\ Answer(c, NotStarted(c))
    /\ UNCHANGED <<request, dispatched, lifecycle, stopping>>

-----------------------------------------------------------------------------
(* executeLocked up to the write, and the daemon's enqueueExecution, which *)
(* refuses while a page is using a tool.                                   *)
Dispatch(c) ==
    /\ stage[c] = "ready"
    /\ \/ /\ request[c] = "reset" \/ Cancelled(c)
          /\ Answer(c, IF request[c] = "reset" THEN "200" ELSE "notDispatched")
          /\ UNCHANGED <<dispatched, executing>>
       \/ /\ request[c] # "reset" /\ ~Cancelled(c)
          /\ stage' = [stage EXCEPT ![c] = "reading"]
          /\ dispatched' = IF Connects THEN dispatched \cup {c} ELSE dispatched
          /\ executing' = IF Connects /\ child \notin page
                            THEN [executing EXCEPT ![child] = @ \cup {c}] ELSE executing
          /\ reply' = [reply EXCEPT ![c] = CASE ~Connects -> "eof"
                                             [] Connects /\ child \in page -> "busy"
                                             [] OTHER -> "none"]
          /\ UNCHANGED <<over, response, admission>>
    /\ UNCHANGED <<request, lifecycle, stopping, child, customToolsReplID, daemon, offspring,
                   page, socket, snapshot>>

(* Mutant of Fatal: an execution that timed out is only abandoned.         *)
FatalUnlessTimedOut(answer) == answer \in {"exiting", "eof"}

(* What the answer of the daemon says of the daemon.                       *)
Fatal(answer) == answer \in {"timedOut", "exiting", "eof"}

(* Mutant of AfterWrite: a request that is cancelled counts as not sent.   *)
AfterWriteOfCancelled(c) ==
    IF c \in over /\ request[c] # "custom" THEN "notDispatched" ELSE "terminated"

(* What a request is told when the REPL has to go.                         *)
AfterWrite(c) == "terminated"

(* The reply is read.                                                      *)
ReadReply(c) ==
    /\ stage[c] = "reading" /\ reply[c] # "none"
    /\ IF Fatal(reply[c])
         THEN /\ stage' = [stage EXCEPT ![c] = "ending"]
              /\ SignalTerm
              /\ UNCHANGED handlerVars
         ELSE Answer(c, "200") /\ UNCHANGED daemon
    /\ UNCHANGED <<request, dispatched, lifecycle, stopping, child, customToolsReplID,
                   offspring, executing, page, socket, snapshot>>

(* The request is cancelled, or its reply cannot be used.                  *)
GiveUp(c) ==
    /\ stage[c] = "reading"
    /\ Cancelled(c) \/ reply[c] # "none"
    /\ stage' = [stage EXCEPT ![c] = "ending"]
    /\ SignalTerm
    /\ UNCHANGED <<request, over, response, reply, dispatched, managerVars, offspring, executing,
                   page, socket, snapshot>>

(* Mutant of TimesOut: the connection has no deadline.                     *)
NeverTimesOut(c) == FALSE

TimesOut(c) == reply[c] = "none"

(* The daemon has not replied in time: no SIGTERM.                         *)
Deadline(c) ==
    /\ stage[c] = "reading" /\ TimesOut(c)
    /\ stage' = [stage EXCEPT ![c] = "ending"]
    /\ UNCHANGED <<request, over, response, reply, dispatched, managerVars, daemonVars>>

Ending(c) ==
    /\ stage[c] = "ending"
    /\ KillAndClear
    /\ Answer(c, AfterWrite(c))
    /\ UNCHANGED <<request, dispatched, lifecycle, stopping>>

-----------------------------------------------------------------------------
(* Shutdown, which waits for admission as long as its context lasts.       *)
Shutdown ==
    /\ stopping = "no"
    /\ lifecycle' = FALSE /\ stopping' = "waiting"
    /\ UNCHANGED <<callVars, admission, child, customToolsReplID, daemonVars>>

ShutdownAcquires ==
    /\ stopping = "waiting" /\ admission = Nobody
    /\ admission' = Api
    /\ stopping' = "terminating"
    /\ SignalTerm
    /\ UNCHANGED <<callVars, lifecycle, child, customToolsReplID, offspring, executing, page,
                   socket, snapshot>>

ShutdownEnds ==
    /\ \/ /\ stopping = "terminating"
          /\ IF child = 0 THEN UNCHANGED <<child, customToolsReplID, daemonVars>> ELSE KillAndClear
          /\ admission' = Nobody /\ stopping' = "done"
       \/ /\ stopping = "waiting"
          /\ stopping' = "expired"
          /\ UNCHANGED <<admission, child, customToolsReplID, daemonVars>>
    /\ UNCHANGED <<callVars, lifecycle>>

-----------------------------------------------------------------------------
(* The daemon: it publishes its discovery file, then listens; it starts    *)
(* other processes, it is used by pages, and it exits, at any time; one    *)
(* that is leaving unlinks the socket path.                                *)
Boot(d) ==
    /\ daemon[d] = "booting"
    /\ snapshot' = d /\ socket' = d
    /\ daemon' = [daemon EXCEPT ![d] = "serving"]
    /\ UNCHANGED <<callVars, managerVars, offspring, executing, page>>

Forks(d) ==
    /\ daemon[d] \in {"serving", "leaving"} /\ d \notin offspring
    /\ offspring' = offspring \cup {d}
    /\ UNCHANGED <<callVars, managerVars, daemon, executing, page, socket, snapshot>>

PageInvokes(d) ==
    /\ daemon[d] = "serving"
    /\ \/ d \notin page /\ executing[d] = {} /\ page' = page \cup {d}
       \/ d \in page /\ page' = page \ {d}
    /\ UNCHANGED <<callVars, managerVars, daemon, offspring, executing, socket, snapshot>>

DaemonExits(d) ==
    /\ daemon[d] \in {"booting", "serving", "leaving"}
    /\ daemon' = [daemon EXCEPT ![d] = "gone"]
    /\ \E unlinked \in BOOLEAN :
        socket' = IF daemon[d] = "leaving" /\ unlinked THEN 0 ELSE socket
    /\ executing' = [executing EXCEPT ![d] = {}]
    /\ page' = page \ {d}
    /\ reply' = [c \in Callers |-> IF c \in executing[d] /\ reply[c] = "none" THEN "eof" ELSE reply[c]]
    /\ UNCHANGED <<request, stage, over, response, dispatched, managerVars, offspring, snapshot>>

(* It executes what was sent.  An execution that times out goes on.        *)
Executed(d) ==
    /\ daemon[d] \in {"serving", "leaving"}
    /\ \E c \in executing[d] :
        /\ reply[c] = "none"
        /\ \E how \in {"done", "timedOut", "exiting"} :
            /\ reply' = [reply EXCEPT ![c] = how]
            /\ executing' = IF how = "done" THEN [executing EXCEPT ![d] = @ \ {c}] ELSE executing
            /\ daemon' = IF how = "exiting" THEN [daemon EXCEPT ![d] = "leaving"] ELSE daemon
    /\ UNCHANGED <<request, stage, over, response, dispatched, managerVars, offspring, page, socket,
                   snapshot>>

-----------------------------------------------------------------------------
HandlerStep(c) ==
    \/ Reset(c) \/ ResetEnds(c) \/ Ensure(c) \/ Starting(c) \/ Dispatch(c)
    \/ ReadReply(c) \/ GiveUp(c) \/ Deadline(c) \/ Ending(c)

ShutdownStep == ShutdownAcquires \/ ShutdownEnds

DaemonStep(d) == Boot(d) \/ Forks(d) \/ PageInvokes(d) \/ DaemonExits(d) \/ Executed(d)

ReplNext ==
    \/ \E c \in Callers : Call(c) \/ ContextEnds(c) \/ Acquire(c) \/ HandlerStep(c)
    \/ Shutdown \/ ShutdownStep
    \/ \E d \in Repls : DaemonStep(d)

(* Every wait of a handler has a deadline, and Go serves those who wait    *)
(* for admission in turn.  Of the daemon nothing is expected.              *)
ReplFairness ==
    /\ \A c \in Callers : SF_replVars(Acquire(c)) /\ WF_replVars(HandlerStep(c))
    /\ WF_replVars(ShutdownStep)

ReplSpec == ReplInit /\ [][ReplNext]_replVars /\ ReplFairness

-----------------------------------------------------------------------------
(* Nothing is left of a REPL that is not the child: no process of its      *)
(* group, no code (terminateLocked, ensureLocked, clearLocked).  The child *)
(* executes for the request that holds admission only; and what discovery  *)
(* serves is the child's, never "stale metadata" (customToolsSnapshot).    *)
OneRepl ==
    /\ \A d \in Repls : d # child =>
        daemon[d] \in {"no", "gone"} /\ d \notin offspring /\ executing[d] = {}
    /\ child # 0 => executing[child] \subseteq {admission}
    /\ stopping = "done" => child = 0
    /\ customToolsReplID # 0 => customToolsReplID = child /\ snapshot = child

(* "Every other response is returned before the code reaches the REPL"     *)
(* (ExecuteBrowserRepl), which is what allows a retry to run it; likewise  *)
(* for browserReplNotDispatchedError.                                      *)
RefusedDidNotReach ==
    \A c \in Callers : response[c] \in {"notDispatched", "500"} => c \notin dispatched

(* Whoever waits is answered, whatever the process and the other requests  *)
(* do, and Shutdown returns.                                               *)
ReplAnswers ==
    /\ \A c \in Callers : stage[c] = "queued" ~> stage[c] = "answered"
    /\ stopping = "waiting" ~> stopping \in {"done", "expired"}
=============================================================================

------------------------- MODULE PlaywrightExecutors -------------------------
(***************************************************************************)
(* playwrightExecutorManager (cmd/api/api/playwright_executors.go) and the *)
(* handlers above it: calls that share named executors, the daemon process *)
(* and the tab of each executor, DELETE, which removes a named executor    *)
(* and restarts the default one, and Shutdown.                             *)
(* A life (a context) is an executor and the number of its restarts: it    *)
(* has ended when the default executor was restarted since, or when the    *)
(* executor has a cause.                                                   *)
(***************************************************************************)
EXTENDS Naturals, FiniteSets

CONSTANTS
    Names,                  \* names of executors
    Requested,              \* names in requests to execute code
    DefaultName,            \* defaultPlaywrightExecutor
    Objects,                \* playwrightExecutor structs in memory
    Default,                \* the struct of the default executor
    Children,               \* process groups
    Executions,             \* requests to execute code
    NoExecutor, NoChild, Nobody,
    MaxPlaywrightExecutors, \* maxPlaywrightExecutors
    MaxRestarts             \* bounds the restarts of the default executor

ASSUME PlaywrightAssumption ==
    /\ DefaultName \in Names
    /\ Requested \subseteq Names
    /\ Default \in Objects
    /\ NoExecutor \notin Objects
    /\ NoChild \notin Children
    /\ Nobody \notin Executions
    /\ MaxPlaywrightExecutors \in Nat
    /\ MaxRestarts \in Nat

VARIABLES
    executors,  \* m.executors
    closed,     \* m.closed
    restarts,   \* the number of the current life of each executor
    cause,      \* context.Cause of that life: none, a failed set-up, or a
                \* deletion or shutdown
    admission,  \* who holds the token of each executor
    target,     \* its tab: none recorded, open, or closed since
    child,      \* e.child
    retiring,   \* retire and the closing of the tab, once e is removed
    gone,       \* history: executors retired with nothing left behind
    proc,       \* none, up, or dead
    killed,     \* the group was signalled (killOnce)
    watch,      \* the life whose AfterFunc kills the child
    pc,         \* how far each call to Execute is
    on, using,  \* the call's executor and child
    under,      \* the call's life: the restarts it was admitted under
    resent,     \* the call has been answered TabMissing once
    handed,     \* history: the calls whose code the daemon got
    codeRan,    \* history: how often the code of a call has run
    answer      \* what the call that ended in the last step came back with

managerVars == <<executors, closed, restarts, cause>>
executorVars == <<admission, target, child>>
endVars == <<retiring, gone>>
procVars == <<proc, killed, watch>>
codeVars == <<resent, handed, codeRan>>
callVars == <<pc, on, using, under, codeVars>>
playwrightVars == <<managerVars, executorVars, endVars, procVars, callVars, answer>>

Lives == Objects \X (0..MaxRestarts)
NoLife == <<NoExecutor, 0>>
Ended(life) == \/ life[2] < restarts[life[1]]
               \/ cause[life[1]] # "none"
Inside(c) == pc[c] \notin {"idle", "waiting"}

PlaywrightTypeOK ==
    /\ executors \in [Names -> Objects \cup {NoExecutor}]
    /\ closed \in BOOLEAN
    /\ restarts \in [Objects -> 0..MaxRestarts]
    /\ cause \in [Objects -> {"none", "setup", "ended"}]
    /\ admission \in [Objects -> Executions \cup {Nobody}]
    /\ target \in [Objects -> {"none", "open", "closed"}]
    /\ child \in [Objects -> Children \cup {NoChild}]
    /\ retiring \in [Objects -> {"no", "delete", "shutdown", "close", "last", "done"}]
    /\ gone \in SUBSET Objects
    /\ proc \in [Children -> {"none", "up", "dead"}]
    /\ killed \in SUBSET Children
    /\ watch \in [Children -> Lives \cup {NoLife}]
    /\ pc \in [Executions -> {"idle", "waiting", "ensure", "boot", "tab", "send",
                              "sent", "missing", "answered", "failed"}]
    /\ on \in [Executions -> Objects \cup {NoExecutor}]
    /\ using \in [Executions -> Children \cup {NoChild}]
    /\ under \in [Executions -> 0..MaxRestarts]
    /\ resent \in SUBSET Executions
    /\ handed \in SUBSET Executions
    /\ codeRan \in [Executions -> Nat]
    /\ answer \in {"none", "200", "cancelled", "409", "500"}

PlaywrightInit ==
    /\ executors = [n \in Names |-> IF n = DefaultName THEN Default ELSE NoExecutor]
    /\ closed = FALSE
    /\ restarts = [e \in Objects |-> 0]
    /\ cause = [e \in Objects |-> "none"]
    /\ admission = [e \in Objects |-> Nobody]
    /\ target = [e \in Objects |-> "none"]
    /\ child = [e \in Objects |-> NoChild]
    /\ retiring = [e \in Objects |-> "no"]
    /\ gone = {}
    /\ proc = [k \in Children |-> "none"]
    /\ killed = {}
    /\ watch = [k \in Children |-> NoLife]
    /\ pc = [c \in Executions |-> "idle"]
    /\ on = [c \in Executions |-> NoExecutor]
    /\ using = [c \in Executions |-> NoChild]
    /\ under = [c \in Executions |-> 0]
    /\ resent = {}
    /\ handed = {}
    /\ codeRan = [c \in Executions |-> 0]
    /\ answer = "none"

Registered(e) == \E n \in Names : executors[n] = e
NamedCount == Cardinality({n \in Names \ {DefaultName} : executors[n] # NoExecutor})

(* Structs and process identities nothing refers to any more are as good   *)
(* as new ones; a forgotten struct lets go of a process that is used anew. *)
Unreferenced(e) ==
    /\ ~Registered(e)
    /\ \A c \in Executions : on[c] # e
    /\ \A k \in Children : watch[k][1] # e
    /\ retiring[e] \in {"no", "done"}
Unused(k) ==
    /\ proc[k] = "none" \/ (proc[k] = "dead" /\ k \in killed)
    /\ watch[k] = NoLife
    /\ \A c \in Executions : using[c] # k
    /\ \A e \in Objects : child[e] = k => Unreferenced(e)

(* The process of an executor, if it has one.                              *)
Process(e) == {child[e]} \ {NoChild}

(* child.kill: the group is signalled once, whether or not its leader is   *)
(* still alive; the wait for it to be reaped is bounded.                   *)
Kill(group) ==
    /\ killed' = killed \cup group
    /\ proc' = [k \in Children |->
                  IF k \in group /\ proc[k] = "up" THEN "dead" ELSE proc[k]]

(* Mutant of Discard: what a crashed process left running is not killed.   *)
DiscardLeavesGroup(old, started) ==
    /\ watch' = [k \in Children |-> IF k \in old THEN NoLife ELSE watch[k]]
    /\ killed' = killed \ started
    /\ proc' = [k \in Children |-> IF k \in started THEN "up" ELSE proc[k]]

(* A dead process is unwatched and killed, and another one started.        *)
Discard(old, started) ==
    /\ watch' = [k \in Children |-> IF k \in old THEN NoLife ELSE watch[k]]
    /\ killed' = (killed \cup old) \ started
    /\ proc' = [k \in Children |-> IF k \in started THEN "up" ELSE proc[k]]

(* e.end of executors that leave the map.                                  *)
End(over, why) ==
    cause' = [e \in Objects |-> IF e \in over THEN why ELSE cause[e]]

(* The handler answers what Execute returns.  An error that is neither the *)
(* limit nor a set-up is answered 200, as is a response; the caller of a   *)
(* call whose context has ended is not there to see it.                    *)
Return(c, what) ==
    /\ pc' = [pc EXCEPT ![c] = "idle"]
    /\ on' = [on EXCEPT ![c] = NoExecutor]
    /\ using' = [using EXCEPT ![c] = NoChild]
    /\ under' = [under EXCEPT ![c] = 0]
    /\ resent' = resent \ {c}
    /\ handed' = handed \ {c}
    /\ codeRan' = [codeRan EXCEPT ![c] = 0]
    /\ answer' = what

(* Mutant of Release: the token is not given back when no tab opens.       *)
ReleaseUnlessTabless(c) ==
    admission' = IF pc[c] = "tab" THEN admission
                 ELSE [admission EXCEPT ![on[c]] = Nobody]

(* e.admission <- struct{}{}, deferred.                                    *)
Release(c) == admission' = [admission EXCEPT ![on[c]] = Nobody]

(* How a call fails whose life has ended.                                  *)
CauseOf(e, life) ==
    IF life = restarts[e] /\ cause[e] = "setup" THEN "500" ELSE "200"

(* executorFor.                                                            *)
ExecutorFor(c, n) ==
    /\ pc[c] = "idle"
    /\ \/ /\ closed
          /\ answer' = "200"
          /\ UNCHANGED <<managerVars, executorVars, endVars, pc, on>>
       \/ /\ ~closed
          /\ executors[n] # NoExecutor
          /\ pc' = [pc EXCEPT ![c] = "waiting"]
          /\ on' = [on EXCEPT ![c] = executors[n]]
          /\ answer' = "none"
          /\ UNCHANGED <<managerVars, executorVars, endVars>>
       \/ /\ ~closed
          /\ executors[n] = NoExecutor
          /\ NamedCount >= MaxPlaywrightExecutors
          /\ answer' = "409"
          /\ UNCHANGED <<managerVars, executorVars, endVars, pc, on>>
       \/ /\ ~closed
          /\ executors[n] = NoExecutor
          /\ NamedCount < MaxPlaywrightExecutors
          /\ \E e \in Objects \ {Default} :
              /\ Unreferenced(e)
              /\ executors' = [executors EXCEPT ![n] = e]
              /\ cause' = [cause EXCEPT ![e] = "none"]
              /\ target' = [target EXCEPT ![e] = "none"]
              /\ child' = [child EXCEPT ![e] = NoChild]
              /\ retiring' = [retiring EXCEPT ![e] = "no"]
              /\ gone' = gone \ {e}
              /\ on' = [on EXCEPT ![c] = e]
          /\ pc' = [pc EXCEPT ![c] = "waiting"]
          /\ answer' = "none"
          /\ UNCHANGED <<closed, restarts, admission>>
    /\ UNCHANGED <<procVars, using, under, codeVars>>

(* The select of Execute: the caller's context ends first, or the token is *)
(* taken and, under mu, the life looked at.                                *)
GiveUp(c) ==
    /\ pc[c] = "waiting"
    /\ Return(c, "cancelled")
    /\ UNCHANGED <<managerVars, executorVars, endVars, procVars>>

Admit(c) ==
    LET e == on[c] IN
    /\ pc[c] = "waiting"
    /\ admission[e] = Nobody
    /\ \/ /\ cause[e] # "none"
          /\ Return(c, CauseOf(e, restarts[e]))
          /\ UNCHANGED admission
       \/ /\ cause[e] = "none"
          /\ admission' = [admission EXCEPT ![e] = c]
          /\ under' = [under EXCEPT ![c] = restarts[e]]
          /\ pc' = [pc EXCEPT ![c] = "ensure"]
          /\ answer' = "none"
          /\ UNCHANGED <<on, using, codeVars>>
    /\ UNCHANGED <<managerVars, target, child, endVars, procVars>>

(* ensureChild when start has failed: a named executor that never had a    *)
(* tab is dropped, and the calls queued on it fail.                        *)
SetupFails(c) ==
    LET e == on[c]
        dropped == e # Default /\ target[e] = "none" /\ Registered(e)
    IN
    /\ executors' = [n \in Names |->
                       IF dropped /\ executors[n] = e THEN NoExecutor ELSE executors[n]]
    /\ End(IF dropped THEN {e} ELSE {}, "setup")
    /\ Return(c, "500")
    /\ Release(c)
    /\ UNCHANGED <<closed, restarts, target, child, endVars>>

HasChild(c, k) ==
    /\ using' = [using EXCEPT ![c] = k]
    /\ pc' = [pc EXCEPT ![c] = IF on[c] # Default /\ target[on[c]] = "none"
                               THEN "tab" ELSE "send"]
    /\ answer' = "none"
    /\ UNCHANGED <<on, under, codeVars>>

(* ensureChild up to cmd.Start: the child is alive, or what is left of it  *)
(* is killed and a process started.  A process that is dead and has not    *)
(* been reaped yet passes for alive.                                       *)
EnsureChild(c) ==
    LET e == on[c]
        old == Process(e)
    IN
    /\ pc[c] = "ensure"
    /\ \/ /\ \E k \in old : HasChild(c, k)
          /\ UNCHANGED <<managerVars, executorVars, procVars>>
       \/ /\ \A k \in old : proc[k] # "up"
          /\ Discard(old, {})
          /\ SetupFails(c)
       \/ /\ \A k \in old : proc[k] # "up"
          /\ \E k \in Children :
              /\ Unused(k)
              /\ Discard(old, {k})
              /\ using' = [using EXCEPT ![c] = k]
              /\ child' = [f \in Objects |->
                             IF child[f] = k THEN NoChild ELSE child[f]]
          /\ pc' = [pc EXCEPT ![c] = "boot"]
          /\ answer' = "none"
          /\ UNCHANGED <<managerVars, admission, target, on, under, codeVars>>
    /\ UNCHANGED endVars

(* The look at the life under mu, and context.AfterFunc(life, child.kill). *)
GoesOn(life) == ~Ended(life)

Tie(k, life) == watch' = [watch EXCEPT ![k] = life]

(* The rest of start and ensureChild: the socket answers and the child is  *)
(* tied to the life the call was admitted under, or the process exits or   *)
(* is not ready in time.                                                   *)
Booted(c) ==
    LET e == on[c]
        k == using[c]
        life == <<e, under[c]>>
    IN
    /\ pc[c] = "boot"
    /\ proc[k] = "up"
    /\ Tie(k, life)
    /\ \/ /\ ~GoesOn(life)
          /\ Return(c, CauseOf(e, under[c]))
          /\ Release(c)
          /\ UNCHANGED child
       \/ /\ GoesOn(life)
          /\ child' = [child EXCEPT ![e] = k]
          /\ HasChild(c, k)
          /\ UNCHANGED admission
    /\ UNCHANGED <<managerVars, target, endVars, proc, killed>>

BootFails(c) ==
    /\ pc[c] = "boot"
    /\ Kill({using[c]})
    /\ SetupFails(c)
    /\ UNCHANGED watch

(* openTab records the tab before any process uses it.                     *)
OpenTab(c) ==
    /\ pc[c] \in {"tab", "missing"}
    /\ \/ /\ target' = [target EXCEPT ![on[c]] = "open"]
          /\ pc' = [pc EXCEPT ![c] = "send"]
          /\ answer' = "none"
          /\ UNCHANGED <<admission, on, using, under, codeVars>>
       \/ /\ Return(c, "500")
          /\ Release(c)
          /\ UNCHANGED target
    /\ UNCHANGED <<managerVars, child, endVars, procVars>>

(* send: the request is written to the daemon, or that fails.              *)
Send(c) ==
    /\ pc[c] = "send"
    /\ \/ /\ proc[using[c]] = "up"
          /\ pc' = [pc EXCEPT ![c] = "sent"]
          /\ handed' = handed \cup {c}
       \/ /\ pc' = [pc EXCEPT ![c] = "failed"]
          /\ UNCHANGED handed
    /\ answer' = "none"
    /\ UNCHANGED <<managerVars, executorVars, endVars, procVars, on, using, under,
                   resent, codeRan>>

(* The daemon runs the code, or answers TabMissing when the executor's tab *)
(* is closed, or that it cannot run it.  The API reads the answer.         *)
DaemonAnswers(c) ==
    LET e == on[c] IN
    /\ pc[c] = "sent"
    /\ proc[using[c]] = "up"
    /\ \/ /\ e = Default \/ target[e] = "open"
          /\ codeRan' = [codeRan EXCEPT ![c] = @ + 1]
          /\ pc' = [pc EXCEPT ![c] = "answered"]
          /\ UNCHANGED resent
       \/ /\ pc' = [pc EXCEPT ![c] = "answered"]
          /\ UNCHANGED <<resent, codeRan>>
       \/ /\ e # Default
          /\ target[e] = "closed"
          /\ pc' = [pc EXCEPT ![c] = IF c \in resent THEN "answered" ELSE "missing"]
          /\ resent' = resent \cup {c}
          /\ UNCHANGED codeRan
    /\ answer' = "none"
    /\ UNCHANGED <<managerVars, executorVars, endVars, procVars, on, using, under,
                   handed>>

(* Mutant of AnswerLost: taken for a missing tab.                          *)
LostAnswerReopens(c) ==
    /\ pc[c] \in {"sent", "answered"}
    /\ pc' = [pc EXCEPT ![c] = "missing"]
    /\ answer' = "none"
    /\ UNCHANGED <<managerVars, executorVars, endVars, procVars, on, using, under,
                   codeVars>>

(* The process dies or the deadline of the socket passes, whether or not   *)
(* the code has run.                                                       *)
AnswerLost(c) ==
    /\ pc[c] \in {"sent", "answered"}
    /\ pc' = [pc EXCEPT ![c] = "failed"]
    /\ answer' = "none"
    /\ UNCHANGED <<managerVars, executorVars, endVars, procVars, on, using, under,
                   codeVars>>

(* The end of Execute, after an answer and after a failure of send.        *)
Outcome(c) ==
    IF Ended(<<on[c], under[c]>>) THEN CauseOf(on[c], under[c]) ELSE "200"

Respond(c) ==
    /\ pc[c] = "answered"
    /\ Return(c, Outcome(c))
    /\ Release(c)
    /\ UNCHANGED <<managerVars, target, child, endVars, procVars>>

SendFailed(c) ==
    LET e == on[c]
        k == using[c]
    IN
    /\ pc[c] = "failed"
    /\ child' = [child EXCEPT ![e] = IF @ = k THEN NoChild ELSE @]
    /\ watch' = [watch EXCEPT ![k] = NoLife]
    /\ Kill({k})
    /\ Return(c, Outcome(c))
    /\ Release(c)
    /\ UNCHANGED <<managerVars, target, endVars>>

(* Mutant of RestartDefault: the executor keeps the life that has ended.   *)
RestartKeepsLife ==
    /\ Registered(Default)
    /\ End({Default}, "ended")
    /\ child' = [child EXCEPT ![Default] = NoChild]
    /\ answer' = "none"
    /\ UNCHANGED <<executors, closed, restarts, admission, target, endVars, procVars,
                   callVars>>

(* Delete: the default executor gets a new life, a named one is removed    *)
(* and retired.                                                            *)
RestartDefault ==
    /\ Registered(Default)
    /\ restarts[Default] < MaxRestarts
    /\ restarts' = [restarts EXCEPT ![Default] = @ + 1]
    /\ child' = [child EXCEPT ![Default] = NoChild]
    /\ answer' = "none"
    /\ UNCHANGED <<executors, closed, cause, admission, target, endVars, procVars,
                   callVars>>

Delete(n) ==
    LET e == executors[n] IN
    /\ e \notin {NoExecutor, Default}
    /\ executors' = [executors EXCEPT ![n] = NoExecutor]
    /\ End({e}, "ended")
    /\ retiring' = [retiring EXCEPT ![e] = "delete"]
    /\ answer' = "none"
    /\ UNCHANGED <<closed, restarts, executorVars, gone, procVars, callVars>>

(* Mutant of NoneInside: the call in flight is not waited for.             *)
SomeoneInside(e) == TRUE

(* The token of e can be taken.                                            *)
NoneInside(e) == admission[e] = Nobody

(* retire: wait for the token, or until the context ends, then kill the    *)
(* process and note the tab.                                               *)
Retire(e) ==
    /\ retiring[e] \in {"delete", "shutdown"}
    /\ gone' = IF NoneInside(e) THEN gone \cup {e} ELSE gone
    /\ Kill(Process(e))
    /\ retiring' = [retiring EXCEPT ![e] =
                      IF target[e] = "none" THEN "done"
                      ELSE IF @ = "delete" THEN "close" ELSE "last"]
    /\ answer' = "none"
    /\ UNCHANGED <<managerVars, executorVars, watch, callVars>>

(* The tab is closed, or that fails, or the request did not ask for it.    *)
(* Shutdown closes tabs once every executor is retired.                    *)
CloseTab(e) ==
    /\ \/ retiring[e] = "close"
       \/ /\ retiring[e] = "last"
          /\ \A f \in Objects : retiring[f] # "shutdown"
    /\ retiring' = [retiring EXCEPT ![e] = "done"]
    /\ \/ /\ target' = [target EXCEPT ![e] = "closed"]
          /\ UNCHANGED gone
       \/ /\ gone' = gone \ {e}
          /\ UNCHANGED target
    /\ answer' = "none"
    /\ UNCHANGED <<managerVars, admission, child, procVars, callVars>>

Shutdown ==
    LET all == {e \in Objects : Registered(e)} IN
    /\ ~closed
    /\ closed' = TRUE
    /\ executors' = [n \in Names |-> NoExecutor]
    /\ End(all, "ended")
    /\ retiring' = [e \in Objects |-> IF e \in all THEN "shutdown" ELSE retiring[e]]
    /\ answer' = "none"
    /\ UNCHANGED <<restarts, executorVars, gone, procVars, callVars>>

(* context.AfterFunc(life, child.kill) runs.                               *)
LifeKills(k) ==
    /\ watch[k] # NoLife
    /\ Ended(watch[k])
    /\ watch' = [watch EXCEPT ![k] = NoLife]
    /\ Kill({k})
    /\ answer' = "none"
    /\ UNCHANGED <<managerVars, executorVars, endVars, callVars>>

(* A daemon process exits by itself.                                       *)
Crash(k) ==
    /\ proc[k] = "up"
    /\ proc' = [proc EXCEPT ![k] = "dead"]
    /\ answer' = "none"
    /\ UNCHANGED <<managerVars, executorVars, endVars, killed, watch, callVars>>

(* Somebody closes the tab in the browser.                                 *)
TabClosed(e) ==
    /\ target[e] = "open"
    /\ target' = [target EXCEPT ![e] = "closed"]
    /\ answer' = "none"
    /\ UNCHANGED <<managerVars, admission, child, endVars, procVars, callVars>>

Call(c) ==
    \/ EnsureChild(c) \/ Booted(c) \/ BootFails(c) \/ OpenTab(c) \/ Send(c)
    \/ DaemonAnswers(c) \/ AnswerLost(c) \/ Respond(c) \/ SendFailed(c)

PlaywrightNext ==
    \/ \E c \in Executions :
        \/ \E n \in Requested : ExecutorFor(c, n)
        \/ GiveUp(c) \/ Admit(c) \/ Call(c)
    \/ RestartDefault
    \/ \E n \in Names : Delete(n)
    \/ \E e \in Objects : Retire(e) \/ CloseTab(e) \/ TabClosed(e)
    \/ Shutdown
    \/ \E k \in Children : LifeKills(k) \/ Crash(k)

(* Every step of a call is bounded by a deadline (start, the tab, the      *)
(* socket) and tokens are handed out first come, first served.  Nothing    *)
(* makes a caller or a DELETE give up.                                     *)
PlaywrightFairness ==
    /\ \A c \in Executions : WF_playwrightVars(Call(c)) /\ SF_playwrightVars(Admit(c))
    /\ \A e \in Objects :
        /\ SF_playwrightVars(admission[e] = Nobody /\ Retire(e))
        /\ WF_playwrightVars(CloseTab(e))
    /\ \A k \in Children : WF_playwrightVars(LifeKills(k))

PlaywrightSpec == PlaywrightInit /\ [][PlaywrightNext]_playwrightVars /\ PlaywrightFairness
-----------------------------------------------------------------------------
(* Every process group that has not been signalled is being started by a   *)
(* call, or will be killed when the life it was started under ends: none   *)
(* is left behind by a crash, a deletion, a restart or a shutdown, also    *)
(* while the process is starting (lines 328-330, 119-122).                 *)
NoStrayProcess ==
    \A k \in Children :
        (proc[k] # "none" /\ k \notin killed) =>
            \/ watch[k] # NoLife
            \/ \E c \in Executions : pc[c] = "boot" /\ using[c] = k

Returns(c) == pc[c] # "idle" /\ pc'[c] = "idle"

(* The code of a call runs at most once, also when the call is sent again  *)
(* with a new tab ("it is safe to send it again", line 292), and a call    *)
(* answered 409 or 500 did not run it: the keep function of an idempotent  *)
(* call releases the key for those (playwright.go:79-83).                  *)
RunsAsAnswered ==
    [][\A c \in Executions :
         /\ codeRan'[c] <= 1
         /\ (Returns(c) /\ answer' \in {"409", "500"}) => codeRan[c] = 0]_playwrightVars

(* A DELETE or shutdown that waited for the call in flight leaves nothing  *)
(* behind: no call drives the executor, its process is killed, and once    *)
(* its tab is closed none is opened any more (lines 492-496).              *)
RetiredIsQuiet ==
    \A e \in gone :
        /\ \A c \in Executions : on[c] = e => ~Inside(c)
        /\ child[e] # NoChild => child[e] \in killed
        /\ retiring[e] = "done" => target[e] # "open"

(* Restarting the default executor spares the calls queued on it           *)
(* (openapi.yaml, DELETE /playwright/executors): none of them comes back   *)
(* before it is admitted, unless its caller gives up or all is shut down.  *)
(* That one that is admitted runs on the new process is not stated here.   *)
RestartSparesQueued ==
    [][\A c \in Executions :
         (Returns(c) /\ pc[c] = "waiting" /\ on[c] = Default /\ ~closed)
            => answer' = "cancelled"]_playwrightVars

(* A call answered 200 was handed to its executor, as long as the server   *)
(* is not shutting down.  keep remembers these answers, and "every other   *)
(* outcome means the call did not run" (idempotency.go:36-37);             *)
(* openapi.yaml:2157-2158: "A call that did not run ... does not use up    *)
(* its key".                                                               *)
KeptWasHanded ==
    [][\A c \in Executions :
         (Returns(c) /\ answer' = "200" /\ ~closed) => c \in handed]_playwrightVars

(* A DELETE, or a Shutdown, that nobody gives up is done with every        *)
(* executor it removes, whatever runs on it or is queued.                  *)
RetireEnds ==
    \A e \in Objects : (retiring[e] \in {"delete", "shutdown"}) ~> (retiring[e] = "done")

=============================================================================

--------------------------------- MODULE WebMcp ---------------------------------
(***************************************************************************)
(* Invocations of the tools a page offers (lib/webmcpclient/client.go), on *)
(* one connection to the browser (lib/cdpclient): the command that starts  *)
(* a tool is answered at once, and the result of the tool comes later, as  *)
(* an event.  Events are handled in order by one goroutine; answers to     *)
(* commands pass them by.  In between, the page may navigate, crash, lose  *)
(* a frame, or go.                                                         *)
(***************************************************************************)
EXTENDS Naturals, Sequences

CONSTANTS
    Invocations,    \* requests to invoke a tool
    MaxTroubles     \* bounds what goes wrong: with the page, the connection, the caller

VARIABLES
    page,       \* the browser: the frames of the page, and whether it is "up",
                \* "loading" another document, "crashed" or "closed"
    run,        \* the browser: each tool
    reply,      \* the browser's answer to WebMCP.invokeTool
    connection, \* "open"; "lost": the socket is gone; "closed": by close()
    events,     \* sent by the browser and not handled yet
    sessionEnabled, enabling,   \* enabledSessions[the page], enableSession
    tools,      \* the frames whose tool is registered
    invocation, \* stage, frame, and whether the tool is a form to be submitted
    waiting,    \* waitingInvocations
    completed, abandoned,
    over,       \* requests whose context has ended
    answer,
    unseen,     \* history: the event that ended their page came before they were
                \* registered, when the client has nothing to mark
    dropped,    \* history: the client was told that their frame is invalidated
    troubles

browserVars == <<page, run, reply>>
clientVars == <<sessionEnabled, enabling, tools, waiting, completed, abandoned,
               unseen, dropped>>
callVars == <<invocation, over, answer>>
webVars == <<browserVars, connection, events, clientVars, callVars, troubles>>

Frames == {"main", "child"}
NotWaiting == [on |-> FALSE, replaced |-> FALSE, unloaded |-> FALSE]
Waiting == [on |-> TRUE, replaced |-> FALSE, unloaded |-> FALSE]
Of(f) == {i \in Invocations : invocation[i].frame = f}

Event(kind, subject) == [kind |-> kind, of |-> subject]

Trouble == troubles < MaxTroubles /\ troubles' = troubles + 1

WebInit ==
    /\ page = [frames |-> Frames, is |-> "up"]
    /\ run = [i \in Invocations |-> "no"]
    /\ reply = [i \in Invocations |-> "none"]
    /\ connection = "open"
    /\ events = <<Event("ready", "main"), Event("added", "main"), Event("added", "child")>>
    /\ sessionEnabled = FALSE /\ enabling = "no"
    /\ tools = {}
    /\ waiting = [i \in Invocations |-> NotWaiting]
    /\ completed = {} /\ abandoned = {} /\ unseen = {} /\ dropped = {}
    /\ invocation = [i \in Invocations |-> [stage |-> "new", frame |-> "main", form |-> FALSE]]
    /\ over = {}
    /\ answer = [i \in Invocations |-> "none"]
    /\ troubles = 0

-----------------------------------------------------------------------------
(* The browser.  What it runs when a document goes cannot respond any more.*)
Lost(gone) == [i \in Invocations |-> IF run[i] = "running" /\ i \in gone THEN "lost" ELSE run[i]]
Sends(new) == events' = IF connection = "open" THEN events \o new ELSE events

(* A tool that navigates its own page may respond until the new document   *)
(* is there; the frames of the old one are gone at once.                   *)
Navigate ==
    /\ page.is \in {"up", "crashed"} /\ Trouble
    /\ page' = [frames |-> {"main"}, is |-> "loading"]
    /\ run' = Lost(Of("child"))
    /\ Sends((IF "child" \in page.frames THEN <<Event("invalidated", "child")>> ELSE <<>>)
                \o <<Event("changed", "main")>>)
    /\ UNCHANGED <<reply, connection, clientVars, callVars>>

Loaded ==
    /\ page.is = "loading"
    /\ page' = [page EXCEPT !.is = "up"]
    /\ run' = Lost(Invocations)
    /\ Sends(<<Event("stopped", "main"), Event("added", "main")>>)
    /\ UNCHANGED <<reply, connection, clientVars, callVars, troubles>>

RemoveChild ==
    /\ page.is \in {"up", "loading"} /\ "child" \in page.frames /\ Trouble
    /\ page' = [page EXCEPT !.frames = {"main"}]
    /\ run' = Lost(Of("child"))
    /\ Sends(<<Event("gone", "child")>>)
    /\ UNCHANGED <<reply, connection, clientVars, callVars>>

(* The page crashes, or is closed.                                         *)
PageEnds(how) ==
    /\ page.is \in {"up", "loading"} \/ (page.is = "crashed" /\ how = "closed")
    /\ Trouble
    /\ page' = [page EXCEPT !.frames = {}, !.is = how]
    /\ run' = Lost(Invocations)
    /\ Sends(<<Event(how, "main")>>)
    /\ UNCHANGED <<reply, connection, clientVars, callVars>>

(* WebMCP.invokeTool arrives and is answered, if anybody is there.         *)
Accept(i) ==
    /\ reply[i] = "asked"
    /\ \/ /\ invocation[i].frame \in page.frames /\ page.is = "up"
          /\ run' = [run EXCEPT ![i] = "running"]
          /\ reply' = [reply EXCEPT ![i] = "started"]
       \/ /\ reply' = [reply EXCEPT ![i] = "refused"]
          /\ UNCHANGED run
    /\ UNCHANGED <<page, connection, events, clientVars, callVars, troubles>>

Respond(i) ==
    /\ run[i] = "running"
    /\ run' = [run EXCEPT ![i] = "done"]
    /\ Sends(<<Event("responded", i)>>)
    /\ UNCHANGED <<page, reply, connection, clientVars, callVars, troubles>>

-----------------------------------------------------------------------------
(* The connection is lost, or closed because another one replaces it.      *)
ConnectionEnds(how) ==
    /\ connection = "open" \/ (connection = "lost" /\ how = "closed")
    /\ connection' = how /\ Trouble
    /\ events' = IF how = "closed" THEN <<>> ELSE events
    /\ UNCHANGED <<browserVars, clientVars, callVars>>

(* eventsDone is closed once the events of a lost connection are handled.  *)
ExecutionClosed == connection = "closed" \/ (connection = "lost" /\ events = <<>>)

(* Mutant of Abandon: the waiting invocation is not told.                  *)
AbandonQuietly(some) ==
    /\ waiting' = [i \in Invocations |-> IF i \in some \ completed THEN NotWaiting ELSE waiting[i]]
    /\ UNCHANGED abandoned

(* abandonInvocationLocked keeps a result that has come.                   *)
Abandon(some) ==
    LET them == some \ completed IN
    /\ abandoned' = abandoned \cup them
    /\ waiting' = [i \in Invocations |-> IF i \in them THEN NotWaiting ELSE waiting[i]]

WaitingOn(f) == {i \in Of(f) : waiting[i].on}
Early(some) == {i \in some : invocation[i].stage \in {"sent", "started"}}
Mark(some, as) == [i \in Invocations |-> IF i \in some THEN as[i] ELSE waiting[i]]

(* eventLoop.                                                              *)
Handle ==
    /\ connection # "closed" /\ events # <<>>
    /\ events' = Tail(events)
    /\ LET e == Head(events) IN
       \/ /\ e.kind = "ready"
          /\ enabling' = "start"
          /\ UNCHANGED <<sessionEnabled, tools, waiting, completed, abandoned, unseen, dropped>>
       \/ /\ e.kind = "added"
          /\ tools' = tools \cup {e.of}
          /\ UNCHANGED <<sessionEnabled, enabling, waiting, completed, abandoned,
                         unseen, dropped>>
       \/ /\ e.kind = "invalidated"
          /\ tools' = tools \ {e.of}
          /\ dropped' = dropped \cup {i \in Of(e.of) : run[i] = "lost"}
          /\ UNCHANGED <<sessionEnabled, enabling, waiting, completed, abandoned,
                         unseen>>
       \/ /\ e.kind = "changed"
          /\ tools' = tools \ {e.of}
          /\ waiting' = Mark(WaitingOn(e.of), [i \in Invocations |-> [waiting[i] EXCEPT !.replaced = TRUE]])
          /\ unseen' = unseen \cup Early(Of(e.of))
          /\ UNCHANGED <<sessionEnabled, enabling, completed, abandoned, dropped>>
       \/ /\ e.kind = "stopped"
          /\ waiting' = Mark({i \in WaitingOn(e.of) : waiting[i].replaced},
                             [i \in Invocations |-> [waiting[i] EXCEPT !.unloaded = TRUE]])
          /\ unseen' = unseen \cup Early(Of(e.of))
          /\ UNCHANGED <<sessionEnabled, enabling, tools, completed, abandoned, dropped>>
       \/ /\ e.kind = "gone"
          /\ Abandon(WaitingOn(e.of))
          /\ tools' = tools \ {e.of}
          /\ unseen' = unseen \cup Early(Of(e.of))
          /\ UNCHANGED <<sessionEnabled, enabling, completed, dropped>>
       \/ /\ e.kind = "crashed"
          /\ waiting' = Mark({i \in Invocations : waiting[i].on},
                             [i \in Invocations |-> [waiting[i] EXCEPT !.unloaded = TRUE]])
          /\ tools' = {}
          /\ unseen' = unseen \cup Early(Invocations)
          /\ UNCHANGED <<sessionEnabled, enabling, completed, abandoned, dropped>>
       \/ /\ e.kind = "closed"
          /\ sessionEnabled' = FALSE
          /\ Abandon({i \in Invocations : waiting[i].on})
          /\ tools' = {}
          /\ UNCHANGED <<enabling, completed, unseen, dropped>>
       \/ /\ e.kind = "responded"
          /\ completed' = IF e.of \in abandoned THEN completed ELSE completed \cup {e.of}
          /\ UNCHANGED <<sessionEnabled, enabling, tools, waiting, abandoned, unseen,
                         dropped>>
    /\ UNCHANGED <<browserVars, connection, callVars, troubles>>

(* enableSession: the session counts as enabled while it is being enabled. *)
EnableSession ==
    /\ \/ /\ enabling = "start"
          /\ enabling' = IF sessionEnabled THEN "no" ELSE "sending"
          /\ sessionEnabled' = TRUE
       \/ /\ enabling = "sending"
          /\ enabling' = "no"
          /\ sessionEnabled' \in {sessionEnabled, FALSE}
          /\ page.is = "closed" => ~sessionEnabled'
    /\ UNCHANGED <<browserVars, connection, events, tools, waiting, completed,
                   abandoned, unseen, dropped, callVars, troubles>>

-----------------------------------------------------------------------------
(* invoke.                                                                 *)
Goto(i, stage) == invocation' = [invocation EXCEPT ![i].stage = stage]

Answer(i, a) ==
    /\ answer' = [answer EXCEPT ![i] = a]
    /\ Goto(i, "answered")

Invoke(i) ==
    /\ invocation[i].stage = "new"
    /\ \E f \in Frames, form \in BOOLEAN :
        LET known == f \in tools /\ sessionEnabled IN
        /\ invocation' = [invocation EXCEPT ![i] =
                [stage |-> IF known THEN "sending" ELSE "answered", frame |-> f, form |-> form]]
        /\ answer' = [answer EXCEPT ![i] = IF known THEN @ ELSE "not found"]
    /\ UNCHANGED <<browserVars, connection, events, clientVars, over, troubles>>

(* Send: the command is written under the context of the connection, and   *)
(* not at all once that of the caller is over.                             *)
Write(i) ==
    /\ invocation[i].stage = "sending" /\ i \notin over /\ connection = "open"
    /\ reply' = [reply EXCEPT ![i] = "asked"]
    /\ Goto(i, "sent")
    /\ UNCHANGED <<page, run, connection, events, clientVars, over, answer, troubles>>

(* Mutant of Failed: only an ended context makes an outcome unknown.       *)
FailedPlainly(i, why) == IF why = "over" THEN "unknown" ELSE "refused"

(* An error of Send is one of the tool unless it leaves the outcome open.  *)
Failed(i, why) == IF why \in {"over", "closed"} \/ ~sessionEnabled THEN "unknown" ELSE "refused"

(* A write that fails has not left a whole command with the browser.       *)
WriteFails(i) ==
    /\ invocation[i].stage = "sending"
    /\ \E why \in (IF i \in over THEN {"over"} ELSE {})
                    \cup (IF connection = "open" THEN {} ELSE {"closed", "broken"}) :
        Answer(i, Failed(i, why))
    /\ UNCHANGED <<browserVars, connection, events, clientVars, over, troubles>>

(* The answer to the command, or the end of the context or the connection  *)
(* while it is still on its way.                                           *)
Returned(i) ==
    /\ invocation[i].stage = "sent"
    /\ \/ /\ reply[i] = "started" /\ Goto(i, "started") /\ UNCHANGED answer
       \/ /\ reply[i] = "refused" /\ Answer(i, Failed(i, "refused"))
       \/ /\ i \in over /\ Answer(i, Failed(i, "over"))
       \/ /\ connection # "open" /\ Answer(i, Failed(i, "closed"))
    /\ UNCHANGED <<browserVars, connection, events, clientVars, over, troubles>>

(* A form that the page leaves to the user to submit is not waited for.    *)
Register(i) ==
    /\ invocation[i].stage = "started"
    /\ IF invocation[i].form
       THEN /\ Answer(i, IF i \in completed THEN "result" ELSE "awaiting submission")
            /\ completed' = completed \ {i}
            /\ abandoned' = IF i \in completed THEN abandoned ELSE abandoned \cup {i}
            /\ UNCHANGED waiting
       ELSE /\ waiting' = [waiting EXCEPT ![i] = Waiting]
            /\ Goto(i, "waiting")
            /\ UNCHANGED <<completed, abandoned, answer>>
    /\ UNCHANGED <<browserVars, connection, events, sessionEnabled, enabling,
                   tools, unseen, dropped, over, troubles>>

(* Rounds of the loop; what it sees first comes first.                     *)
TakesResult(i) ==
    /\ invocation[i].stage = "waiting" /\ i \in completed
    /\ completed' = completed \ {i}
    /\ waiting' = [waiting EXCEPT ![i] = NotWaiting]
    /\ Answer(i, "result")
    /\ UNCHANGED <<browserVars, connection, events, sessionEnabled, enabling,
                   tools, abandoned, unseen, dropped, over, troubles>>

FindsAbandoned(i) ==
    /\ invocation[i].stage = "waiting" /\ i \in abandoned \ completed
    /\ Answer(i, "unknown")
    /\ UNCHANGED <<browserVars, connection, events, clientVars, over, troubles>>

FindsUnloaded(i) ==
    /\ invocation[i].stage = "waiting" /\ i \notin completed \cup abandoned
    /\ waiting[i].unloaded
    /\ abandoned' = abandoned \cup {i}
    /\ waiting' = [waiting EXCEPT ![i] = NotWaiting]
    /\ Answer(i, "unloaded")
    /\ UNCHANGED <<browserVars, connection, events, sessionEnabled, enabling,
                   tools, completed, unseen, dropped, over, troubles>>

(* Mutant of GivesUp: abandonInvocationLocked's answer is not looked at.   *)
GivesUpAnyway(i) ==
    /\ invocation[i].stage = "waiting" /\ i \notin abandoned
    /\ ~sessionEnabled \/ ExecutionClosed \/ i \in over
    /\ Abandon({i})
    /\ Answer(i, "unknown")
    /\ UNCHANGED <<browserVars, connection, events, sessionEnabled, enabling,
                   tools, completed, unseen, dropped, over, troubles>>

GivesUp(i) ==
    /\ invocation[i].stage = "waiting" /\ i \notin abandoned
    /\ ~sessionEnabled \/ ExecutionClosed \/ i \in over
    /\ Abandon({i})
    /\ IF i \in completed THEN UNCHANGED <<invocation, answer>> ELSE Answer(i,
                                           "unknown")
    /\ UNCHANGED <<browserVars, connection, events, sessionEnabled, enabling,
                   tools, completed, unseen, dropped, over, troubles>>

ContextEnds(i) ==
    /\ invocation[i].stage \notin {"new", "answered"} /\ i \notin over /\ Trouble
    /\ over' = over \cup {i}
    /\ UNCHANGED <<browserVars, connection, events, clientVars, invocation, answer>>

-----------------------------------------------------------------------------
BrowserStep ==
    \/ Navigate \/ Loaded \/ RemoveChild
    \/ PageEnds("crashed") \/ PageEnds("closed")
    \/ \E i \in Invocations : Accept(i) \/ Respond(i)

InvocationStep(i) ==
    \/ Write(i) \/ WriteFails(i) \/ Returned(i) \/ Register(i)
    \/ TakesResult(i) \/ FindsAbandoned(i) \/ FindsUnloaded(i) \/ GivesUp(i)

WebNext ==
    \/ BrowserStep \/ Handle \/ EnableSession
    \/ ConnectionEnds("lost") \/ ConnectionEnds("closed")
    \/ \E i \in Invocations : Invoke(i) \/ InvocationStep(i) \/ ContextEnds(i)

WebFairness ==
    /\ WF_webVars(Handle) /\ WF_webVars(EnableSession)
    /\ \A i \in Invocations : WF_webVars(InvocationStep(i))

WebSpec == WebInit /\ [][WebNext]_webVars /\ WebFairness

-----------------------------------------------------------------------------
(* "do not retry automatically" goes with answers that leave the outcome   *)
(* open: after another error the tool has not run, and will not.           *)
RefusedDidNotRun == \A i \in Invocations :
    answer[i] \in {"not found", "refused"} => run[i] = "no" /\ reply[i] # "asked"

(* A result that has come to an invocation that waits is its answer,       *)
(* whatever else has happened to the page, the connection or the caller.   *)
ResultIsKept == [][\A i \in Invocations :
    (invocation[i].stage = "waiting" /\ i \in completed /\ answer'[i] # answer[i])
        => answer'[i] = "result"]_webVars

(* An invocation whose tool can never respond is answered without waiting  *)
(* for its deadline (unloadedPageGrace, client.go:28).  It may wait in two *)
(* cases, and in no other: its document went before it was registered as   *)
(* waiting, or its frame went with the page that had it, in which case the *)
(* client is told that the frame is invalidated (frames.go:283) and drops  *)
(* the tools of the frame but abandons nothing (client.go:135).            *)
FailsFast == \A i \in Invocations :
    (invocation[i].stage = "waiting" /\ run[i] = "lost" /\ i \notin unseen)
        ~> (invocation[i].stage = "answered" \/ i \in dropped)
=============================================================================

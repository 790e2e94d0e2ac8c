-------------------------------- MODULE PtyAttach --------------------------------
(***************************************************************************)
(* Terminals (cmd/api/api/pty_output.go, process.go): the output of a      *)
(* terminal goes to a ring; an attached client is sent what the ring       *)
(* holds, what is written after that, and the exit of the process.  A      *)
(* session is a forwarder, a writer, a reader and a watcher of the exit,   *)
(* which all have to end before another client may attach.                 *)
(***************************************************************************)
EXTENDS Naturals, Sequences

CONSTANTS
    Window,         \* ptyReplayBytes
    ChanCap,        \* the capacity of writeCh
    MaxOut,         \* bounds what the process writes
    MaxSessions     \* bounds how often a client attaches

ASSUME PtyAssumption ==
    /\ Window \in Nat \ {0} /\ ChanCap \in Nat
    /\ MaxOut \in Nat /\ MaxSessions \in Nat

VARIABLES
    start, end, delivered,  \* ptyOutput
    sink,           \* the session whose sink is installed, or 0
    doneCh,         \* it is closed: the process has exited
    session,        \* the number of the latest session
    main, done,     \* its handler, and what closed its channel done
    forwarder, copied,      \* forward of every session; what it is sending
    writeCh, writer,
    wsReader,       \* it waits for the client
    watcher,
    client,         \* what it has received; torn: out of order, or with a gap
                    \* that the ring does not explain
    torn

ringVars == <<start, end, delivered, sink, doneCh>>
sessionVars == <<session, main, done, forwarder, copied, writeCh, writer, wsReader, watcher>>
ptyVars == <<ringVars, sessionVars, client, torn>>

Sessions == 1..MaxSessions
Nothing == [from |-> 0, to |-> 0, oldest |-> 0]
ExitMessage == [from |-> 0, to |-> 0, oldest |-> 1]
NoClient == [open |-> FALSE, got |-> 0, exit |-> FALSE]

PtyInit ==
    /\ start = 0 /\ end = 0 /\ delivered = 0 /\ sink = 0
    /\ doneCh = FALSE
    /\ session = 0 /\ main = "idle" /\ done = "no"
    /\ forwarder = [s \in Sessions |-> "none"]
    /\ copied = [s \in Sessions |-> Nothing]
    /\ writeCh = <<>> /\ writer = "gone"
    /\ wsReader = FALSE /\ watcher = "gone"
    /\ client = NoClient /\ torn = FALSE

Later(a, b) == IF a > b THEN a ELSE b

-----------------------------------------------------------------------------
(* The process: ptyOutput.write, and an exit once its output is drained.   *)
Write(n) ==
    /\ ~doneCh /\ end + n <= MaxOut
    /\ end' = end + n
    /\ start' = IF end' > start + Window THEN end' - Window ELSE start
    /\ UNCHANGED <<delivered, sink, doneCh, sessionVars, client, torn>>

ProcessExits ==
    /\ ~doneCh
    /\ doneCh' = TRUE
    /\ UNCHANGED <<start, end, delivered, sink, sessionVars, client, torn>>

-----------------------------------------------------------------------------
(* HandleProcessAttachWS, if no other session is active.                   *)
Attach ==
    /\ main = "idle" /\ session < MaxSessions
    /\ session' = session + 1
    /\ main' = "serving" /\ done' = "no"
    /\ sink' = session' /\ delivered' = start
    /\ forwarder' = [forwarder EXCEPT ![session'] = "run"]
    /\ writeCh' = <<>> /\ writer' = "run"
    /\ wsReader' = TRUE /\ watcher' = "wait"
    /\ client' = [open |-> TRUE, got |-> 0, exit |-> FALSE]
    /\ UNCHANGED <<start, end, doneCh, copied, torn>>

Over == done # "no"

Done(s) == Over \/ s < session

(* shutdown, which counts once.                                            *)
PtyShutdown(cause) == done' = IF Over THEN done ELSE cause

(* forward: it copies what is next, or ends without a sink.                *)
ForwardCopies(s) ==
    LET next == Later(delivered, start) IN
    /\ forwarder[s] = "run"
    /\ \/ /\ sink = 0
          /\ forwarder' = [forwarder EXCEPT ![s] = "gone"]
          /\ UNCHANGED copied
       \/ /\ sink # 0 /\ next < end
          /\ forwarder' = [forwarder EXCEPT ![s] = "sending"]
          /\ copied' = [copied EXCEPT ![s] = [from |-> next, to |-> end, oldest |-> start]]
    /\ delivered' = next
    /\ UNCHANGED <<start, end, sink, doneCh, session, main, done, writeCh, writer, wsReader,
                   watcher, client, torn>>

(* The sink puts it in the channel, or fails because the session is over.  *)
ForwardSends(s) ==
    /\ forwarder[s] = "sending"
    /\ \/ /\ s < session \/ Len(writeCh) < ChanCap
          /\ writeCh' = IF s = session THEN Append(writeCh, copied[s]) ELSE writeCh
          /\ forwarder' = [forwarder EXCEPT ![s] = "sent"]
          /\ UNCHANGED sink
       \/ /\ Done(s)
          /\ sink' = 0
          /\ forwarder' = [forwarder EXCEPT ![s] = "gone"]
          /\ UNCHANGED writeCh
    /\ UNCHANGED <<start, end, delivered, doneCh, session, main, done, copied, writer, wsReader,
                   watcher, client, torn>>

ForwardAdvances(s) ==
    /\ forwarder[s] = "sent"
    /\ IF sink = 0
         THEN forwarder' = [forwarder EXCEPT ![s] = "gone"] /\ UNCHANGED delivered
         ELSE /\ delivered' = delivered + (copied[s].to - copied[s].from)
              /\ forwarder' = [forwarder EXCEPT ![s] = "run"]
    /\ copied' = [copied EXCEPT ![s] = Nothing]
    /\ UNCHANGED <<start, end, sink, doneCh, session, main, done, writeCh, writer, wsReader,
                   watcher, client, torn>>

-----------------------------------------------------------------------------
(* The client receives a message.                                          *)
Receive(message) ==
    IF message = ExitMessage
      THEN client' = [client EXCEPT !.exit = TRUE] /\ UNCHANGED torn
      ELSE /\ client' = [client EXCEPT !.got = message.to]
           /\ torn' = (torn \/ (client.exit /\ done = "exit")
                        \/ (message.from # client.got /\ message.from # message.oldest)
                        \/ message.from < client.got)

(* The writer goroutine; a write fails if the client has gone, or does not *)
(* read for five seconds, which breaks the connection.                     *)
WriterWrites ==
    /\ writer \in {"run", "drain"} /\ writeCh # <<>>
    /\ writeCh' = Tail(writeCh)
    /\ \/ client.open /\ Receive(Head(writeCh)) /\ UNCHANGED <<writer, done>>
       \/ /\ writer' = "gone" /\ PtyShutdown("broken")
          /\ client' = [client EXCEPT !.open = FALSE]
          /\ UNCHANGED torn
    /\ UNCHANGED <<ringVars, session, main, forwarder, copied, wsReader, watcher>>

WriterEnds ==
    /\ \/ writer = "run" /\ Over /\ writer' = "drain"
       \/ writer = "drain" /\ writeCh = <<>> /\ writer' = "gone"
    /\ UNCHANGED <<ringVars, session, main, done, forwarder, copied, writeCh, wsReader, watcher,
                   client, torn>>

(* The reader goroutine ends with the connection, or at a message if the   *)
(* session is over or the terminal closed.                                 *)
ReaderEnds ==
    /\ wsReader /\ (~client.open \/ Over \/ doneCh)
    /\ wsReader' = FALSE /\ PtyShutdown("broken")
    /\ UNCHANGED <<ringVars, session, main, forwarder, copied, writeCh, writer, watcher, client, torn>>

ClientCloses ==
    /\ client.open
    /\ client' = [client EXCEPT !.open = FALSE]
    /\ UNCHANGED <<ringVars, sessionVars, torn>>

-----------------------------------------------------------------------------
(* flush: everything up to the end has been put in the channel.            *)
Flushed == sink = 0 \/ delivered >= end

(* The watcher flushes, sends the exit and waits for the writer.           *)
WatcherStep ==
    /\ \/ watcher = "wait" /\ doneCh /\ watcher' = "flush" /\ UNCHANGED <<writeCh, done>>
       \/ watcher \in {"wait", "send"} /\ Over /\ watcher' = "gone" /\ UNCHANGED <<writeCh, done>>
       \/ watcher = "flush" /\ Flushed /\ watcher' = "send" /\ UNCHANGED <<writeCh, done>>
       \/ /\ watcher = "send" /\ Len(writeCh) < ChanCap
          /\ writeCh' = Append(writeCh, ExitMessage)
          /\ PtyShutdown("exit") /\ watcher' = "sent"
       \/ watcher = "sent" /\ writer = "gone" /\ watcher' = "gone" /\ UNCHANGED <<writeCh, done>>
    /\ UNCHANGED <<ringVars, session, main, forwarder, copied, writer, wsReader, client, torn>>

(* Mutant of ForwarderGone: a send in flight is not waited for.            *)
ForwarderLeft == TRUE

(* detach waits for the forwarder to leave the sink.                       *)
ForwarderGone == forwarder[session] = "gone"

MainStep ==
    /\ \/ main = "serving" /\ Over /\ main' = "detaching" /\ sink' = 0
       \/ main = "detaching" /\ ForwarderGone /\ main' = "joining" /\ UNCHANGED sink
       \/ /\ main = "joining" /\ writer = "gone" /\ ~wsReader /\ watcher = "gone"
          /\ main' = "idle" /\ UNCHANGED sink
    /\ UNCHANGED <<start, end, delivered, doneCh, session, done, forwarder, copied, writeCh,
                   writer, wsReader, watcher, torn>>
    /\ client' = IF main' = "idle" THEN NoClient ELSE client

-----------------------------------------------------------------------------
ForwardStep(s) == ForwardCopies(s) \/ ForwardSends(s) \/ ForwardAdvances(s)
WriterStep == WriterWrites \/ WriterEnds

PtyNext ==
    \/ \E n \in {1, Window + 1} : Write(n)
    \/ ProcessExits \/ Attach \/ ClientCloses
    \/ \E s \in Sessions : ForwardStep(s)
    \/ WriterStep \/ ReaderEnds \/ WatcherStep \/ MainStep

(* Goroutines run.  A client that is told of the exit closes; nothing else *)
(* is expected of it.                                                      *)
PtyFairness ==
    /\ \A s \in Sessions : WF_ptyVars(ForwardStep(s))
    /\ WF_ptyVars(WriterStep) /\ WF_ptyVars(WatcherStep) /\ WF_ptyVars(MainStep)
    /\ WF_ptyVars(ReaderEnds /\ ~client.open)
    /\ WF_ptyVars(ClientCloses /\ client.exit)

PtySpec == PtyInit /\ [][PtyNext]_ptyVars /\ PtyFairness

-----------------------------------------------------------------------------
(* A client is sent the ring and then what follows, in order, with no gap  *)
(* but what the ring has overwritten, whoever was attached before (detach),*)
(* and nothing after the exit, which follows all of it unless the session  *)
(* was broken off at that moment (attach, flush).                          *)
OutputThenExit == ~torn /\ ((client.exit /\ done = "exit") => client.got = end)

=============================================================================

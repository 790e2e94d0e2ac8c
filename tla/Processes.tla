-------------------------------- MODULE Processes --------------------------------
(***************************************************************************)
(* Managed processes (cmd/api/api/process*.go): the run loop of a process, *)
(* the capture of its output into a log, on a budget that all processes    *)
(* share, the streams that consume the log together, signals, and the      *)
(* release of what is kept of a process that has ended.                    *)
(***************************************************************************)
EXTENDS Naturals, Sequences, FiniteSets, FiniteSetsExt

CONSTANTS
    Procs,          \* processes
    Sources,        \* their output pipes
    Clients,        \* cursorless output streams
    Sizes,          \* what one read from a pipe may yield
    Header,         \* processOutputHeaderSize
    MaxBytes, TotalMaxBytes

ASSUME ProcessAssumption ==
    Sizes \subseteq Nat /\ {Header, MaxBytes, TotalMaxBytes} \subseteq Nat

VARIABLES
    kind,           \* "none", or what created the process
    leader,         \* the group leader
    pipe,           \* who may still write: "eof" when all writers are gone
    capture,        \* captureOutput of each pipe
    loop,           \* run
    causes,         \* what may still terminate it: its deadline, the end of
                    \* the request or of the service
    exited,         \* exitCode # nil
    reason, truncated,
    output,         \* processOutput: open, complete, closed
    failure,        \* o.err
    records, allocated, used,
    position, exitConsumed,
    reader,         \* nextUnread of each stream
    registered,     \* s.procs
    answer,         \* of ProcessExec
    taken,      \* history: what streams were given, the exit as well
    lost            \* history: output was written and is not in the log

procVars == <<kind, leader, pipe, capture, loop, causes>>
statusVars == <<exited, reason, truncated, registered, answer>>
logVars == <<output, failure, records, allocated, used>>
streamVars == <<position, exitConsumed, reader, taken>>
vars == <<procVars, statusVars, logVars, streamVars, lost>>

Causes == {"process_timeout", "process_canceled"}
NoReader == [proc |-> "none", stage |-> "none", at |-> 0]

Init ==
    /\ kind = [p \in Procs |-> "none"]
    /\ leader = [p \in Procs |-> "none"]
    /\ pipe = [p \in Procs |-> [s \in Sources |-> "open"]]
    /\ capture = [p \in Procs |-> [s \in Sources |-> "reading"]]
    /\ loop = [p \in Procs |-> "none"]
    /\ causes = [p \in Procs |-> {}]
    /\ exited = [p \in Procs |-> FALSE]
    /\ reason = [p \in Procs |-> ""]
    /\ truncated = [p \in Procs |-> FALSE]
    /\ output = [p \in Procs |-> "none"]
    /\ failure = [p \in Procs |-> ""]
    /\ records = [p \in Procs |-> <<>>]
    /\ allocated = [p \in Procs |-> 0]
    /\ used = 0
    /\ position = [p \in Procs |-> 0]
    /\ exitConsumed = [p \in Procs |-> FALSE]
    /\ reader = [c \in Clients |-> NoReader]
    /\ registered = {}
    /\ answer = [p \in Procs |-> "none"]
    /\ taken = [p \in Procs |-> <<>>]
    /\ lost = {}

-----------------------------------------------------------------------------
(* terminate: the first reason stays, and the group is killed; the leader  *)
(* may exit at any time as it is.                                          *)
Terminate(p, why, cut) ==
    /\ reason' = [reason EXCEPT ![p] = IF @ = "" THEN why ELSE @]
    /\ truncated' = [truncated EXCEPT ![p] = @ \/ cut]

(* startProcess, once the child runs.  A cause need not come about: a      *)
(* process has a deadline only if it was given one.  It may close what it  *)
(* will not write to.                                                      *)
Start(p) ==
    /\ kind[p] = "none"
    /\ \E k \in {"exec", "spawn"} : kind' = [kind EXCEPT ![p] = k]
    /\ causes' = [causes EXCEPT ![p] = Causes]
    /\ leader' = [leader EXCEPT ![p] = "alive"]
    /\ loop' = [loop EXCEPT ![p] = "waiting"]
    /\ output' = [output EXCEPT ![p] = "open"]
    /\ registered' = registered \cup {p}
    /\ \E closed \in SUBSET Sources :
        pipe' = [pipe EXCEPT ![p] = [s \in Sources |-> IF s \in closed THEN "eof" ELSE "open"]]
    /\ UNCHANGED <<capture, exited, reason, truncated, answer, failure, records,
                   allocated, used, streamVars, lost>>

(* The leader exits, of itself or because it was signalled.                *)
Exit(p) ==
    /\ leader[p] = "alive"
    /\ leader' = [leader EXCEPT ![p] = "zombie"]
    /\ UNCHANGED <<kind, pipe, capture, loop, causes, statusVars, logVars, streamVars, lost>>

(* The last writer of a pipe is gone, or closes it.                        *)
PipeEnds(p, s) ==
    /\ leader[p] # "none" /\ pipe[p][s] = "open"
    /\ pipe' = [pipe EXCEPT ![p][s] = "eof"]
    /\ UNCHANGED <<kind, leader, capture, loop, causes, statusVars, logVars, streamVars, lost>>

-----------------------------------------------------------------------------
(* reserve: what both limits leave.                                        *)
Reserved(p, want) == Min({want, MaxBytes - allocated[p], TotalMaxBytes - used})

(* append, which writes a short record before it fails, or none; the disk  *)
(* may fail it as well.                                                    *)
Append_(p, s, n) ==
    LET want == Header + n
        got == Reserved(p, want)
        stored == got > Header
    IN  \/ /\ allocated' = [allocated EXCEPT ![p] = IF stored THEN @ + got ELSE @]
           /\ used' = IF stored THEN used + got ELSE used
           /\ records' = IF stored THEN [records EXCEPT ![p] = Append(@, got - Header)] ELSE records
           /\ failure' = IF got < want THEN [failure EXCEPT ![p] = "output_limit"] ELSE failure
        \/ /\ stored
           /\ allocated' = [allocated EXCEPT ![p] = @ + got]
           /\ used' = used + got
           /\ failure' = [failure EXCEPT ![p] = "output_error"]
           /\ UNCHANGED records

(* captureOutput reads from its pipe; after a failure of either capture    *)
(* nothing is logged any more.                                             *)
Capture(p, s) ==
    /\ leader[p] # "none" /\ capture[p][s] = "reading" /\ pipe[p][s] = "open"
    /\ \E n \in Sizes :
        IF failure[p] # ""
          THEN UNCHANGED <<allocated, used, records, failure>>
          ELSE Append_(p, s, n)
    /\ capture' = IF failure'[p] # "" THEN [capture EXCEPT ![p][s] = "failed"] ELSE capture
    /\ lost' = IF failure'[p] # "" THEN lost \cup {p} ELSE lost
    /\ UNCHANGED <<kind, leader, pipe, loop, causes, statusVars, output, streamVars>>

CaptureEnds(p, s) ==
    /\ leader[p] # "none" /\ capture[p][s] = "reading" /\ pipe[p][s] # "open"
    /\ capture' = [capture EXCEPT ![p][s] = "ok"]
    /\ UNCHANGED <<kind, leader, pipe, loop, causes, statusVars, logVars, streamVars, lost>>

-----------------------------------------------------------------------------
(* run: its select takes what has happened in any order, until the leader  *)
(* is known to have exited and both captures are done.                     *)
Captured(p) == \A s \in Sources : capture[p][s] = "counted"
Running(p) == loop[p] \in {"waiting", "draining", "drained"}
Finished(p) == loop[p] \in {"draining", "drained"} /\ Captured(p)

SeeExit(p) ==
    /\ loop[p] = "waiting" /\ leader[p] = "zombie"
    /\ loop' = [loop EXCEPT ![p] = "draining"]
    /\ UNCHANGED <<kind, leader, pipe, capture, causes, statusVars, logVars, streamVars, lost>>

(* Mutant of CutsOutput: a capture that failed does not count as a cut.    *)
CutsOnlyWhenDrained == FALSE

CutsOutput == TRUE

SeeCapture(p, s) ==
    /\ Running(p) /\ ~Finished(p) /\ capture[p][s] \in {"ok", "failed"}
    /\ capture' = [capture EXCEPT ![p][s] = "counted"]
    /\ IF capture[p][s] = "failed"
         THEN Terminate(p, failure[p], CutsOutput)
         ELSE UNCHANGED <<reason, truncated>>
    /\ UNCHANGED <<kind, leader, pipe, loop, causes, exited, registered, answer, logVars, streamVars, lost>>

SeeCause(p, why) ==
    /\ Running(p) /\ ~Finished(p) /\ why \in causes[p]
    /\ causes' = [causes EXCEPT ![p] = @ \ {why}]
    /\ Terminate(p, why, FALSE)
    /\ UNCHANGED <<kind, leader, pipe, capture, loop, exited, registered, answer, logVars, streamVars, lost>>

(* Mutant of Drained: a pipe that somebody else holds is left open.        *)
DrainedNothing(p) == pipe[p]

(* The pipes are closed, which ends the captures.                          *)
Drained(p) == [s \in Sources |-> IF pipe[p][s] = "open" THEN "closed" ELSE pipe[p][s]]

(* A second after the exit somebody still holds a pipe: what else was      *)
(* started in the group is killed, and what it writes is lost.             *)
Drain(p) ==
    /\ loop[p] = "draining" /\ ~Finished(p)
    /\ loop' = [loop EXCEPT ![p] = "drained"]
    /\ \E late \in BOOLEAN :
        reason' = IF late /\ "process_timeout" \in causes[p] /\ reason[p] = ""
                    THEN [reason EXCEPT ![p] = "process_timeout"] ELSE reason
    /\ truncated' = [truncated EXCEPT ![p] = TRUE]
    /\ lost' = IF \E s \in Sources : pipe[p][s] = "open" THEN lost \cup {p} ELSE lost
    /\ pipe' = [pipe EXCEPT ![p] = Drained(p)]
    /\ UNCHANGED <<kind, leader, capture, causes, exited, registered, answer, logVars, streamVars>>

(* Reaping and publishing the status are one step under h.mu.              *)
Reap(p) ==
    /\ Finished(p)
    /\ loop' = [loop EXCEPT ![p] = "reaped"]
    /\ leader' = [leader EXCEPT ![p] = "reaped"]
    /\ exited' = [exited EXCEPT ![p] = TRUE]
    /\ UNCHANGED <<kind, pipe, capture, causes, reason, truncated, registered, answer,
                   logVars, streamVars, lost>>

Finish(p) ==
    /\ loop[p] = "reaped"
    /\ loop' = [loop EXCEPT ![p] = "done"]
    /\ output' = [output EXCEPT ![p] = "complete"]
    /\ UNCHANGED <<kind, leader, pipe, capture, causes, statusVars, failure, records, allocated,
                   used, streamVars, lost>>

-----------------------------------------------------------------------------
(* releaseProcess; close gives back what was allocated, once.              *)
Release(p) ==
    /\ registered' = registered \ {p}
    /\ output' = [output EXCEPT ![p] = "closed"]
    /\ used' = used - allocated[p]

(* ProcessExec answers with the whole log, 422 if there is a reason.       *)
ExecAnswers(p) ==
    /\ kind[p] = "exec" /\ output[p] = "complete"
    /\ \/ /\ answer' = [answer EXCEPT ![p] = IF reason[p] = "" THEN "200" ELSE "422"]
          /\ UNCHANGED <<reason, truncated>>
       \/ /\ records[p] # <<>>          \* the log cannot be read
          /\ Terminate(p, "output_error", TRUE)
          /\ answer' = [answer EXCEPT ![p] = "422"]
    /\ Release(p)
    /\ UNCHANGED <<procVars, exited, failure, records, allocated, streamVars, lost>>

(* retainProcess, after 10 seconds or when the service shuts down.         *)
RetentionEnds(p) ==
    /\ kind[p] = "spawn" /\ output[p] = "complete"
    /\ Release(p)
    /\ UNCHANGED <<procVars, exited, reason, truncated, answer, failure, records, allocated,
                   streamVars, lost>>

-----------------------------------------------------------------------------
(* ProcessStdoutStream without a cursor.                                   *)
OpenStream(c, p) ==
    /\ reader[c] = NoReader /\ p \in registered /\ kind[p] = "spawn"
    /\ reader' = [reader EXCEPT ![c] = [proc |-> p, stage |-> "look", at |-> 0]]
    /\ UNCHANGED <<procVars, statusVars, logVars, position, exitConsumed, taken, lost>>

Stop(c) == reader' = [reader EXCEPT ![c] = [@ EXCEPT !.stage = "ended", !.at = 0]]

(* nextUnread reads the shared position and drops the lock.                *)
Look(c) ==
    LET p == reader[c].proc IN
    /\ reader[c].stage = "look"
    /\ IF exitConsumed[p]
         THEN Stop(c)
         ELSE reader' = [reader EXCEPT ![c].stage = "read", ![c].at = position[p]]
    /\ UNCHANGED <<procVars, statusVars, logVars, position, exitConsumed, taken, lost>>

Unread(c) == reader[c].at < Len(records[reader[c].proc])

(* next finds a record, its file closed, or the end; else it waits.        *)
ReadNext(c) ==
    LET p == reader[c].proc IN
    /\ reader[c].stage = "read"
    /\ \/ /\ Unread(c) /\ output[p] = "closed"
          /\ Stop(c)
       \/ /\ Unread(c) /\ output[p] # "closed"
          /\ reader' = [reader EXCEPT ![c].stage = "claim"]
       \/ /\ ~Unread(c) /\ output[p] \in {"complete", "closed"}
          /\ reader' = [reader EXCEPT ![c].stage = "claimExit"]
    /\ UNCHANGED <<procVars, statusVars, logVars, position, exitConsumed, taken, lost>>

(* Mutant of StillUnread: the position is not looked at again.             *)
StillUnreadUnchecked(c) == TRUE

StillUnread(c) ==
    position[reader[c].proc] = reader[c].at /\ ~exitConsumed[reader[c].proc]

(* Under the lock again: the record, or the exit, is this stream's unless  *)
(* another one has taken it.                                               *)
Claim(c) ==
    LET p == reader[c].proc
        exit == reader[c].stage = "claimExit"
    IN  /\ reader[c].stage \in {"claim", "claimExit"}
        /\ IF ~StillUnread(c)
             THEN /\ reader' = [reader EXCEPT ![c].stage = "look"]
                  /\ UNCHANGED <<position, exitConsumed, taken>>
             ELSE /\ position' = [position EXCEPT ![p] = IF exit THEN @ ELSE reader[c].at + 1]
                  /\ exitConsumed' = [exitConsumed EXCEPT ![p] = exit]
                  /\ taken' = [taken EXCEPT ![p] = Append(@, reader[c].at + 1)]
                  /\ IF exit THEN Stop(c) ELSE reader' = [reader EXCEPT ![c].stage = "look"]
        /\ UNCHANGED <<procVars, statusVars, logVars, lost>>

(* The client goes away, with what it has claimed.                         *)
LeaveStream(c) ==
    /\ reader[c].stage \in {"look", "read"}
    /\ Stop(c)
    /\ UNCHANGED <<procVars, statusVars, logVars, position, exitConsumed, taken, lost>>

-----------------------------------------------------------------------------
LoopStep(p) ==
    \/ SeeExit(p) \/ Drain(p) \/ Reap(p) \/ Finish(p)
    \/ \E s \in Sources : CaptureEnds(p, s) \/ SeeCapture(p, s)

EndStep(p) == ExecAnswers(p) \/ RetentionEnds(p)

StreamStep(c) == Look(c) \/ ReadNext(c) \/ Claim(c)

Next ==
    \/ \E p \in Procs :
        \/ Start(p) \/ Exit(p) \/ LoopStep(p) \/ EndStep(p)
        \/ \E s \in Sources : PipeEnds(p, s) \/ Capture(p, s)
        \/ \E why \in Causes : SeeCause(p, why)
    \/ \E c \in Clients :
        \/ StreamStep(c) \/ LeaveStream(c)
        \/ \E p \in Procs : OpenStream(c, p)

(* The goroutines run and the timers fire.  A process need not exit, and   *)
(* what it leaves behind need not close the pipes.                         *)
Fairness ==
    /\ \A p \in Procs : WF_vars(LoopStep(p)) /\ WF_vars(EndStep(p))
    /\ \A c \in Clients : WF_vars(StreamStep(c))

Spec == Init /\ [][Next]_vars /\ Fairness

-----------------------------------------------------------------------------
(* Whatever order exit, failures, deadline and drain come in, a process    *)
(* that lost output is reported truncated (output_truncated).              *)
NothingLostSilently == \A p \in Procs : (exited[p] /\ p \in lost) => truncated[p]

(* "Cursorless streams share consumption" (nextUnread): every record goes  *)
(* to one stream at most, in order, and the exit to one, last.             *)
DeliveredOnce ==
    \A p \in Procs : \A i, j \in DOMAIN taken[p] :
        i < j => taken[p][i] < taken[p][j]

(* A process whose leader has exited is reported and forgotten, even if    *)
(* what it left behind holds its pipes, and its streams end (closeOutput-  *)
(* Pipes, the wake-ups of processOutput).                                  *)
ProcessesEnd ==
    \A p \in Procs :
        leader[p] = "zombie" ~>
            /\ output[p] = "closed"
            /\ \A c \in Clients : reader[c].proc = p => reader[c].stage = "ended"
=============================================================================

------------------------ MODULE ChildProcessesProofs ------------------------
(***************************************************************************)
(* What is lost of a process's output is said to be, and what is kept is   *)
(* streamed once, in order and before the exit, for any processes, pipes   *)
(* and streams and any budget; one REPL runs at a time and refusals are    *)
(* final, for any requests and any number of processes; a client of a      *)
(* terminal is sent its output in order, and then the exit.                *)
(***************************************************************************)
EXTENDS Processes, BrowserRepl, PtyAttach, Integers, TLAPS

-----------------------------------------------------------------------------
(* Managed processes. *)

(* The inductive invariant: the types, with both limits.                   *)
Failures == {"", "output_limit", "output_error"}
Stages == {"none", "look", "read", "claim", "claimExit", "ended"}
Readers == [proc : Procs \cup {"none"}, stage : Stages, at : Nat]

ProcTypeOK ==
    /\ kind \in [Procs -> {"none", "exec", "spawn"}]
    /\ leader \in [Procs -> {"none", "alive", "zombie", "reaped"}]
    /\ pipe \in [Procs -> [Sources -> {"open", "eof", "closed"}]]
    /\ capture \in [Procs -> [Sources -> {"reading", "ok", "failed", "counted"}]]
    /\ loop \in [Procs -> {"none", "waiting", "draining", "drained", "reaped", "done"}]
    /\ causes \in [Procs -> SUBSET Causes]

StatusTypeOK ==
    /\ exited \in [Procs -> BOOLEAN] /\ truncated \in [Procs -> BOOLEAN]
    /\ reason \in [Procs -> Failures \cup Causes]
    /\ registered \subseteq Procs /\ lost \subseteq Procs
    /\ answer \in [Procs -> {"none", "200", "422"}]

LogTypeOK ==
    /\ output \in [Procs -> {"none", "open", "complete", "closed"}]
    /\ failure \in [Procs -> Failures]
    /\ records \in [Procs -> Seq(Nat)]
    /\ allocated \in [Procs -> 0..MaxBytes]
    /\ used \in Int /\ used <= TotalMaxBytes

StreamTypeOK ==
    /\ position \in [Procs -> Nat]
    /\ exitConsumed \in [Procs -> BOOLEAN]
    /\ reader \in [Clients -> Readers]
    /\ taken \in [Procs -> Seq(Nat)]

TypeOK == ProcTypeOK /\ StatusTypeOK /\ LogTypeOK /\ StreamTypeOK

(* A loss is known to the capture that failed, until run has counted it    *)
(* and cut the output short; run counts both before it reports an exit.    *)
LossIsNoticed ==
    \A p \in Procs :
        /\ p \in lost => truncated[p] \/ \E s \in Sources : capture[p][s] = "failed"
        /\ exited[p] => Captured(p)
        /\ loop[p] \in {"reaped", "done"} => exited[p]
        /\ output[p] \in {"complete", "closed"} => loop[p] = "done"

(* The streams have taken the first records, one after the other, and the  *)
(* exit when there are no others to come.                                  *)
TakenInOrder ==
    \A p \in Procs :
        /\ position[p] <= Len(records[p])
        /\ Len(taken[p]) = IF exitConsumed[p] THEN position[p] + 1 ELSE position[p]
        /\ \A i \in 1..Len(taken[p]) : taken[p][i] = i
        /\ exitConsumed[p] => exited[p] /\ position[p] = Len(records[p])

(* What a stream is about to claim is there.                               *)
ReadersKnow ==
    \A c \in Clients :
        LET p == reader[c].proc IN
        /\ reader[c].stage \in Stages \ {"none"} => p \in Procs
        /\ reader[c].stage = "claim" => reader[c].at < Len(records[p])
        /\ reader[c].stage = "claimExit" => exited[p] /\ reader[c].at >= Len(records[p])

ProcessInv == TypeOK /\ LossIsNoticed /\ TakenInOrder /\ ReadersKnow

-----------------------------------------------------------------------------
(* reserve grants no more than what is asked for and what both limits      *)
(* leave.                                                                  *)
LEMMA ReservedFits ==
    ASSUME LogTypeOK, NEW p \in Procs, NEW want \in Nat
    PROVE  /\ Reserved(p, want) \in Int
           /\ Reserved(p, want) <= MaxBytes - allocated[p]
           /\ Reserved(p, want) <= TotalMaxBytes - used
<1> DEFINE left == {want, MaxBytes - allocated[p], TotalMaxBytes - used}
<1>1. MaxBytes - allocated[p] \in Int /\ TotalMaxBytes - used \in Int
  BY ProcessAssumption DEF LogTypeOK
<1>2. \E x \in left : \A y \in left : x <= y
  BY <1>1
<1>3. Min(left) \in left /\ \A y \in left : Min(left) <= y
  BY <1>2 DEF Min
<1> QED
  BY <1>1, <1>3 DEF Reserved

(* A record is as long as what was granted beyond its header, and the log  *)
(* stays within both limits.                                               *)
LEMMA AppendTyped ==
    ASSUME LogTypeOK, NEW p \in Procs, NEW s \in Sources, NEW n \in Sizes, Append_(p, s, n),
           output' = output
    PROVE  LogTypeOK'
<1> DEFINE want == Header + n
           got == Reserved(p, want)
           stored == got > Header
<1>1. want \in Nat /\ Header \in Nat
  BY ProcessAssumption
<1> HIDE DEF want
<1>2. got \in Int /\ got <= MaxBytes - allocated[p] /\ got <= TotalMaxBytes - used
  BY <1>1, ReservedFits
<1> HIDE DEF got
<1>3. stored => allocated[p] + got \in 0..MaxBytes /\ used + got <= TotalMaxBytes
                /\ got - Header \in Nat
  BY <1>1, <1>2, ProcessAssumption DEF LogTypeOK
<1>4. /\ \/ allocated' = [allocated EXCEPT ![p] = IF stored THEN @ + got ELSE @]
         \/ stored /\ allocated' = [allocated EXCEPT ![p] = @ + got]
      /\ \/ used' = used
         \/ stored /\ used' = used + got
      /\ \/ records' = records
         \/ stored /\ records' = [records EXCEPT ![p] = Append(@, got - Header)]
      /\ \/ failure' = failure
         \/ failure' = [failure EXCEPT ![p] = "output_limit"]
         \/ failure' = [failure EXCEPT ![p] = "output_error"]
  BY DEF Append_, want, got
<1>5. allocated' \in [Procs -> 0..MaxBytes]
  BY <1>3, <1>4 DEF LogTypeOK
<1>6. records' \in [Procs -> Seq(Nat)]
  <2>1. records[p] \in Seq(Nat) /\ (stored => Append(records[p], got - Header) \in Seq(Nat))
    BY <1>3 DEF LogTypeOK
  <2> QED
    BY <1>4, <2>1 DEF LogTypeOK
<1>7. failure' \in [Procs -> Failures]
  BY <1>4 DEF LogTypeOK, Failures
<1>8. used' \in Int /\ used' <= TotalMaxBytes
  BY <1>2, <1>3, <1>4 DEF LogTypeOK
<1> QED
  BY <1>5, <1>6, <1>7, <1>8 DEF LogTypeOK

(* Giving back what a process has allocated does not exceed the budget.    *)
LEMMA ReleaseTyped ==
    ASSUME LogTypeOK, registered \subseteq Procs, NEW p \in Procs, Release(p),
           UNCHANGED <<failure, records, allocated>>
    PROVE  LogTypeOK' /\ registered' \subseteq Procs
<1>1. used' \in Int /\ used' <= TotalMaxBytes
  <2>1. allocated[p] \in Int /\ allocated[p] >= 0 /\ used' = used - allocated[p]
    BY ProcessAssumption DEF LogTypeOK, Release
  <2> QED
    BY <2>1, ProcessAssumption DEF LogTypeOK
<1>2. output' \in [Procs -> {"none", "open", "complete", "closed"}]
  BY DEF LogTypeOK, Release
<1> QED
  BY <1>1, <1>2 DEF LogTypeOK, Release

(* Whatever terminates a process is a reason.                              *)
LEMMA TerminateTyped ==
    ASSUME StatusTypeOK, NEW p \in Procs, NEW why \in Failures \cup Causes,
           NEW cut \in BOOLEAN, Terminate(p, why, cut)
    PROVE  /\ reason' \in [Procs -> Failures \cup Causes]
           /\ truncated' \in [Procs -> BOOLEAN]
  BY DEF StatusTypeOK, Terminate

(* What starts, runs and ends a process keeps the types.                   *)
LEMMA LoopTyped ==
    ASSUME TypeOK, NEW p \in Procs, Start(p) \/ Exit(p) \/ LoopStep(p)
    PROVE  TypeOK'
<1> USE DEF TypeOK, ProcTypeOK, StatusTypeOK, LogTypeOK, procVars, statusVars, logVars, streamVars
<1>1. CASE Start(p)
  BY <1>1 DEF Start, StreamTypeOK
<1>2. CASE Exit(p)
  BY <1>2 DEF Exit, StreamTypeOK
<1>3. CASE SeeExit(p)
  BY <1>3 DEF SeeExit, StreamTypeOK
<1>4. CASE Drain(p)
  <2>1. reason' \in [Procs -> Failures \cup Causes]
    <3>1. \/ reason' = reason
          \/ reason' = [reason EXCEPT ![p] = "process_timeout"]
      BY <1>4 DEF Drain
    <3> QED
      BY <3>1 DEF Causes
  <2>2. truncated' \in [Procs -> BOOLEAN] /\ lost' \subseteq Procs
    BY <1>4 DEF Drain
  <2>3. pipe' \in [Procs -> [Sources -> {"open", "eof", "closed"}]]
    <3>1. Drained(p) \in [Sources -> {"open", "eof", "closed"}]
      BY DEF Drained
    <3> QED
      BY <1>4, <3>1 DEF Drain
  <2>4. loop' \in [Procs -> {"none", "waiting", "draining", "drained", "reaped", "done"}]
    BY <1>4 DEF Drain
  <2>5. UNCHANGED <<kind, leader, capture, causes, exited, registered, answer, logVars, streamVars>>
    BY <1>4 DEF Drain
  <2> QED
    BY <2>1, <2>2, <2>3, <2>4, <2>5 DEF StreamTypeOK
<1>5. CASE Reap(p)
  BY <1>5 DEF Reap, StreamTypeOK
<1>6. CASE Finish(p)
  BY <1>6 DEF Finish, StreamTypeOK
<1>7. ASSUME NEW s \in Sources, CaptureEnds(p, s) PROVE TypeOK'
  BY <1>7 DEF CaptureEnds, StreamTypeOK
<1>8. ASSUME NEW s \in Sources, SeeCapture(p, s) PROVE TypeOK'
  <2>1. reason' \in [Procs -> Failures \cup Causes] /\ truncated' \in [Procs -> BOOLEAN]
    <3>1. failure[p] \in Failures \cup Causes /\ CutsOutput \in BOOLEAN
      BY DEF CutsOutput
    <3> QED
      BY <1>8, <3>1, TerminateTyped DEF SeeCapture
  <2>2. capture' \in [Procs -> [Sources -> {"reading", "ok", "failed", "counted"}]]
    BY <1>8 DEF SeeCapture
  <2> QED
    BY <1>8, <2>1, <2>2 DEF SeeCapture, StreamTypeOK
<1> QED
  BY <1>1, <1>2, <1>3, <1>4, <1>5, <1>6, <1>7, <1>8 DEF LoopStep

(* So does what comes from outside, and the end.                           *)
LEMMA OutsideTyped ==
    ASSUME TypeOK, NEW p \in Procs,
           \/ EndStep(p)
           \/ \E s \in Sources : PipeEnds(p, s) \/ Capture(p, s)
           \/ \E why \in Causes : SeeCause(p, why)
    PROVE  TypeOK'
<1> USE DEF TypeOK, ProcTypeOK, StatusTypeOK, procVars, statusVars, logVars, streamVars
<1>1. CASE ExecAnswers(p)
  <2>1. LogTypeOK' /\ registered' \subseteq Procs
    BY <1>1, ReleaseTyped DEF ExecAnswers
  <2>2. reason' \in [Procs -> Failures \cup Causes] /\ truncated' \in [Procs -> BOOLEAN]
    <3>1. CASE UNCHANGED <<reason, truncated>>
      BY <3>1
    <3>2. CASE Terminate(p, "output_error", TRUE)
      BY <3>2, TerminateTyped DEF Failures
    <3> QED
      BY <1>1, <3>1, <3>2 DEF ExecAnswers
  <2>3. answer' \in [Procs -> {"none", "200", "422"}]
    BY <1>1 DEF ExecAnswers
  <2> QED
    BY <1>1, <2>1, <2>2, <2>3 DEF ExecAnswers, StreamTypeOK
<1>2. CASE RetentionEnds(p)
  <2>1. LogTypeOK' /\ registered' \subseteq Procs
    BY <1>2, ReleaseTyped DEF RetentionEnds
  <2> QED
    BY <1>2, <2>1 DEF RetentionEnds, StreamTypeOK
<1>3. ASSUME NEW s \in Sources, PipeEnds(p, s) PROVE TypeOK'
  BY <1>3 DEF PipeEnds, LogTypeOK, StreamTypeOK
<1>4. ASSUME NEW s \in Sources, Capture(p, s) PROVE TypeOK'
  <2>1. LogTypeOK'
    <3>1. CASE failure[p] # ""
      BY <1>4, <3>1 DEF Capture, LogTypeOK
    <3>2. CASE failure[p] = ""
      BY <1>4, <3>2, AppendTyped DEF Capture
    <3> QED
      BY <3>1, <3>2
  <2> QED
    BY <1>4, <2>1 DEF Capture, StreamTypeOK
<1>5. ASSUME NEW why \in Causes, SeeCause(p, why) PROVE TypeOK'
  BY <1>5 DEF SeeCause, Terminate, LogTypeOK, StreamTypeOK
<1> QED
  BY <1>1, <1>2, <1>3, <1>4, <1>5 DEF EndStep

(* A stream goes to another stage, and perhaps to another record.          *)
Moved(c, st, at) ==
    reader' = [reader EXCEPT ![c] = [proc |-> reader[c].proc, stage |-> st, at |-> at]]

(* However the stream handler's place is written, one stream moves.        *)
LEMMA ReaderMoves ==
    ASSUME reader \in [Clients -> Readers], NEW c \in Clients, NEW st, NEW at
    PROVE  /\ reader' = [reader EXCEPT ![c].stage = st] => Moved(c, st, reader[c].at)
           /\ reader' = [reader EXCEPT ![c].stage = st, ![c].at = at] => Moved(c, st, at)
           /\ reader' = [reader EXCEPT ![c] = [@ EXCEPT !.stage = st, !.at = at]]
                => Moved(c, st, at)
<1>1. reader[c] \in Readers
  OBVIOUS
<1>2. [reader[c] EXCEPT !.stage = st]
        = [proc |-> reader[c].proc, stage |-> st, at |-> reader[c].at]
  BY <1>1 DEF Readers
<1>3. [reader[c] EXCEPT !.stage = st, !.at = at]
        = [proc |-> reader[c].proc, stage |-> st, at |-> at]
  <2>1. [reader[c] EXCEPT !.stage = st, !.at = at] = [[reader[c] EXCEPT !.stage = st] EXCEPT !.at = at]
    OBVIOUS
  <2>2. [[proc |-> reader[c].proc, stage |-> st, at |-> reader[c].at] EXCEPT !.at = at]
          = [proc |-> reader[c].proc, stage |-> st, at |-> at]
    OBVIOUS
  <2> QED
    BY <1>2, <2>1, <2>2
<1>4. [reader EXCEPT ![c].stage = st] = [reader EXCEPT ![c] = [reader[c] EXCEPT !.stage = st]]
  OBVIOUS
<1>5. [reader EXCEPT ![c].stage = st, ![c].at = at]
        = [reader EXCEPT ![c] = [reader[c] EXCEPT !.stage = st, !.at = at]]
  OBVIOUS
<1> QED
  BY <1>2, <1>3, <1>4, <1>5 DEF Moved

(* Which step moves it where.                                              *)
LEMMA StreamMoves ==
    ASSUME reader \in [Clients -> Readers], NEW c \in Clients
    PROVE  /\ LeaveStream(c) => Moved(c, "ended", 0)
           /\ Look(c) => \/ Moved(c, "ended", 0)
                         \/ Moved(c, "read", position[reader[c].proc])
           /\ ReadNext(c) => \/ Moved(c, "ended", 0)
                             \/ Moved(c, "claim", reader[c].at) /\ Unread(c)
                             \/ /\ Moved(c, "claimExit", reader[c].at)
                                /\ ~Unread(c) /\ output[reader[c].proc] \in {"complete", "closed"}
           /\ Claim(c) => Moved(c, "ended", 0) \/ Moved(c, "look", reader[c].at)
<1>1. Stop(c) => Moved(c, "ended", 0)
  BY ReaderMoves DEF Stop
<1>2. LeaveStream(c) => Moved(c, "ended", 0)
  BY <1>1 DEF LeaveStream
<1>3. Look(c) => Moved(c, "ended", 0) \/ Moved(c, "read", position[reader[c].proc])
  BY <1>1, ReaderMoves DEF Look
<1>4. ReadNext(c) => \/ Moved(c, "ended", 0)
                     \/ Moved(c, "claim", reader[c].at) /\ Unread(c)
                     \/ /\ Moved(c, "claimExit", reader[c].at)
                        /\ ~Unread(c) /\ output[reader[c].proc] \in {"complete", "closed"}
  BY <1>1, ReaderMoves DEF ReadNext
<1>5. Claim(c) => Moved(c, "ended", 0) \/ Moved(c, "look", reader[c].at)
  BY <1>1, ReaderMoves DEF Claim
<1> QED
  BY <1>2, <1>3, <1>4, <1>5

(* A stream's step changes the stream, and what all of them share.         *)
LEMMA StreamTyped ==
    ASSUME TypeOK, ReadersKnow, NEW c \in Clients,
           StreamStep(c) \/ LeaveStream(c) \/ \E p \in Procs : OpenStream(c, p)
    PROVE  TypeOK'
<1> DEFINE p == reader[c].proc
<1>1. reader \in [Clients -> Readers]
  BY DEF TypeOK, StreamTypeOK
<1>2. /\ reader[c].at \in Nat /\ p \in Procs \cup {"none"}
      /\ reader[c].stage \in Stages \ {"none"} => p \in Procs
  BY <1>1 DEF Readers, ReadersKnow
<1>3. ProcTypeOK' /\ StatusTypeOK' /\ LogTypeOK'
  <2>1. UNCHANGED <<procVars, statusVars, logVars, lost>>
    BY DEF StreamStep, Look, ReadNext, Claim, LeaveStream, OpenStream
  <2> QED
    BY <2>1 DEF TypeOK, ProcTypeOK, StatusTypeOK, LogTypeOK, procVars, statusVars, logVars
<1>4. reader' \in [Clients -> Readers]
  <2>1. \A st \in Stages, at \in Nat : Moved(c, st, at) => reader' \in [Clients -> Readers]
    BY <1>1, <1>2 DEF Moved, Readers
  <2>2. {"look", "read", "claim", "claimExit", "ended"} \subseteq Stages /\ 0 \in Nat
    BY DEF Stages
  <2>3. Look(c) => position[p] \in Nat
    BY <1>2 DEF Look, Stages, TypeOK, StreamTypeOK
  <2>4. ASSUME NEW q \in Procs, OpenStream(c, q) PROVE reader' \in [Clients -> Readers]
    BY <1>1, <2>2, <2>4 DEF OpenStream, Readers
  <2> QED
    BY <1>1, <1>2, <2>1, <2>2, <2>3, <2>4, StreamMoves DEF StreamStep
<1>5. position' \in [Procs -> Nat] /\ exitConsumed' \in [Procs -> BOOLEAN]
      /\ taken' \in [Procs -> Seq(Nat)]
  <2>1. CASE ~Claim(c)
    BY <2>1 DEF StreamStep, Look, ReadNext, LeaveStream, OpenStream, TypeOK, StreamTypeOK
  <2>2. CASE Claim(c)
    <3>1. p \in Procs
      BY <1>2, <2>2 DEF Claim, Stages
    <3>2. Append(taken[p], reader[c].at + 1) \in Seq(Nat)
      BY <1>2, <3>1 DEF TypeOK, StreamTypeOK
    <3>3. /\ position' = position \/ \E n \in Nat : position' = [position EXCEPT ![p] = n]
          /\ exitConsumed' = exitConsumed \/ \E e \in BOOLEAN : exitConsumed' = [exitConsumed EXCEPT ![p] = e]
          /\ taken' = taken \/ taken' = [taken EXCEPT ![p] = Append(@, reader[c].at + 1)]
      <4>1. position[p] \in Nat /\ reader[c].at + 1 \in Nat
        BY <1>2, <3>1 DEF TypeOK, StreamTypeOK
      <4> QED
        BY <2>2, <4>1 DEF Claim
    <3>4. /\ position \in [Procs -> Nat] /\ exitConsumed \in [Procs -> BOOLEAN]
          /\ taken \in [Procs -> Seq(Nat)]
      BY DEF TypeOK, StreamTypeOK
    <3>5. position' \in [Procs -> Nat]
      BY <3>1, <3>3, <3>4
    <3>6. exitConsumed' \in [Procs -> BOOLEAN]
      BY <3>1, <3>3, <3>4
    <3>7. taken' \in [Procs -> Seq(Nat)]
      BY <3>1, <3>2, <3>3, <3>4
    <3> QED
      BY <3>5, <3>6, <3>7
  <2> QED
    BY <2>1, <2>2
<1> QED
  BY <1>3, <1>4, <1>5 DEF TypeOK, StreamTypeOK

-----------------------------------------------------------------------------
(* What happens to a process, by whoever's doing.                          *)
ProcessStep(p) ==
    \/ Start(p) \/ Exit(p) \/ LoopStep(p) \/ EndStep(p)
    \/ \E s \in Sources : PipeEnds(p, s) \/ Capture(p, s)
    \/ \E why \in Causes : SeeCause(p, why)

(* It leaves other processes alone, but for the budget.                    *)
LEMMA ProcessesApart ==
    ASSUME TypeOK, NEW p \in Procs, ProcessStep(p), NEW q \in Procs, q # p
    PROVE  /\ capture'[q] = capture[q] /\ loop'[q] = loop[q] /\ output'[q] = output[q]
           /\ exited'[q] = exited[q] /\ truncated'[q] = truncated[q]
           /\ records'[q] = records[q] /\ (q \in lost' => q \in lost)
<1> USE DEF TypeOK, ProcTypeOK, StatusTypeOK, LogTypeOK, procVars, statusVars, logVars, streamVars
<1>1. CASE Start(p)
  BY <1>1 DEF Start
<1>2. CASE Exit(p)
  BY <1>2 DEF Exit
<1>3. CASE LoopStep(p)
  <2>1. CASE SeeExit(p) \/ Reap(p) \/ Finish(p)
    BY <2>1 DEF SeeExit, Reap, Finish
  <2>2. CASE Drain(p)
    BY <2>2 DEF Drain
  <2>3. ASSUME NEW s \in Sources, CaptureEnds(p, s) \/ SeeCapture(p, s)
        PROVE  /\ UNCHANGED <<loop, output, exited, records, lost>>
               /\ capture'[q] = capture[q] /\ truncated'[q] = truncated[q]
    BY <2>3 DEF CaptureEnds, SeeCapture, Terminate
  <2> QED
    BY <1>3, <2>1, <2>2, <2>3 DEF LoopStep
<1>4. CASE EndStep(p)
  <2>1. /\ UNCHANGED <<capture, loop, exited, records, lost>>
        /\ output' = [output EXCEPT ![p] = "closed"]
        /\ UNCHANGED truncated \/ Terminate(p, "output_error", TRUE)
    BY <1>4 DEF EndStep, ExecAnswers, RetentionEnds, Release
  <2> QED
    BY <2>1 DEF Terminate
<1>5. ASSUME NEW s \in Sources, PipeEnds(p, s) \/ Capture(p, s)
      PROVE  /\ capture'[q] = capture[q] /\ loop'[q] = loop[q] /\ output'[q] = output[q]
             /\ exited'[q] = exited[q] /\ truncated'[q] = truncated[q]
             /\ records'[q] = records[q] /\ (q \in lost' => q \in lost)
  <2>1. CASE PipeEnds(p, s)
    BY <2>1 DEF PipeEnds
  <2>2. CASE Capture(p, s)
    <3>1. UNCHANGED <<loop, output, exited, truncated>> /\ lost' \in {lost, lost \cup {p}}
      BY <2>2 DEF Capture
    <3>2. capture'[q] = capture[q]
      BY <2>2 DEF Capture
    <3>3. \A n : Append_(p, s, n) => records'[q] = records[q]
      BY DEF Append_
    <3>4. records'[q] = records[q]
      BY <2>2, <3>3 DEF Capture
    <3> QED
      BY <3>1, <3>2, <3>4
  <2> QED
    BY <1>5, <2>1, <2>2
<1>6. ASSUME NEW why \in Causes, SeeCause(p, why)
      PROVE  /\ capture'[q] = capture[q] /\ loop'[q] = loop[q] /\ output'[q] = output[q]
             /\ exited'[q] = exited[q] /\ truncated'[q] = truncated[q]
             /\ records'[q] = records[q] /\ (q \in lost' => q \in lost)
  BY <1>6 DEF SeeCause, Terminate
<1> QED
  BY <1>1, <1>2, <1>3, <1>4, <1>5, <1>6 DEF ProcessStep

(* What a loss is known by stays, until the output is reported truncated.  *)
NoticedOf(p) ==
    /\ p \in lost => truncated[p] \/ \E s \in Sources : capture[p][s] = "failed"
    /\ exited[p] => Captured(p)
    /\ loop[p] \in {"reaped", "done"} => exited[p]
    /\ output[p] \in {"complete", "closed"} => loop[p] = "done"

(* A capture that loses bytes ends as failed.                              *)
LEMMA CaptureNotices ==
    ASSUME TypeOK, LossIsNoticed, NEW p \in Procs, NEW s \in Sources, Capture(p, s)
    PROVE  NoticedOf(p)'
<1>1. /\ capture[p][s] = "reading" /\ NoticedOf(p)
      /\ UNCHANGED <<loop, exited, truncated, output>>
      /\ \/ capture' = [capture EXCEPT ![p][s] = "failed"] /\ lost' = lost \cup {p}
         \/ UNCHANGED <<capture, lost>>
  BY DEF LossIsNoticed, NoticedOf, Capture, statusVars
<1>2. ~exited[p]
  BY <1>1 DEF NoticedOf, Captured
<1>3. CASE capture' = [capture EXCEPT ![p][s] = "failed"]
  <2>1. capture'[p][s] = "failed"
    BY <1>3 DEF TypeOK, ProcTypeOK
  <2> QED
    BY <1>1, <1>2, <2>1 DEF NoticedOf
<1>4. CASE UNCHANGED <<capture, lost>>
  BY <1>1, <1>4 DEF NoticedOf, Captured
<1> QED
  BY <1>1, <1>3, <1>4

(* run counts each capture and cuts the output short when one has failed.  *)
LEMMA LoopNotices ==
    ASSUME TypeOK, LossIsNoticed, NEW p \in Procs, LoopStep(p)
    PROVE  NoticedOf(p)'
<1> USE DEF TypeOK, ProcTypeOK, StatusTypeOK, LogTypeOK, procVars, statusVars, logVars, streamVars
<1>1. NoticedOf(p)
  BY DEF LossIsNoticed, NoticedOf
<1>2. CASE SeeExit(p)
  BY <1>1, <1>2 DEF SeeExit, NoticedOf, Captured
<1>3. CASE Drain(p)
  BY <1>1, <1>3 DEF Drain, NoticedOf, Captured, Finished
<1>4. CASE Reap(p)
  BY <1>1, <1>4 DEF Reap, NoticedOf, Captured, Finished
<1>5. CASE Finish(p)
  BY <1>1, <1>5 DEF Finish, NoticedOf, Captured
<1>6. ASSUME NEW s \in Sources, CaptureEnds(p, s)
      PROVE  NoticedOf(p)'
  <2>1. /\ capture[p][s] = "reading" /\ capture'[p] = [capture[p] EXCEPT ![s] = "ok"]
        /\ UNCHANGED <<loop, exited, truncated, output, lost>>
    BY <1>6 DEF CaptureEnds
  <2>2. ~exited[p]
    BY <1>1, <2>1 DEF NoticedOf, Captured
  <2>3. \A t \in Sources : capture[p][t] = "failed" => capture'[p][t] = "failed"
    BY <2>1
  <2> QED
    BY <1>1, <2>1, <2>2, <2>3 DEF NoticedOf
<1>7. ASSUME NEW s \in Sources, SeeCapture(p, s)
      PROVE  NoticedOf(p)'
  <2>1. /\ capture[p][s] \in {"ok", "failed"} /\ capture'[p] = [capture[p] EXCEPT ![s] = "counted"]
        /\ UNCHANGED <<loop, exited, output, lost>>
    BY <1>7 DEF SeeCapture
  <2>2. ~exited[p]
    BY <1>1, <2>1 DEF NoticedOf, Captured
  <2>3. IF capture[p][s] = "failed" THEN truncated'[p] ELSE truncated'[p] = truncated[p]
    BY <1>7 DEF SeeCapture, Terminate, CutsOutput
  <2>4. \A t \in Sources : t # s => capture'[p][t] = capture[p][t]
    BY <2>1
  <2> QED
    BY <1>1, <2>1, <2>2, <2>3, <2>4 DEF NoticedOf
<1> QED
  BY <1>2, <1>3, <1>4, <1>5, <1>6, <1>7 DEF LoopStep

(* Nothing else takes the notice away.                                     *)
LEMMA OutsideNotices ==
    ASSUME TypeOK, LossIsNoticed, NEW p \in Procs,
           \/ Start(p) \/ Exit(p) \/ EndStep(p)
           \/ \E s \in Sources : PipeEnds(p, s)
           \/ \E why \in Causes : SeeCause(p, why)
    PROVE  NoticedOf(p)'
<1> USE DEF TypeOK, ProcTypeOK, StatusTypeOK, LogTypeOK, procVars, statusVars, logVars, streamVars,
        NoticedOf, Captured
<1>1. NoticedOf(p)
  BY DEF LossIsNoticed
<1>2. CASE Start(p)
  BY <1>1, <1>2 DEF Start
<1>3. CASE Exit(p)
  BY <1>1, <1>3 DEF Exit
<1>4. CASE ExecAnswers(p)
  BY <1>1, <1>4 DEF ExecAnswers, Release, Terminate
<1>5. CASE RetentionEnds(p)
  BY <1>1, <1>5 DEF RetentionEnds, Release
<1>6. ASSUME NEW s \in Sources, PipeEnds(p, s) PROVE NoticedOf(p)'
  BY <1>1, <1>6 DEF PipeEnds
<1>7. ASSUME NEW why \in Causes, SeeCause(p, why) PROVE NoticedOf(p)'
  <2>1. UNCHANGED <<capture, loop, output, exited, records, lost>>
    BY <1>7 DEF SeeCause
  <2>2. truncated' = [truncated EXCEPT ![p] = truncated[p] \/ FALSE]
    BY <1>7 DEF SeeCause, Terminate
  <2>3. truncated'[p] <=> truncated[p]
    BY <2>2
  <2> QED
    BY <1>1, <2>1, <2>3
<1> QED
  BY <1>2, <1>3, <1>4, <1>5, <1>6, <1>7 DEF EndStep

(* So no step of a process or of its callers hides a loss.                 *)
LEMMA ProcessNotices ==
    ASSUME TypeOK, LossIsNoticed, NEW p \in Procs, ProcessStep(p)
    PROVE  LossIsNoticed'
<1>1. NoticedOf(p)'
  BY CaptureNotices, LoopNotices, OutsideNotices DEF ProcessStep
<1>2. ASSUME NEW q \in Procs, q # p PROVE NoticedOf(q)'
  BY <1>2, ProcessesApart DEF LossIsNoticed, NoticedOf, Captured
<1> QED
  BY <1>1, <1>2 DEF LossIsNoticed, NoticedOf

-----------------------------------------------------------------------------
(* A log grows, and stays as it is once the exit is reported; so does what *)
(* the streams know of it.                                                 *)
LEMMA RecordsGrow ==
    ASSUME TypeOK, LossIsNoticed, NEW p \in Procs, ProcessStep(p), NEW q \in Procs
    PROVE  /\ Len(records'[q]) >= Len(records[q])
           /\ exited[q] => exited'[q] /\ records'[q] = records[q]
<1> USE DEF TypeOK, LogTypeOK, StatusTypeOK, procVars, statusVars, logVars
<1>1. CASE q # p
  BY <1>1, ProcessesApart
<1>2. CASE q = p
  <2>1. CASE Start(p) \/ Exit(p) \/ LoopStep(p) \/ EndStep(p)
    <3>1. UNCHANGED records
      BY <2>1 DEF Start, Exit, LoopStep, SeeExit, Drain, Reap, Finish, CaptureEnds, SeeCapture,
         EndStep, ExecAnswers, RetentionEnds
    <3>2. UNCHANGED exited \/ exited' = [exited EXCEPT ![p] = TRUE]
      BY <2>1 DEF Start, Exit, LoopStep, SeeExit, Drain, Reap, Finish, CaptureEnds, SeeCapture,
         EndStep, ExecAnswers, RetentionEnds
    <3> QED
      BY <1>2, <3>1, <3>2
  <2>2. ASSUME NEW why \in Causes, SeeCause(p, why)
        PROVE  UNCHANGED <<records, exited>>
    BY <2>2 DEF SeeCause
  <2>3. ASSUME NEW s \in Sources, PipeEnds(p, s)
        PROVE  UNCHANGED <<records, exited>>
    BY <2>3 DEF PipeEnds
  <2>4. ASSUME NEW s \in Sources, Capture(p, s)
        PROVE  ~exited[p] /\ Len(records'[p]) >= Len(records[p])
    <3>1. capture[p][s] = "reading"
      BY <2>4 DEF Capture
    <3>2. ~exited[p]
      BY <3>1 DEF LossIsNoticed, Captured
    <3>3. CASE UNCHANGED records
      BY <3>2, <3>3
    <3>4. ASSUME NEW n \in Sizes, Reserved(p, Header + n) > Header,
                 records' = [records EXCEPT ![p] = Append(@, Reserved(p, Header + n) - Header)]
          PROVE  Len(records'[p]) >= Len(records[p])
      <4>1. Header + n \in Nat /\ Header \in Nat
        BY ProcessAssumption
      <4>2. Reserved(p, Header + n) - Header \in Nat
        <5>1. Reserved(p, Header + n) \in Int
          BY <4>1, ReservedFits
        <5> QED
          BY <3>4, <4>1, <5>1
      <4>3. \A log \in Seq(Nat), e \in Nat : Len(log) \in Nat /\ Len(Append(log, e)) = Len(log) + 1
        OBVIOUS
      <4>4. records[p] \in Seq(Nat) /\ records'[p] = Append(records[p], Reserved(p, Header + n) - Header)
        BY <3>4
      <4>5. Len(records'[p]) = Len(records[p]) + 1 /\ Len(records[p]) \in Nat
        BY <4>2, <4>3, <4>4
      <4> QED
        BY <4>5
    <3>5. \/ UNCHANGED records
          \/ \E n \in Sizes :
                /\ Reserved(p, Header + n) > Header
                /\ records' = [records EXCEPT ![p] = Append(@, Reserved(p, Header + n) - Header)]
      BY <2>4 DEF Capture, Append_
    <3> QED
      BY <3>2, <3>3, <3>4, <3>5
  <2> QED
    BY <1>2, <2>1, <2>2, <2>3, <2>4 DEF ProcessStep
<1> QED
  BY <1>1, <1>2

(* What the streams know of the logs stays true.                           *)
LEMMA ProcessKeepsStreams ==
    ASSUME ProcessInv, NEW p \in Procs, ProcessStep(p)
    PROVE  TakenInOrder' /\ ReadersKnow'
<1> USE DEF ProcessInv
<1>1. UNCHANGED streamVars
  BY DEF ProcessStep, Start, Exit, LoopStep, SeeExit, Drain, Reap, Finish, CaptureEnds,
     SeeCapture, EndStep, ExecAnswers, RetentionEnds, PipeEnds, Capture, SeeCause
<1>2. \A q \in Procs :
        /\ Len(records[q]) \in Nat /\ Len(records'[q]) \in Nat
        /\ Len(records'[q]) >= Len(records[q])
        /\ exited[q] => exited'[q] /\ records'[q] = records[q]
        /\ position[q] \in Nat
  <2>1. TypeOK'
    BY LoopTyped, OutsideTyped DEF ProcessStep
  <2>2. \A q \in Procs : records[q] \in Seq(Nat) /\ records'[q] \in Seq(Nat) /\ position[q] \in Nat
    BY <2>1 DEF TypeOK, LogTypeOK, StreamTypeOK
  <2> QED
    BY <2>2, RecordsGrow
<1>3. TakenInOrder'
  BY <1>1, <1>2 DEF TakenInOrder, streamVars
<1>4. ReadersKnow'
  <2>1. ASSUME NEW c \in Clients
        PROVE  LET q == reader'[c].proc IN
               /\ reader'[c].stage \in Stages \ {"none"} => q \in Procs
               /\ reader'[c].stage = "claim" => reader'[c].at < Len(records'[q])
               /\ reader'[c].stage = "claimExit" => exited'[q] /\ reader'[c].at >= Len(records'[q])
    <3>1. reader'[c] = reader[c] /\ reader[c].at \in Nat
      BY <1>1 DEF streamVars, TypeOK, StreamTypeOK, Readers
    <3>2. CASE reader[c].stage \in Stages \ {"none"}
      <4>1. reader[c].proc \in Procs
        BY <3>2 DEF ReadersKnow
      <4> QED
        BY <1>2, <3>1, <4>1 DEF ReadersKnow
    <3>3. CASE reader[c].stage \notin Stages \ {"none"}
      BY <3>1, <3>3 DEF Stages
    <3> QED
      BY <3>2, <3>3
  <2> QED
    BY <2>1 DEF ReadersKnow
<1> QED
  BY <1>3, <1>4

-----------------------------------------------------------------------------
(* A stream looks again at what it has read before it claims a record, and *)
(* claims the exit of a log that does not grow any more.                   *)
LEMMA ClaimTakesNext ==
    ASSUME ProcessInv, NEW c \in Clients, Claim(c)
    PROVE  TakenInOrder'
<1> DEFINE p == reader[c].proc
           exit == reader[c].stage = "claimExit"
<1>1. /\ p \in Procs /\ reader[c].at \in Nat
      /\ exit => exited[p] /\ reader[c].at >= Len(records[p])
      /\ ~exit => reader[c].at < Len(records[p])
  BY DEF ProcessInv, ReadersKnow, Stages, Claim, TypeOK, StreamTypeOK, Readers
<1>2. UNCHANGED <<records, exited>>
  BY DEF Claim, logVars, statusVars
<1>3. /\ records[p] \in Seq(Nat) /\ position[p] \in Nat /\ taken[p] \in Seq(Nat)
      /\ Len(records[p]) \in Nat /\ Len(taken[p]) \in Nat
  BY <1>1 DEF ProcessInv, TypeOK, LogTypeOK, StreamTypeOK
<1>4. CASE ~StillUnread(c)
  <2>1. UNCHANGED <<position, exitConsumed, taken>>
    BY <1>4 DEF Claim
  <2> QED
    BY <1>2, <2>1 DEF ProcessInv, TakenInOrder
<1>5. CASE StillUnread(c)
  <2>1. position[p] = reader[c].at /\ ~exitConsumed[p]
    BY <1>5 DEF StillUnread
  <2>2. /\ position[p] <= Len(records[p]) /\ Len(taken[p]) = position[p]
        /\ \A i \in 1..Len(taken[p]) : taken[p][i] = i
    BY <1>1, <2>1 DEF ProcessInv, TakenInOrder
  <2>3. /\ position' = [position EXCEPT ![p] = IF exit THEN @ ELSE reader[c].at + 1]
        /\ exitConsumed' = [exitConsumed EXCEPT ![p] = exit]
        /\ taken' = [taken EXCEPT ![p] = Append(@, reader[c].at + 1)]
    BY <1>5 DEF Claim
  <2>4. /\ exit => exitConsumed'[p] /\ position'[p] = position[p]
        /\ ~exit => ~exitConsumed'[p] /\ position'[p] = position[p] + 1
        /\ taken'[p] = Append(taken[p], position[p] + 1)
    BY <1>1, <2>1, <2>3 DEF ProcessInv, TypeOK, StreamTypeOK
  <2>5. /\ Len(taken'[p]) = position[p] + 1
        /\ \A i \in 1..Len(taken'[p]) : taken'[p][i] = i
    BY <1>3, <2>2, <2>4
  <2>6. /\ position'[p] <= Len(records'[p])
        /\ Len(taken'[p]) = IF exitConsumed'[p] THEN position'[p] + 1 ELSE position'[p]
        /\ exitConsumed'[p] => exited'[p] /\ position'[p] = Len(records'[p])
    <3>1. CASE exit
      BY <1>1, <1>2, <1>3, <2>1, <2>2, <2>4, <2>5, <3>1
    <3>2. CASE ~exit
      BY <1>1, <1>2, <1>3, <2>1, <2>2, <2>4, <2>5, <3>2
    <3> QED
      BY <3>1, <3>2
  <2>7. \A q \in Procs : q # p => /\ position'[q] = position[q] /\ taken'[q] = taken[q]
                                 /\ exitConsumed'[q] = exitConsumed[q]
    BY <2>3 DEF ProcessInv, TypeOK, StreamTypeOK
  <2> QED
    BY <1>2, <2>5, <2>6, <2>7 DEF ProcessInv, TakenInOrder
<1> QED
  BY <1>4, <1>5

(* What a stream has read is there when it claims it.                      *)
LEMMA StreamKnows ==
    ASSUME ProcessInv, NEW c \in Clients,
           StreamStep(c) \/ LeaveStream(c) \/ \E p \in Procs : OpenStream(c, p)
    PROVE  ReadersKnow'
<1> DEFINE p == reader[c].proc
<1>1. reader \in [Clients -> Readers] /\ reader[c].at \in Nat
  BY DEF ProcessInv, TypeOK, StreamTypeOK, Readers
<1>2. UNCHANGED <<records, exited, output>>
  BY DEF StreamStep, Look, ReadNext, Claim, LeaveStream, OpenStream, logVars, statusVars
<1>3. \A d \in Clients : d # c => reader'[d] = reader[d]
  <2>1. \A st, at : Moved(c, st, at) => \A d \in Clients : d # c => reader'[d] = reader[d]
    BY <1>1 DEF Moved
  <2>2. ASSUME NEW q \in Procs, OpenStream(c, q)
        PROVE  \A d \in Clients : d # c => reader'[d] = reader[d]
    BY <1>1, <2>2 DEF OpenStream
  <2> QED
    BY <1>1, <2>1, <2>2, StreamMoves DEF StreamStep
<1>4. \A st, at : Moved(c, st, at) =>
        reader'[c].proc = p /\ reader'[c].stage = st /\ reader'[c].at = at
  BY <1>1 DEF Moved
<1>5. /\ reader'[c].stage \in Stages \ {"none"} => reader'[c].proc \in Procs
      /\ reader'[c].stage = "claim" => reader'[c].at < Len(records[reader'[c].proc])
      /\ reader'[c].stage = "claimExit"
            => exited[reader'[c].proc] /\ reader'[c].at >= Len(records[reader'[c].proc])
  <2>1. ASSUME NEW q \in Procs, OpenStream(c, q)
        PROVE  reader'[c].stage = "look" /\ reader'[c].proc = q
    BY <1>1, <2>1 DEF OpenStream
  <2>2. CASE StreamStep(c) \/ LeaveStream(c)
    <3>1. p \in Procs
      BY <2>2 DEF ProcessInv, ReadersKnow, Stages, StreamStep, Look, ReadNext, Claim, LeaveStream
    <3>2. Unread(c) => reader[c].at < Len(records[p])
      BY DEF Unread
    <3>3. ~Unread(c) => reader[c].at >= Len(records[p])
      <4>1. records[p] \in Seq(Nat)
        BY <3>1 DEF ProcessInv, TypeOK, LogTypeOK
      <4> QED
        BY <1>1, <4>1 DEF Unread
    <3>4. output[p] \in {"complete", "closed"} => exited[p]
      BY <3>1 DEF ProcessInv, LossIsNoticed
    <3> QED
      BY <1>1, <1>4, <2>2, <3>1, <3>2, <3>3, <3>4, StreamMoves DEF StreamStep
  <2> QED
    BY <2>1, <2>2
<1> QED
  BY <1>2, <1>3, <1>5 DEF ProcessInv, ReadersKnow

-----------------------------------------------------------------------------
(* Initially nothing has started.                                          *)
LEMMA ProcessInitHolds == Init => ProcessInv
<1> SUFFICES ASSUME Init PROVE ProcessInv
  OBVIOUS
<1>1. ProcTypeOK /\ StatusTypeOK
  BY DEF Init, ProcTypeOK, StatusTypeOK, Failures
<1>2. /\ records = [p \in Procs |-> <<>>] /\ taken = [p \in Procs |-> <<>>]
      /\ position = [p \in Procs |-> 0] /\ exitConsumed = [p \in Procs |-> FALSE]
      /\ output = [p \in Procs |-> "none"] /\ failure = [p \in Procs |-> ""]
      /\ reader = [c \in Clients |-> NoReader]
  BY DEF Init
<1>3. <<>> \in Seq(Nat) /\ Len(<<>>) = 0 /\ NoReader \in Readers
  BY DEF NoReader, Readers, Stages
<1>4. LogTypeOK
  <2>1. 0 \in 0..MaxBytes /\ 0 <= TotalMaxBytes
    BY ProcessAssumption
  <2>2. records \in [Procs -> Seq(Nat)]
    BY <1>2, <1>3
  <2>3. failure \in [Procs -> Failures] /\ output \in [Procs -> {"none", "open", "complete", "closed"}]
    BY <1>2 DEF Failures
  <2>4. allocated \in [Procs -> 0..MaxBytes]
    <3>1. allocated = [p \in Procs |-> 0]
      BY DEF Init
    <3> QED
      BY <2>1, <3>1
  <2>5. used \in Int /\ used <= TotalMaxBytes
    <3>1. used = 0
      BY DEF Init
    <3> QED
      BY <2>1, <3>1
  <2> QED
    BY <2>2, <2>3, <2>4, <2>5 DEF LogTypeOK
<1>5. StreamTypeOK
  BY <1>2, <1>3 DEF StreamTypeOK
<1>6. LossIsNoticed
  BY DEF Init, LossIsNoticed
<1>7. TakenInOrder
  <2>1. \A p \in Procs : records[p] = <<>> /\ taken[p] = <<>> /\ position[p] = 0 /\ ~exitConsumed[p]
    BY <1>2
  <2>2. \A p \in Procs : Len(records[p]) = 0 /\ Len(taken[p]) = 0
    BY <1>3, <2>1, Zenon
  <2> QED
    BY <2>1, <2>2 DEF TakenInOrder
<1>8. ReadersKnow
  BY <1>2 DEF ReadersKnow, NoReader
<1> QED
  BY <1>1, <1>4, <1>5, <1>6, <1>7, <1>8 DEF ProcessInv, TypeOK

(* Every step keeps the invariant.                                         *)
LEMMA ProcessNextHolds == ProcessInv /\ [Next]_vars => ProcessInv'
<1> SUFFICES ASSUME ProcessInv, [Next]_vars PROVE ProcessInv'
  OBVIOUS
<1>1. ASSUME NEW p \in Procs, ProcessStep(p) PROVE ProcessInv'
  <2>1. TypeOK'
    BY <1>1, LoopTyped, OutsideTyped DEF ProcessInv, ProcessStep
  <2> QED
    BY <1>1, <2>1, ProcessNotices, ProcessKeepsStreams DEF ProcessInv
<1>2. ASSUME NEW c \in Clients, StreamStep(c) \/ LeaveStream(c) \/ \E p \in Procs : OpenStream(c, p)
      PROVE  ProcessInv'
  <2>1. TypeOK' /\ ReadersKnow'
    BY <1>2, StreamTyped, StreamKnows DEF ProcessInv
  <2>2. LossIsNoticed'
    <3>1. UNCHANGED <<procVars, statusVars, logVars, lost>>
      BY <1>2 DEF StreamStep, Look, ReadNext, Claim, LeaveStream, OpenStream
    <3> QED
      BY <3>1 DEF ProcessInv, LossIsNoticed, Captured, procVars, statusVars, logVars
  <2>3. TakenInOrder'
    <3>1. CASE ~Claim(c)
      <4>1. UNCHANGED <<position, exitConsumed, taken, records, exited>>
        BY <1>2, <3>1 DEF StreamStep, Look, ReadNext, LeaveStream, OpenStream, logVars, statusVars
      <4> QED
        BY <4>1 DEF ProcessInv, TakenInOrder
    <3> QED
      BY <3>1, ClaimTakesNext
  <2> QED
    BY <2>1, <2>2, <2>3 DEF ProcessInv
<1>3. CASE UNCHANGED vars
  <2>1. UNCHANGED <<procVars, statusVars, logVars, streamVars, lost>>
    BY <1>3 DEF vars
  <2> QED
    BY <2>1 DEF procVars, statusVars, logVars, streamVars, ProcessInv, TypeOK, ProcTypeOK,
       StatusTypeOK, LogTypeOK, StreamTypeOK, LossIsNoticed, Captured, TakenInOrder, ReadersKnow
<1> QED
  BY <1>1, <1>2, <1>3 DEF Next, ProcessStep

(* The invariant of the processes, their logs and their streams.           *)
THEOREM InvariantHolds == Spec => []ProcessInv
<1>1. Spec => Init /\ [][Next]_vars
  BY DEF Spec
<1> QED
  BY <1>1, ProcessInitHolds, ProcessNextHolds, PTL

(* A process that lost output, to a failure of its log, to a limit or to   *)
(* the drain after its exit, has output_truncated in the status it reports *)
(* (run, terminate).                                                       *)
THEOREM LossIsReported == Spec => []NothingLostSilently
<1>1. ProcessInv => NothingLostSilently
  BY DEF ProcessInv, LossIsNoticed, NothingLostSilently, Captured
<1> QED
  BY <1>1, InvariantHolds, PTL

(* Cursorless streams of a process take its records and its exit once, in  *)
(* order (nextUnread).                                                     *)
THEOREM StreamsShare == Spec => []DeliveredOnce
<1>1. ProcessInv => DeliveredOnce
  <2> SUFFICES ASSUME ProcessInv, NEW p \in Procs, NEW i \in DOMAIN taken[p],
                      NEW j \in DOMAIN taken[p], i < j
               PROVE  taken[p][i] < taken[p][j]
    BY DEF DeliveredOnce
  <2>1. taken[p] \in Seq(Nat)
    BY DEF ProcessInv, TypeOK, StreamTypeOK
  <2>2. taken[p][i] = i /\ taken[p][j] = j
    BY <2>1 DEF ProcessInv, TakenInOrder
  <2> QED
    BY <2>2
<1> QED
  BY <1>1, InvariantHolds, PTL

(* They leave no record out, and take the exit after the last one: once    *)
(* the exit is consumed, every record of the log has been taken.           *)
WholeLogBeforeExit ==
    \A p \in Procs : exitConsumed[p] =>
        exited[p] /\ taken[p] = [i \in 1..Len(records[p]) + 1 |-> i]

(* next hands the exit out only when the log is complete (nextUnread).     *)
THEOREM ExitIsLast == Spec => []WholeLogBeforeExit
<1>1. ProcessInv => WholeLogBeforeExit
  <2> SUFFICES ASSUME ProcessInv, NEW p \in Procs, exitConsumed[p]
               PROVE  exited[p] /\ taken[p] = [i \in 1..Len(records[p]) + 1 |-> i]
    BY DEF WholeLogBeforeExit
  <2>1. taken[p] \in Seq(Nat) /\ records[p] \in Seq(Nat)
    BY DEF ProcessInv, TypeOK, StreamTypeOK, LogTypeOK
  <2>2. /\ exited[p] /\ Len(taken[p]) = Len(records[p]) + 1
        /\ \A i \in 1..Len(taken[p]) : taken[p][i] = i
    BY DEF ProcessInv, TakenInOrder
  <2>3. taken[p] = [i \in 1..Len(taken[p]) |-> taken[p][i]]
    BY <2>1
  <2> QED
    BY <2>2, <2>3
<1> QED
  BY <1>1, InvariantHolds, PTL

-----------------------------------------------------------------------------
(* The browser REPL. *)

(* Where a handler is that holds admission.                                *)
Admitted == {"reset", "resetting", "ensure", "starting", "ready", "reading", "ending"}

-----------------------------------------------------------------------------
(* The inductive invariant, first of the requests: admission has one       *)
(* holder, whose handler is past acquire, and after Shutdown none.         *)
CallerType ==
    /\ stage \in [Callers -> Admitted \cup {"new", "queued", "answered"}]
    /\ reply \in [Callers -> {"none", "eof", "busy", "done", "timedOut", "exiting"}]
    /\ response \in [Callers -> {"none", "200", "500", "notDispatched", "terminated"}]

HolderIsInside == \A c \in Callers : stage[c] \in Admitted <=> admission = c

ShutdownIsLast ==
    /\ stopping # "no" => ~lifecycle
    /\ stopping = "terminating" => admission = Api
    /\ stopping = "done" => child = 0 /\ admission = Nobody

CallerInv == CallerType /\ HolderIsInside /\ ShutdownIsLast

(* Then of the processes: whichever is not the child is gone, with its     *)
(* group and its code, and only the child can have been discovered.        *)
DaemonType ==
    /\ child \in Repls \cup {0}
    /\ daemon \in [Repls -> {"no", "booting", "serving", "leaving", "gone"}]
    /\ executing \in [Repls -> SUBSET Callers]

OthersAreGone ==
    \A d \in Repls : d # child =>
        daemon[d] \in {"no", "gone"} /\ d \notin offspring /\ executing[d] = {}

DiscoveryIsFresh ==
    /\ \A d \in Repls : daemon[d] = "serving" => snapshot = d
    /\ customToolsReplID # 0 => customToolsReplID = child /\ snapshot = child

DaemonInv == DaemonType /\ OthersAreGone /\ DiscoveryIsFresh

(* And of both: what is executed is the holder's, who waits for it and has *)
(* no reply that would let the process live on.                            *)
CodeIsTheHolders ==
    \A d \in Repls : \A c \in executing[d] :
        /\ admission = c /\ stage[c] \in {"reading", "ending"}
        /\ reply[c] \in {"none", "timedOut", "exiting"}

ReplInv == CallerInv /\ DaemonInv /\ CodeIsTheHolders

SocketKnown == socket \in Repls \cup {0}

-----------------------------------------------------------------------------
(* terminateLocked and clearLocked leave nothing of any process.           *)
LEMMA NothingIsLeft ==
    ASSUME DaemonInv, KillAndClear
    PROVE  DaemonInv' /\ child' = 0 /\ \A d \in Repls : executing'[d] = {}
<1>1. /\ daemon' = [daemon EXCEPT ![child] = "gone"]
      /\ executing' = [executing EXCEPT ![child] = {}]
      /\ offspring' = offspring \ {child}
      /\ child' = 0 /\ customToolsReplID' = 0
  BY DEF KillAndClear, Kill, Clear, GroupKilled
<1>2. DaemonType' /\ \A d \in Repls : executing'[d] = {}
  BY <1>1 DEF DaemonInv, DaemonType, OthersAreGone
<1>3. \A d \in Repls : daemon'[d] \in {"no", "gone"} /\ d \notin offspring'
  BY <1>1 DEF DaemonInv, DaemonType, OthersAreGone
<1>4. OthersAreGone' /\ DiscoveryIsFresh'
  BY <1>1, <1>2, <1>3 DEF OthersAreGone, DiscoveryIsFresh
<1> QED
  BY <1>1, <1>2, <1>4 DEF DaemonInv

(* SIGTERM changes the state of the child only, and makes nothing serve.   *)
LEMMA OnlyTheChildIsSignalled ==
    ASSUME DaemonInv, SignalTerm,
           UNCHANGED <<child, customToolsReplID, offspring, executing, snapshot>>
    PROVE  DaemonInv'
<1>1. /\ daemon' \in [Repls -> {"no", "booting", "serving", "leaving", "gone"}]
      /\ \A d \in Repls : d # child => daemon'[d] = daemon[d]
      /\ \A d \in Repls : daemon'[d] = "serving" => daemon[d] = "serving"
  BY DEF DaemonInv, DaemonType, SignalTerm
<1>2. DaemonType' /\ OthersAreGone' /\ DiscoveryIsFresh'
  BY <1>1 DEF DaemonInv, DaemonType, OthersAreGone, DiscoveryIsFresh
<1> QED
  BY <1>2 DEF DaemonInv

(* A step that leaves the processes and the manager alone.                 *)
LEMMA DaemonsAtRest ==
    ASSUME DaemonInv,
           UNCHANGED <<child, customToolsReplID, daemon, offspring, executing, snapshot>>
    PROVE  DaemonInv'
  BY DEF DaemonInv, DaemonType, OthersAreGone, DiscoveryIsFresh

(* An answer releases admission if its request held it.                    *)
LEMMA AnswerReleases ==
    ASSUME CallerInv, NEW c \in Callers,
           stage[c] \in Admitted \cup {"queued"},
           NEW what \in {"200", "500", "notDispatched", "terminated"}, Answer(c, what),
           UNCHANGED <<lifecycle, stopping>>, child' \in {child, 0}
    PROVE  CallerInv'
<1>1. /\ stage' = [stage EXCEPT ![c] = "answered"]
      /\ reply' = [reply EXCEPT ![c] = "none"]
      /\ response' = [response EXCEPT ![c] = what]
      /\ admission' = IF admission = c THEN Nobody ELSE admission
  BY DEF Answer
<1>2. CallerType'
  BY <1>1 DEF CallerInv, CallerType
<1>3. HolderIsInside'
  BY <1>1, ReplAssumption DEF CallerInv, CallerType, HolderIsInside, Admitted
<1>4. ShutdownIsLast'
  BY <1>1, ReplAssumption DEF CallerInv, ShutdownIsLast
<1> QED
  BY <1>2, <1>3, <1>4 DEF CallerInv

(* A handler that goes on keeps admission.                                 *)
LEMMA HandlerGoesOn ==
    ASSUME CallerInv, NEW c \in Callers, stage[c] \in Admitted,
           NEW next \in Admitted, stage' = [stage EXCEPT ![c] = next],
           NEW told \in {"none", "eof", "busy"},
           reply' \in {reply, [reply EXCEPT ![c] = told]},
           UNCHANGED <<response, admission, lifecycle, stopping>>
    PROVE  CallerInv'
<1>1. CallerType'
  BY DEF CallerInv, CallerType
<1>2. HolderIsInside'
  BY DEF CallerInv, CallerType, HolderIsInside
<1>3. admission = c
  BY DEF CallerInv, HolderIsInside
<1>4. ShutdownIsLast'
  BY <1>3, ReplAssumption DEF CallerInv, ShutdownIsLast
<1> QED
  BY <1>1, <1>2, <1>4 DEF CallerInv

-----------------------------------------------------------------------------
(* Requests come, and their contexts end, without touching a REPL.         *)
LEMMA CallStep ==
    ASSUME ReplInv, NEW c \in Callers, Call(c) \/ ContextEnds(c)
    PROVE  ReplInv'
<1>1. /\ stage' \in {stage, [stage EXCEPT ![c] = "queued"]}
      /\ stage'[c] # stage[c] => stage[c] = "new"
      /\ UNCHANGED <<reply, response, admission, lifecycle, stopping>>
      /\ UNCHANGED <<child, customToolsReplID, daemon, offspring, executing, snapshot>>
  BY DEF Call, ContextEnds, managerVars, daemonVars
<1>2. CallerInv'
  BY <1>1 DEF ReplInv, CallerInv, CallerType, HolderIsInside, ShutdownIsLast, Admitted
<1>3. DaemonInv'
  BY <1>1, DaemonsAtRest DEF ReplInv
<1>4. CodeIsTheHolders'
  BY <1>1 DEF ReplInv, CallerInv, CallerType, DaemonInv, DaemonType, CodeIsTheHolders
<1> QED
  BY <1>2, <1>3, <1>4 DEF ReplInv

(* acquire takes admission from nobody: nothing is executed then.          *)
LEMMA AcquireStep ==
    ASSUME ReplInv, NEW c \in Callers, Acquire(c)
    PROVE  ReplInv'
<1>1. /\ stage[c] = "queued"
      /\ UNCHANGED <<lifecycle, stopping>>
      /\ UNCHANGED <<child, customToolsReplID, daemon, offspring, executing, snapshot>>
  BY DEF Acquire, daemonVars
<1>2. DaemonInv'
  BY <1>1, DaemonsAtRest DEF ReplInv
<1>3. \A d \in Repls : c \notin executing[d]
  BY <1>1 DEF ReplInv, CodeIsTheHolders
<1>4. CASE Answer(c, "notDispatched")
  <2>1. CallerInv'
    BY <1>1, <1>4, AnswerReleases DEF ReplInv
  <2>2. CodeIsTheHolders'
    BY <1>1, <1>3, <1>4
    DEF ReplInv, CallerInv, CallerType, DaemonInv, DaemonType, CodeIsTheHolders, Answer
  <2> QED
    BY <1>2, <2>1, <2>2 DEF ReplInv
<1>5. CASE /\ admission = Nobody /\ lifecycle
           /\ admission' = c
           /\ stage' = [stage EXCEPT ![c] = IF Resets(c) THEN "reset" ELSE "ensure"]
           /\ UNCHANGED <<reply, response>>
  <2>1. CallerType'
    BY <1>1, <1>5 DEF ReplInv, CallerInv, CallerType, Admitted
  <2>2. HolderIsInside'
    BY <1>1, <1>5, ReplAssumption DEF ReplInv, CallerInv, CallerType, HolderIsInside, Admitted
  <2>3. ShutdownIsLast'
    BY <1>1, <1>5 DEF ReplInv, CallerInv, ShutdownIsLast
  <2>4. \A d \in Repls : executing[d] = {}
    BY <1>5, ReplAssumption DEF ReplInv, DaemonInv, DaemonType, CodeIsTheHolders
  <2>5. CodeIsTheHolders'
    BY <1>1, <2>4 DEF CodeIsTheHolders
  <2> QED
    BY <1>2, <2>1, <2>2, <2>3, <2>5 DEF ReplInv, CallerInv
<1> QED
  BY <1>4, <1>5 DEF Acquire, Cancelled

(* A request that has dispatched nothing owns nothing that is executed.    *)
LEMMA IdleBeforeDispatch ==
    ASSUME ReplInv, NEW c \in Callers,
           stage[c] \in {"reset", "resetting", "ensure", "starting", "ready"}
    PROVE  admission = c /\ \A d \in Repls : executing[d] = {}
<1>1. admission = c
  BY DEF ReplInv, CallerInv, HolderIsInside, Admitted
<1>2. ASSUME NEW d \in Repls, NEW e \in executing[d] PROVE FALSE
  BY <1>1, <1>2 DEF ReplInv, CodeIsTheHolders
<1> QED
  BY <1>1, <1>2

(* resetLocked, which ends the child before anything else.                 *)
LEMMA ResetStep ==
    ASSUME ReplInv, NEW c \in Callers, Reset(c) \/ ResetEnds(c)
    PROVE  ReplInv'
<1>1. stage[c] \in {"reset", "resetting"} /\ UNCHANGED <<lifecycle, stopping>>
  BY DEF Reset, ResetEnds
<1>2. \A d \in Repls : executing[d] = {}
  BY <1>1, IdleBeforeDispatch
<1>3. CASE Reset(c)
  <2>1. UNCHANGED <<child, customToolsReplID, offspring, executing, snapshot>>
    BY <1>3 DEF Reset
  <2>2. DaemonInv'
    <3>1. CASE SignalTerm
      BY <2>1, <3>1, OnlyTheChildIsSignalled DEF ReplInv
    <3>2. CASE UNCHANGED daemon
      BY <2>1, <3>2, DaemonsAtRest DEF ReplInv
    <3> QED
      BY <1>3, <3>1, <3>2 DEF Reset
  <2>3. CallerInv'
    <3>1. CASE Answer(c, "notDispatched")
      BY <1>1, <2>1, <3>1, AnswerReleases DEF ReplInv, Admitted
    <3>2. CASE /\ stage' = [stage EXCEPT ![c] = IF child = 0 THEN "ensure" ELSE "resetting"]
               /\ UNCHANGED handlerVars
      BY <1>1, <3>2, HandlerGoesOn DEF ReplInv, Admitted, handlerVars
    <3> QED
      BY <1>3, <3>1, <3>2 DEF Reset
  <2>4. CodeIsTheHolders'
    BY <1>2, <2>1 DEF CodeIsTheHolders
  <2> QED
    BY <2>2, <2>3, <2>4 DEF ReplInv
<1>4. CASE ResetEnds(c)
  <2>1. DaemonInv' /\ \A d \in Repls : executing'[d] = {}
    BY <1>4, NothingIsLeft DEF ResetEnds, ReplInv
  <2>2. /\ stage' = [stage EXCEPT ![c] = "ensure"]
        /\ UNCHANGED <<reply, response, admission>>
    BY <1>4 DEF ResetEnds
  <2>3. CallerInv'
    BY <1>1, <2>2, HandlerGoesOn DEF ReplInv, Admitted
  <2> QED
    BY <2>1, <2>3 DEF ReplInv, CodeIsTheHolders
<1> QED
  BY <1>3, <1>4

(* ensureLocked starts a process only where there is none.                 *)
LEMMA EnsureStep ==
    ASSUME ReplInv, NEW c \in Callers, Ensure(c)
    PROVE  ReplInv'
<1>1. stage[c] = "ensure" /\ UNCHANGED <<lifecycle, stopping>>
  BY DEF Ensure
<1>2. \A d \in Repls : executing[d] = {}
  BY <1>1, IdleBeforeDispatch
<1>3. CASE /\ stage' = [stage EXCEPT ![c] = "ready"]
           /\ UNCHANGED <<child, customToolsReplID, daemonVars, handlerVars>>
  <2>1. CallerInv'
    BY <1>1, <1>3, HandlerGoesOn DEF ReplInv, Admitted, handlerVars
  <2>2. DaemonInv'
    BY <1>3, DaemonsAtRest DEF ReplInv, daemonVars
  <2>3. CodeIsTheHolders'
    BY <1>2, <1>3 DEF CodeIsTheHolders, daemonVars
  <2> QED
    BY <2>1, <2>2, <2>3 DEF ReplInv
<1>4. CASE KillAndClear /\ UNCHANGED <<stage, handlerVars>>
  <2>1. DaemonInv' /\ \A d \in Repls : executing'[d] = {}
    BY <1>4, NothingIsLeft DEF ReplInv
  <2>2. stage' = [stage EXCEPT ![c] = "ensure"]
    BY <1>1, <1>4 DEF ReplInv, CallerInv, CallerType
  <2>3. CallerInv'
    BY <1>1, <1>4, <2>2, HandlerGoesOn DEF ReplInv, Admitted, handlerVars
  <2> QED
    BY <2>1, <2>3 DEF ReplInv, CodeIsTheHolders
<1>5. CASE /\ Answer(c, NotStarted(c))
           /\ UNCHANGED <<child, customToolsReplID, daemon, offspring, executing, snapshot>>
  <2>1. NotStarted(c) \in {"notDispatched", "500"}
    BY DEF NotStarted
  <2>2. CallerInv'
    BY <1>1, <1>5, <2>1, AnswerReleases DEF ReplInv, Admitted
  <2>3. DaemonInv'
    BY <1>5, DaemonsAtRest DEF ReplInv
  <2>4. CodeIsTheHolders'
    BY <1>2, <1>5 DEF CodeIsTheHolders
  <2> QED
    BY <2>2, <2>3, <2>4 DEF ReplInv
<1>6. ASSUME child = 0, NEW d \in Repls, child' = d,
             daemon' = [daemon EXCEPT ![d] = "booting"],
             stage' = [stage EXCEPT ![c] = "starting"],
             UNCHANGED <<customToolsReplID, offspring, executing, snapshot, handlerVars>>
      PROVE  ReplInv'
  <2>1. CallerInv'
    BY <1>1, <1>6, HandlerGoesOn DEF ReplInv, Admitted, handlerVars
  <2>2. DaemonType' /\ OthersAreGone'
    BY <1>6, ReplAssumption DEF ReplInv, DaemonInv, DaemonType, OthersAreGone, Repls
  <2>3. DiscoveryIsFresh'
    BY <1>6 DEF ReplInv, DaemonInv, DaemonType, DiscoveryIsFresh
  <2>4. CodeIsTheHolders'
    BY <1>2, <1>6 DEF CodeIsTheHolders
  <2> QED
    BY <2>1, <2>2, <2>3, <2>4 DEF ReplInv, DaemonInv
<1> QED
  BY <1>3, <1>4, <1>5, <1>6 DEF Ensure

-----------------------------------------------------------------------------
(* Whoever unlinks the socket path or listens at it, it is a process's.    *)
LEMMA SocketStaysKnown ==
    ASSUME SocketKnown, [ReplNext]_replVars
    PROVE  SocketKnown'
<1>1. CASE \E c \in Callers : Call(c) \/ ContextEnds(c) \/ Acquire(c)
  BY <1>1 DEF SocketKnown, Call, ContextEnds, Acquire, daemonVars
<1>2. CASE \E c \in Callers : HandlerStep(c)
  BY <1>2 DEF SocketKnown, HandlerStep, Reset, ResetEnds, Ensure, Starting, Dispatch, ReadReply,
     GiveUp, Deadline, Ending, KillAndClear, Clear, daemonVars
<1>3. CASE Shutdown \/ ShutdownStep
  BY <1>3 DEF SocketKnown, Shutdown, ShutdownStep, ShutdownAcquires, ShutdownEnds, KillAndClear,
     Clear, daemonVars
<1>4. CASE \E d \in Repls : DaemonStep(d)
  BY <1>4 DEF SocketKnown, DaemonStep, Boot, Forks, PageInvokes, DaemonExits, Executed
<1>5. CASE UNCHANGED replVars
  BY <1>5 DEF SocketKnown, replVars, daemonVars
<1> QED
  BY <1>1, <1>2, <1>3, <1>4, <1>5 DEF ReplNext

(* A socket that answers is the child's, and so is what it has published.  *)
LEMMA WhoAnswers ==
    ASSUME DaemonInv, SocketKnown, Connects
    PROVE  socket = child /\ child \in Repls /\ snapshot = child
<1>1. socket \in Repls /\ daemon[socket] = "serving"
  BY DEF Connects, SocketKnown
<1> QED
  BY <1>1 DEF DaemonInv, OthersAreGone, DiscoveryIsFresh

(* The rest of startLocked: the child is discovered, or nothing is left.   *)
LEMMA StartingStep ==
    ASSUME ReplInv, SocketKnown, NEW c \in Callers, Starting(c)
    PROVE  ReplInv'
<1>1. stage[c] = "starting" /\ UNCHANGED <<lifecycle, stopping>>
  BY DEF Starting
<1>2. \A d \in Repls : executing[d] = {}
  BY <1>1, IdleBeforeDispatch
<1>3. CASE /\ Connects /\ customToolsReplID' = child
           /\ stage' = [stage EXCEPT ![c] = "ready"]
           /\ UNCHANGED <<child, daemonVars, handlerVars>>
  <2>1. CallerInv'
    BY <1>1, <1>3, HandlerGoesOn DEF ReplInv, Admitted, handlerVars
  <2>2. DaemonInv'
    BY <1>3, WhoAnswers
    DEF ReplInv, DaemonInv, DaemonType, OthersAreGone, DiscoveryIsFresh, daemonVars
  <2>3. CodeIsTheHolders'
    BY <1>2, <1>3 DEF CodeIsTheHolders, daemonVars
  <2> QED
    BY <2>1, <2>2, <2>3 DEF ReplInv
<1>4. CASE KillAndClear /\ Answer(c, NotStarted(c))
  <2>1. NotStarted(c) \in {"notDispatched", "500"}
    BY DEF NotStarted
  <2>2. DaemonInv' /\ child' = 0 /\ \A d \in Repls : executing'[d] = {}
    BY <1>4, NothingIsLeft DEF ReplInv
  <2>3. CallerInv'
    BY <1>1, <1>4, <2>1, <2>2, AnswerReleases DEF ReplInv, Admitted
  <2> QED
    BY <2>2, <2>3 DEF ReplInv, CodeIsTheHolders
<1> QED
  BY <1>3, <1>4 DEF Starting

(* executeLocked writes to the child, if anything answers.                 *)
LEMMA DispatchStep ==
    ASSUME ReplInv, SocketKnown, NEW c \in Callers, Dispatch(c)
    PROVE  ReplInv'
<1>1. /\ stage[c] = "ready"
      /\ UNCHANGED <<lifecycle, stopping, child, customToolsReplID, daemon, offspring, snapshot>>
  BY DEF Dispatch
<1>2. admission = c /\ \A d \in Repls : executing[d] = {}
  BY <1>1, IdleBeforeDispatch
<1>3. CASE Answer(c, IF request[c] = "reset" THEN "200" ELSE "notDispatched")
           /\ UNCHANGED executing
  <2>1. CallerInv'
    BY <1>1, <1>3, AnswerReleases DEF ReplInv, Admitted
  <2>2. DaemonInv'
    BY <1>1, <1>3, DaemonsAtRest DEF ReplInv
  <2>3. CodeIsTheHolders'
    BY <1>2, <1>3 DEF CodeIsTheHolders
  <2> QED
    BY <2>1, <2>2, <2>3 DEF ReplInv
<1>4. CASE /\ stage' = [stage EXCEPT ![c] = "reading"]
           /\ executing' = IF Connects /\ child \notin page
                             THEN [executing EXCEPT ![child] = @ \cup {c}] ELSE executing
           /\ reply' = [reply EXCEPT ![c] = CASE ~Connects -> "eof"
                                              [] Connects /\ child \in page -> "busy"
                                              [] OTHER -> "none"]
           /\ UNCHANGED <<over, response, admission>>
  <2>1. /\ ~Connects => reply' = [reply EXCEPT ![c] = "eof"]
        /\ Connects /\ child \in page => reply' = [reply EXCEPT ![c] = "busy"]
        /\ Connects /\ child \notin page => reply' = [reply EXCEPT ![c] = "none"]
    BY <1>4
  <2>2. CallerInv'
    BY <1>1, <1>4, <2>1, HandlerGoesOn DEF ReplInv, Admitted
  <2>3. CASE Connects /\ child \notin page
    <3>1. /\ child \in Repls /\ executing' = [executing EXCEPT ![child] = {c}]
          /\ reply' = [reply EXCEPT ![c] = "none"]
      BY <1>2, <1>4, <2>1, <2>3, WhoAnswers DEF ReplInv
    <3>2. DaemonInv'
      BY <1>1, <3>1 DEF ReplInv, DaemonInv, DaemonType, OthersAreGone, DiscoveryIsFresh
    <3>3. CodeIsTheHolders'
      BY <1>2, <1>4, <3>1
      DEF ReplInv, CallerInv, CallerType, DaemonInv, DaemonType, CodeIsTheHolders
    <3> QED
      BY <2>2, <3>2, <3>3 DEF ReplInv
  <2>4. CASE UNCHANGED executing
    <3>1. DaemonInv'
      BY <1>1, <2>4, DaemonsAtRest DEF ReplInv
    <3>2. CodeIsTheHolders'
      BY <1>2, <2>4 DEF CodeIsTheHolders
    <3> QED
      BY <2>2, <3>1, <3>2 DEF ReplInv
  <2> QED
    BY <1>4, <2>3, <2>4
<1> QED
  BY <1>3, <1>4 DEF Dispatch

(* The reply is read, or not waited for: what the process executes then is *)
(* ended with it, unless the process has said that it is done or busy.     *)
LEMMA ReplyStep ==
    ASSUME ReplInv, NEW c \in Callers,
           ReadReply(c) \/ GiveUp(c) \/ Deadline(c)
    PROVE  ReplInv'
<1>1. /\ stage[c] = "reading"
      /\ UNCHANGED <<lifecycle, stopping, child, customToolsReplID, offspring, executing, snapshot>>
  BY DEF ReadReply, GiveUp, Deadline, managerVars, daemonVars
<1>2. admission = c
  BY <1>1 DEF ReplInv, CallerInv, HolderIsInside, Admitted
<1>3. CASE /\ stage' = [stage EXCEPT ![c] = "ending"]
           /\ SignalTerm \/ UNCHANGED daemon
           /\ UNCHANGED <<reply, response, admission>>
  <2>1. CallerInv'
    BY <1>1, <1>3, HandlerGoesOn DEF ReplInv, Admitted
  <2>2. DaemonInv'
    BY <1>1, <1>3, OnlyTheChildIsSignalled, DaemonsAtRest DEF ReplInv
  <2>3. CodeIsTheHolders'
    BY <1>1, <1>2, <1>3 DEF ReplInv, CallerInv, CallerType, CodeIsTheHolders
  <2> QED
    BY <2>1, <2>2, <2>3 DEF ReplInv
<1>4. CASE /\ reply[c] # "none" /\ ~Fatal(reply[c])
           /\ Answer(c, "200") /\ UNCHANGED daemon
  <2>1. CallerInv'
    BY <1>1, <1>4, AnswerReleases DEF ReplInv, Admitted
  <2>2. DaemonInv'
    BY <1>1, <1>4, DaemonsAtRest DEF ReplInv
  <2>3. \A d \in Repls : executing[d] = {}
    <3> SUFFICES ASSUME NEW d \in Repls, NEW e \in executing[d] PROVE FALSE
      OBVIOUS
    <3>1. e = c /\ reply[e] \in {"none", "timedOut", "exiting"}
      BY <1>2 DEF ReplInv, CodeIsTheHolders
    <3> QED
      BY <1>4, <3>1 DEF Fatal
  <2>4. CodeIsTheHolders'
    BY <1>1, <2>3 DEF CodeIsTheHolders
  <2> QED
    BY <2>1, <2>2, <2>4 DEF ReplInv
<1>5. CASE ReadReply(c)
  BY <1>3, <1>4, <1>5 DEF ReadReply, handlerVars
<1>6. CASE GiveUp(c)
  BY <1>3, <1>6 DEF GiveUp, managerVars
<1>7. CASE Deadline(c)
  BY <1>3, <1>7 DEF Deadline, managerVars, daemonVars
<1> QED
  BY <1>5, <1>6, <1>7

(* killLocked, and the answer that the code may have run.                  *)
LEMMA EndingStep ==
    ASSUME ReplInv, NEW c \in Callers, Ending(c)
    PROVE  ReplInv'
<1>1. DaemonInv' /\ child' = 0 /\ \A d \in Repls : executing'[d] = {}
  BY NothingIsLeft DEF Ending, ReplInv
<1>2. CallerInv'
  BY <1>1, AnswerReleases DEF Ending, ReplInv, Admitted, AfterWrite
<1> QED
  BY <1>1, <1>2 DEF ReplInv, CodeIsTheHolders

(* Shutdown: no request is admitted from then on, and it leaves no child.  *)
LEMMA ShutdownSteps ==
    ASSUME ReplInv, Shutdown \/ ShutdownStep
    PROVE  ReplInv'
<1>1. UNCHANGED <<stage, reply, response>>
  BY DEF Shutdown, ShutdownStep, ShutdownAcquires, ShutdownEnds, callVars
<1>2. CASE Shutdown
  <2>1. CallerInv'
    BY <1>1, <1>2
    DEF Shutdown, ReplInv, CallerInv, CallerType, HolderIsInside, ShutdownIsLast
  <2>2. DaemonInv'
    BY <1>2, DaemonsAtRest DEF Shutdown, ReplInv, daemonVars
  <2>3. CodeIsTheHolders'
    BY <1>1, <1>2 DEF Shutdown, ReplInv, CodeIsTheHolders, daemonVars
  <2> QED
    BY <2>1, <2>2, <2>3 DEF ReplInv
<1>3. CASE ShutdownAcquires
  <2>1. CallerInv'
    BY <1>1, <1>3, ReplAssumption DEF ShutdownAcquires, ReplInv, CallerInv, CallerType,
       HolderIsInside, ShutdownIsLast
  <2>2. DaemonInv'
    BY <1>3, OnlyTheChildIsSignalled DEF ShutdownAcquires, ReplInv
  <2>3. \A d \in Repls : executing[d] = {}
    BY <1>3, ReplAssumption DEF ShutdownAcquires, ReplInv, DaemonInv, DaemonType,
       CodeIsTheHolders
  <2>4. CodeIsTheHolders'
    BY <1>3, <2>3 DEF ShutdownAcquires, CodeIsTheHolders
  <2> QED
    BY <2>1, <2>2, <2>4 DEF ReplInv
<1>4. CASE ShutdownEnds
  <2>1. CASE /\ stopping = "terminating" /\ stopping' = "done" /\ admission' = Nobody
             /\ IF child = 0 THEN UNCHANGED <<child, customToolsReplID, daemonVars>>
                             ELSE KillAndClear
    <3>1. \A d \in Repls : executing[d] = {}
      BY <2>1, ReplAssumption DEF ReplInv, CallerInv, ShutdownIsLast, DaemonInv, DaemonType,
         CodeIsTheHolders
    <3>2. DaemonInv' /\ child' = 0 /\ \A d \in Repls : executing'[d] = {}
      BY <2>1, <3>1, NothingIsLeft, DaemonsAtRest DEF ReplInv, daemonVars
    <3>3. CallerInv'
      BY <1>1, <1>4, <2>1, <3>2, ReplAssumption DEF ShutdownEnds, ReplInv, CallerInv,
         CallerType, HolderIsInside, ShutdownIsLast
    <3> QED
      BY <3>2, <3>3 DEF ReplInv, CodeIsTheHolders
  <2>2. CASE /\ stopping = "waiting" /\ stopping' = "expired"
             /\ UNCHANGED <<admission, child, customToolsReplID, daemonVars>>
    <3>1. CallerInv'
      BY <1>1, <1>4, <2>2
      DEF ShutdownEnds, ReplInv, CallerInv, CallerType, HolderIsInside, ShutdownIsLast
    <3>2. DaemonInv'
      BY <2>2, DaemonsAtRest DEF ReplInv, daemonVars
    <3>3. CodeIsTheHolders'
      BY <1>1, <2>2 DEF ReplInv, CodeIsTheHolders, daemonVars
    <3> QED
      BY <3>1, <3>2, <3>3 DEF ReplInv
  <2> QED
    BY <1>4, <2>1, <2>2 DEF ShutdownEnds
<1> QED
  BY <1>2, <1>3, <1>4 DEF ShutdownStep

-----------------------------------------------------------------------------
(* The process may do what it likes: it is the child, or it is gone.       *)
LEMMA DaemonSteps ==
    ASSUME ReplInv, NEW d \in Repls, DaemonStep(d)
    PROVE  ReplInv'
<1>1. /\ UNCHANGED <<stage, response, admission, lifecycle, stopping, child, customToolsReplID>>
      /\ reply' \in [Callers -> {"none", "eof", "busy", "done", "timedOut", "exiting"}]
  BY DEF DaemonStep, Boot, Forks, PageInvokes, DaemonExits, Executed, callVars, managerVars,
     ReplInv, CallerInv, CallerType, DaemonInv, DaemonType
<1>2. CallerInv'
  BY <1>1 DEF ReplInv, CallerInv, CallerType, HolderIsInside, ShutdownIsLast
<1>3. CASE Boot(d) \/ Forks(d) \/ PageInvokes(d)
  <2>1. UNCHANGED <<reply, executing>>
    BY <1>3 DEF Boot, Forks, PageInvokes, callVars
  <2>2. DaemonInv'
    BY <1>1, <1>3, <2>1
    DEF Boot, Forks, PageInvokes, ReplInv, DaemonInv, DaemonType, OthersAreGone, DiscoveryIsFresh
  <2>3. CodeIsTheHolders'
    BY <1>1, <2>1 DEF ReplInv, CodeIsTheHolders
  <2> QED
    BY <1>2, <2>2, <2>3 DEF ReplInv
<1>4. CASE DaemonExits(d)
  <2>1. /\ daemon' = [daemon EXCEPT ![d] = "gone"]
        /\ executing' = [executing EXCEPT ![d] = {}]
        /\ UNCHANGED <<offspring, snapshot>>
    BY <1>4 DEF DaemonExits
  <2>2. DaemonInv'
    BY <1>1, <2>1 DEF ReplInv, DaemonInv, DaemonType, OthersAreGone, DiscoveryIsFresh
  <2>3. d = child
    BY <1>4 DEF DaemonExits, ReplInv, DaemonInv, OthersAreGone
  <2>4. \A e \in Repls : executing'[e] = {}
    BY <2>1, <2>3 DEF ReplInv, DaemonInv, DaemonType, OthersAreGone
  <2> QED
    BY <1>2, <2>2, <2>4 DEF ReplInv, CodeIsTheHolders
<1>5. CASE Executed(d)
  <2>1. PICK c \in executing[d], how \in {"done", "timedOut", "exiting"} :
          /\ reply' = [reply EXCEPT ![c] = how]
          /\ executing' = IF how = "done" THEN [executing EXCEPT ![d] = @ \ {c}] ELSE executing
          /\ daemon' = IF how = "exiting" THEN [daemon EXCEPT ![d] = "leaving"] ELSE daemon
    BY <1>5 DEF Executed
  <2>2. d = child /\ c \in Callers /\ UNCHANGED <<offspring, snapshot>>
    BY <1>5, <2>1 DEF Executed, ReplInv, DaemonInv, DaemonType, OthersAreGone
  <2>3. DaemonInv'
    BY <1>1, <2>1, <2>2 DEF ReplInv, DaemonInv, DaemonType, OthersAreGone, DiscoveryIsFresh
  <2>4. CodeIsTheHolders'
    <3> SUFFICES ASSUME NEW e \in Repls, NEW b \in executing'[e]
                 PROVE  /\ admission = b /\ stage[b] \in {"reading", "ending"}
                        /\ reply'[b] \in {"none", "timedOut", "exiting"}
      BY <1>1 DEF CodeIsTheHolders
    <3>1. b \in executing[e] /\ e = d
      BY <2>1, <2>2, <2>3 DEF ReplInv, DaemonInv, DaemonType, OthersAreGone
    <3>2. /\ admission = b /\ stage[b] \in {"reading", "ending"}
          /\ reply[b] \in {"none", "timedOut", "exiting"}
      BY <3>1 DEF ReplInv, CodeIsTheHolders
    <3>3. b = c => how # "done"
      BY <2>1, <3>1 DEF ReplInv, DaemonInv, DaemonType
    <3>4. reply'[b] \in {"none", "timedOut", "exiting"}
      BY <2>1, <2>2, <3>2, <3>3 DEF ReplInv, CallerInv, CallerType
    <3> QED
      BY <3>2, <3>4
  <2> QED
    BY <1>2, <2>3, <2>4 DEF ReplInv
<1> QED
  BY <1>3, <1>4, <1>5 DEF DaemonStep

-----------------------------------------------------------------------------
(* Nothing is running, and nobody has asked for anything.                  *)
LEMMA ReplInitHolds == ASSUME ReplInit PROVE ReplInv /\ SocketKnown
<1>1. CallerInv
  BY ReplAssumption DEF ReplInit, CallerInv, CallerType, HolderIsInside, ShutdownIsLast,
     Admitted
<1>2. DaemonInv
  BY DEF ReplInit, DaemonInv, DaemonType, OthersAreGone, DiscoveryIsFresh
<1>3. CodeIsTheHolders /\ SocketKnown
  BY DEF ReplInit, CodeIsTheHolders, SocketKnown
<1> QED
  BY <1>1, <1>2, <1>3 DEF ReplInv

(* Every step of a caller, of the daemon or of the API keeps the           *)
(* invariant.                                                              *)
LEMMA ReplNextHolds ==
    ASSUME ReplInv, SocketKnown, [ReplNext]_replVars
    PROVE  ReplInv'
<1>1. ASSUME NEW c \in Callers, Call(c) \/ ContextEnds(c) \/ Acquire(c) \/ HandlerStep(c)
      PROVE  ReplInv'
  <2>1. CASE Call(c) \/ ContextEnds(c) \/ Acquire(c)
    BY <2>1, CallStep, AcquireStep
  <2>2. CASE HandlerStep(c)
    BY <2>2, ResetStep, EnsureStep, StartingStep, DispatchStep, ReplyStep, EndingStep
    DEF HandlerStep
  <2> QED
    BY <1>1, <2>1, <2>2
<1>2. CASE Shutdown \/ ShutdownStep
  BY <1>2, ShutdownSteps
<1>3. ASSUME NEW d \in Repls, DaemonStep(d)
      PROVE  ReplInv'
  BY <1>3, DaemonSteps
<1>4. CASE UNCHANGED replVars
  <2>1. /\ UNCHANGED <<stage, reply, response, admission, lifecycle, stopping>>
        /\ UNCHANGED <<child, customToolsReplID, daemon, offspring, executing, snapshot>>
    BY <1>4 DEF replVars, callVars, managerVars, daemonVars
  <2>2. CallerInv'
    BY <2>1 DEF ReplInv, CallerInv, CallerType, HolderIsInside, ShutdownIsLast
  <2>3. DaemonInv'
    BY <2>1, DaemonsAtRest DEF ReplInv
  <2>4. CodeIsTheHolders'
    BY <2>1 DEF ReplInv, CodeIsTheHolders
  <2> QED
    BY <2>2, <2>3, <2>4 DEF ReplInv
<1> QED
  BY <1>1, <1>2, <1>3, <1>4 DEF ReplNext

(* The invariant says more than OneRepl: it names whose code is executed.  *)
LEMMA ReplInvSuffices == ASSUME ReplInv PROVE OneRepl
<1>1. \A d \in Repls : d # child =>
        daemon[d] \in {"no", "gone"} /\ d \notin offspring /\ executing[d] = {}
  BY DEF ReplInv, DaemonInv, OthersAreGone
<1>2. child # 0 => executing[child] \subseteq {admission}
  BY DEF ReplInv, DaemonInv, DaemonType, CodeIsTheHolders
<1>3. /\ stopping = "done" => child = 0
      /\ customToolsReplID # 0 => customToolsReplID = child /\ snapshot = child
  BY DEF ReplInv, CallerInv, ShutdownIsLast, DaemonInv, DiscoveryIsFresh
<1> QED
  BY <1>1, <1>2, <1>3 DEF OneRepl

(* There is one REPL at a time, whatever requests, Shutdown and the process*)
(* do: terminateLocked, ensureLocked and clearLocked leave nothing of the  *)
(* ones before it, it runs the code of the request that holds admission,   *)
(* and customToolsSnapshot serves what the child itself has published.     *)
THEOREM OneReplHolds == ReplSpec => []OneRepl
<1>1. ReplInit => ReplInv /\ SocketKnown
  BY ReplInitHolds
<1>2. ReplInv /\ SocketKnown /\ [ReplNext]_replVars => ReplInv' /\ SocketKnown'
  BY ReplNextHolds, SocketStaysKnown
<1>3. ReplInv => OneRepl
  BY ReplInvSuffices
<1> QED
  BY <1>1, <1>2, <1>3, PTL DEF ReplSpec

-----------------------------------------------------------------------------
(* What makes a refusal final: code is written by a handler that has not   *)
(* answered yet, and that answers afterwards with 200 or "terminated".     *)
WrittenIsPast ==
    \A c \in Callers :
        /\ c \in dispatched => stage[c] \in {"reading", "ending", "answered"}
        /\ response[c] # "none" => stage[c] = "answered"

RefusalInv == WrittenIsPast /\ RefusedDidNotReach

(* Only a request whose code was not written may be told so.               *)
LEMMA AnswerIsTrue ==
    ASSUME CallerType, RefusalInv, NEW c \in Callers, NEW what, Answer(c, what),
           what \in {"500", "notDispatched"} => c \notin dispatched, UNCHANGED dispatched
    PROVE  RefusalInv'
<1>1. /\ stage' = [stage EXCEPT ![c] = "answered"]
      /\ response' = [response EXCEPT ![c] = what]
  BY DEF Answer
<1>2. WrittenIsPast' /\ RefusedDidNotReach'
  BY <1>1 DEF CallerType, RefusalInv, WrittenIsPast, RefusedDidNotReach
<1> QED
  BY <1>2 DEF RefusalInv

(* A handler that goes on has not answered.                                *)
LEMMA GoesOnUnanswered ==
    ASSUME CallerType, RefusalInv, NEW c \in Callers, stage[c] # "answered",
           NEW next, stage' = [stage EXCEPT ![c] = next],
           c \in dispatched' => next \in {"reading", "ending"},
           dispatched' \in {dispatched, dispatched \cup {c}}, UNCHANGED response
    PROVE  RefusalInv'
<1>1. response[c] = "none"
  BY DEF RefusalInv, WrittenIsPast
<1>2. WrittenIsPast' /\ RefusedDidNotReach'
  BY <1>1 DEF CallerType, RefusalInv, WrittenIsPast, RefusedDidNotReach
<1> QED
  BY <1>2 DEF RefusalInv

(* Nothing else that happens is seen by a caller.                          *)
LEMMA UnseenByCallers ==
    ASSUME RefusalInv, UNCHANGED <<stage, response, dispatched>>
    PROVE  RefusalInv'
  BY DEF RefusalInv, WrittenIsPast, RefusedDidNotReach

(* Before the write nothing has reached the REPL.                          *)
LEMMA BeforeWrite ==
    ASSUME CallerType, RefusalInv, NEW c \in Callers,
           Call(c) \/ ContextEnds(c) \/ Acquire(c) \/ Reset(c) \/ ResetEnds(c)
           \/ Ensure(c) \/ Starting(c)
    PROVE  RefusalInv'
<1>1. UNCHANGED dispatched
  BY DEF Call, ContextEnds, Acquire, Reset, ResetEnds, Ensure, Starting
<1>2. CASE ContextEnds(c)
  BY <1>1, <1>2, UnseenByCallers DEF ContextEnds
<1>3. CASE ~ContextEnds(c)
  <2>1. stage[c] \in {"new", "queued", "reset", "resetting", "ensure", "starting"}
    BY <1>3 DEF Call, Acquire, Reset, ResetEnds, Ensure, Starting
  <2>2. c \notin dispatched
    BY <2>1 DEF RefusalInv, WrittenIsPast
  <2>3. \/ \E what \in {"500", "notDispatched"} : Answer(c, what)
        \/ UNCHANGED response /\ \E next : stage' = [stage EXCEPT ![c] = next]
        \/ UNCHANGED <<stage, response>>
    <3>1. CASE Call(c) \/ Acquire(c) \/ Reset(c) \/ ResetEnds(c)
      BY <3>1 DEF Call, Acquire, Reset, ResetEnds, handlerVars
    <3>2. CASE Ensure(c) \/ Starting(c)
      BY <3>2 DEF Ensure, Starting, handlerVars, NotStarted
    <3> QED
      BY <1>3, <3>1, <3>2
  <2> QED
    BY <1>1, <2>1, <2>2, <2>3, AnswerIsTrue, GoesOnUnanswered, UnseenByCallers
<1> QED
  BY <1>2, <1>3

(* The write, and what follows it.                                         *)
LEMMA FromWriteOn ==
    ASSUME CallerType, RefusalInv, NEW c \in Callers,
           Dispatch(c) \/ ReadReply(c) \/ GiveUp(c) \/ Deadline(c) \/ Ending(c)
    PROVE  RefusalInv'
<1>1. CASE Dispatch(c)
  <2>1. stage[c] = "ready" /\ c \notin dispatched
    BY <1>1 DEF Dispatch, RefusalInv, WrittenIsPast
  <2>2. CASE /\ \E what \in {"200", "notDispatched"} : Answer(c, what)
             /\ UNCHANGED dispatched
    BY <2>1, <2>2, AnswerIsTrue
  <2>3. CASE /\ stage' = [stage EXCEPT ![c] = "reading"] /\ UNCHANGED response
             /\ dispatched' \in {dispatched, dispatched \cup {c}}
    BY <2>1, <2>3, GoesOnUnanswered
  <2> QED
    BY <1>1, <2>2, <2>3 DEF Dispatch
<1>2. CASE ~Dispatch(c)
  <2>1. /\ stage[c] \in {"reading", "ending"} /\ UNCHANGED dispatched
        /\ \/ \E what \in {"200", "terminated"} : Answer(c, what)
           \/ UNCHANGED response /\ stage' = [stage EXCEPT ![c] = "ending"]
    BY <1>2 DEF ReadReply, GiveUp, Deadline, Ending, handlerVars, AfterWrite
  <2> QED
    BY <2>1, AnswerIsTrue, GoesOnUnanswered
<1> QED
  BY <1>1, <1>2

(* A caller that was refused has written nothing, whatever happens after.  *)
LEMMA RefusalKept ==
    ASSUME CallerType, RefusalInv, [ReplNext]_replVars
    PROVE  RefusalInv'
<1>1. ASSUME NEW c \in Callers, Call(c) \/ ContextEnds(c) \/ Acquire(c) \/ HandlerStep(c)
      PROVE  RefusalInv'
  BY <1>1, BeforeWrite, FromWriteOn DEF HandlerStep
<1>2. CASE Shutdown \/ ShutdownStep
  BY <1>2, UnseenByCallers DEF Shutdown, ShutdownStep, ShutdownAcquires, ShutdownEnds, callVars
<1>3. CASE \E d \in Repls : DaemonStep(d)
  BY <1>3, UnseenByCallers
  DEF DaemonStep, Boot, Forks, PageInvokes, DaemonExits, Executed, callVars
<1>4. CASE UNCHANGED replVars
  BY <1>4, UnseenByCallers DEF replVars, callVars
<1> QED
  BY <1>1, <1>2, <1>3, <1>4 DEF ReplNext

(* A request that is told that its code was not dispatched, or gets a 500, *)
(* may be retried: its code has not been written to any process, however   *)
(* cancellation, exits, timeouts and Shutdown fall (ExecuteBrowserRepl,    *)
(* browserReplNotDispatchedError).                                         *)
THEOREM RefusedNeverReached == ReplSpec => []RefusedDidNotReach
<1>1. ReplInit => ReplInv /\ SocketKnown /\ RefusalInv
  <2>1. ReplInit => RefusalInv
    BY DEF ReplInit, RefusalInv, WrittenIsPast, RefusedDidNotReach
  <2> QED
    BY <2>1, ReplInitHolds
<1>2. ReplInv /\ SocketKnown /\ RefusalInv /\ [ReplNext]_replVars
        => ReplInv' /\ SocketKnown' /\ RefusalInv'
  <2>1. ReplInv => CallerType
    BY DEF ReplInv, CallerInv
  <2> QED
    BY <2>1, ReplNextHolds, SocketStaysKnown, RefusalKept
<1>3. RefusalInv => RefusedDidNotReach
  BY DEF RefusalInv
<1> QED
  BY <1>1, <1>2, <1>3, PTL DEF ReplSpec

-----------------------------------------------------------------------------
(* Terminals. *)

(* How far the messages before the i-th bring the client; the exit, which  *)
(* is sent once, does not count.                                           *)
Before(i) ==
    IF i = 1 THEN client.got
    ELSE IF writeCh[i - 1] # ExitMessage THEN writeCh[i - 1].to
    ELSE IF i = 2 THEN client.got ELSE writeCh[i - 2].to

Sent == Before(Len(writeCh) + 1)

Pieces == {piece \in [from : Nat, to : Nat, oldest : Nat] : piece.from <= piece.to}

PtyType ==
    /\ start \in Nat /\ end \in Nat /\ delivered \in Nat /\ session \in 0..MaxSessions
    /\ doneCh \in BOOLEAN /\ sink \in 0..MaxSessions
    /\ main \in {"idle", "serving", "detaching", "joining"}
    /\ done \in {"no", "broken", "exit"}
    /\ forwarder \in [Sessions -> {"none", "run", "sending", "sent", "gone"}]
    /\ copied \in [Sessions -> Pieces]
    /\ writeCh \in Seq(Pieces) /\ writer \in {"run", "drain", "gone"} /\ wsReader \in BOOLEAN
    /\ watcher \in {"wait", "flush", "send", "sent", "gone"}
    /\ client \in [open : BOOLEAN, got : Nat, exit : BOOLEAN]

(* The ring holds something once something was written.                    *)
RingFollows == start <= end /\ (start = end => end = 0)

(* A session that nothing has ended has its sink, its writer and nobody    *)
(* before it; the one before has left nothing that could take the sink.    *)
OneSession ==
    /\ \A s \in Sessions : s < session => forwarder[s] = "gone"
    /\ \A s \in Sessions : s > session => forwarder[s] = "none"
    /\ session \in Sessions =>
        /\ forwarder[session] # "none"
        /\ forwarder[session] = "gone" => done # "no"
        /\ main \in {"idle", "joining"} => forwarder[session] = "gone"
    /\ session = 0 => main = "idle"
    /\ main # "idle" /\ done = "no" => sink # 0 /\ writer = "run" /\ main = "serving"
    /\ main = "idle" => writer = "gone" /\ watcher = "gone" /\ client = NoClient
    /\ watcher \in {"flush", "send", "sent"} => doneCh

(* The exit is put in the channel once, and what follows it is received    *)
(* after it.                                                               *)
ExitOnce ==
    /\ \A i, j \in 1..Len(writeCh) :
        writeCh[i] = ExitMessage /\ writeCh[j] = ExitMessage => i = j
    /\ \A i \in 1..Len(writeCh) :
        writeCh[i] = ExitMessage => watcher \in {"sent", "gone"} /\ ~client.exit /\ done # "no"
    /\ client.exit => watcher \in {"sent", "gone"} /\ done # "no"
    /\ \A s \in Sessions : forwarder[s] = "sending" => copied[s].from < copied[s].to

Follows(piece, reached) ==
    /\ piece.from < piece.to /\ piece.to <= end
    /\ piece.from >= reached /\ piece.from \in {reached, piece.oldest}

(* While there is a writer, what is in the channel follows what the client *)
(* has got,                                                                *)
ChannelInOrder ==
    writer # "gone" =>
        /\ client.got <= end
        /\ \A i \in 1..Len(writeCh) :
            writeCh[i] # ExitMessage => Follows(writeCh[i], Before(i))

(* and what the forwarder has or will copy follows that.                   *)
ForwarderInOrder ==
    writer # "gone" /\ session \in Sessions =>
        /\ forwarder[session] = "run" =>
            delivered >= Sent /\ (delivered = Sent \/ delivered <= start)
        /\ forwarder[session] = "sending" =>
            Follows(copied[session], Sent) /\ copied[session].from = delivered
        /\ forwarder[session] = "sent" =>
            /\ copied[session].to = Sent /\ copied[session].from = delivered
            /\ copied[session].from < Sent

(* Nothing is left to forward: the process has exited, and all is sent.    *)
AllSent ==
    /\ doneCh
    /\ session \in Sessions =>
        forwarder[session] = "gone" \/ (forwarder[session] = "run" /\ delivered >= end)

ExitComesLast ==
    /\ (watcher = "send" /\ done = "no") => AllSent
    /\ done = "exit" /\ main # "idle" => AllSent
    /\ done = "exit" /\ client.exit => client.got = end

(* The exit is the last message of the channel.                            *)
ExitAtEnd ==
    done = "exit" /\ writer # "gone" =>
        /\ Sent = end
        /\ client.exit => writeCh = <<>>
        /\ \A i \in 1..Len(writeCh) : writeCh[i] = ExitMessage => i = Len(writeCh)

PtyInv ==
    /\ PtyType /\ RingFollows /\ OneSession /\ ExitOnce
    /\ ChannelInOrder /\ ForwarderInOrder /\ ExitComesLast /\ ExitAtEnd /\ ~torn

-----------------------------------------------------------------------------
(* A message put in the channel: the ones before it reach as far as they   *)
(* did.                                                                    *)
LEMMA MessageAppended ==
    ASSUME writeCh \in Seq(Pieces), NEW m \in Pieces, writeCh' = Append(writeCh, m),
           client' = client
    PROVE  /\ writeCh' \in Seq(Pieces) /\ Len(writeCh') = Len(writeCh) + 1
           /\ \A i \in 1..Len(writeCh) : writeCh'[i] = writeCh[i]
           /\ writeCh'[Len(writeCh) + 1] = m
           /\ \A i \in 1..Len(writeCh) + 1 : Before(i)' = Before(i)
           /\ m # ExitMessage => Sent' = m.to
<1>1. /\ writeCh' \in Seq(Pieces) /\ Len(writeCh') = Len(writeCh) + 1
      /\ \A i \in 1..Len(writeCh) : writeCh'[i] = writeCh[i]
      /\ writeCh'[Len(writeCh) + 1] = m /\ Len(writeCh) \in Nat
  OBVIOUS
<1>2. \A i \in 1..Len(writeCh) + 1 : Before(i)' = Before(i)
  BY <1>1 DEF Before
<1>3. m # ExitMessage => Sent' = m.to
  BY <1>1 DEF Before, Sent, ExitMessage
<1> QED
  BY <1>1, <1>2, <1>3

(* An exit put in a channel that holds none: nothing more is reached.      *)
LEMMA ExitAppended ==
    ASSUME writeCh \in Seq(Pieces), writeCh' = Append(writeCh, ExitMessage), client' = client,
           \A i \in 1..Len(writeCh) : writeCh[i] # ExitMessage
    PROVE  Sent' = Sent
<1>1. /\ Len(writeCh') = Len(writeCh) + 1 /\ Len(writeCh) \in Nat
      /\ \A i \in 1..Len(writeCh) : writeCh'[i] = writeCh[i]
      /\ writeCh'[Len(writeCh) + 1] = ExitMessage
  BY DEF Pieces, ExitMessage
<1> QED
  BY <1>1 DEF Sent, Before

(* A message taken from the channel, which the client receives.            *)
LEMMA MessageTaken ==
    ASSUME writeCh \in Seq(Pieces), writeCh # <<>>, writeCh' = Tail(writeCh), ExitOnce,
           client'.got = IF Head(writeCh) = ExitMessage THEN client.got ELSE Head(writeCh).to
    PROVE  /\ writeCh' \in Seq(Pieces) /\ Len(writeCh') = Len(writeCh) - 1 /\ Len(writeCh) \in Nat \ {0}
           /\ Head(writeCh) = writeCh[1] /\ Head(writeCh) \in Pieces
           /\ \A i \in 1..Len(writeCh') : writeCh'[i] = writeCh[i + 1]
           /\ \A i \in 1..Len(writeCh) : Before(i)' = Before(i + 1)
           /\ Sent' = Sent
<1>1. /\ writeCh' \in Seq(Pieces) /\ Len(writeCh') = Len(writeCh) - 1 /\ Len(writeCh) \in Nat \ {0}
      /\ \A i \in 1..Len(writeCh') : writeCh'[i] = writeCh[i + 1]
      /\ Head(writeCh) = writeCh[1] /\ Head(writeCh) \in Pieces
  OBVIOUS
<1>2. ASSUME NEW i \in 1..Len(writeCh) PROVE Before(i)' = Before(i + 1)
  <2>1. CASE i = 1
    BY <1>1, <2>1 DEF Before
  <2>2. CASE i = 2
    BY <1>1, <2>2 DEF Before, ExitOnce
  <2>3. CASE i > 2
    BY <1>1, <2>3 DEF Before
  <2> QED
    BY <2>1, <2>2, <2>3, <1>1
<1>3. Sent' = Sent
  BY <1>1, <1>2 DEF Sent
<1> QED
  BY <1>1, <1>2, <1>3

(* Nothing that it depends on changed.                                     *)
LEMMA SentStays ==
    ASSUME writeCh' = writeCh, client'.got = client.got
    PROVE  Sent' = Sent /\ \A i \in Nat : Before(i)' = Before(i)
  BY DEF Sent, Before

(* The positions are numbers.                                              *)
LEMMA PtyNumbers ==
    ASSUME PtyType
    PROVE  /\ start \in Nat /\ end \in Nat /\ delivered \in Nat /\ client.got \in Nat
           /\ Len(writeCh) \in Nat /\ Sent \in Nat
           /\ \A i \in 1..Len(writeCh) : writeCh[i].to \in Nat /\ writeCh[i].from \in Nat
<1>1. /\ start \in Nat /\ end \in Nat /\ delivered \in Nat /\ client.got \in Nat
      /\ Len(writeCh) \in Nat
      /\ \A i \in 1..Len(writeCh) : writeCh[i].to \in Nat /\ writeCh[i].from \in Nat
  BY DEF PtyType, Pieces
<1> QED
  BY <1>1 DEF Sent, Before

(* The process writes.                                                     *)
LEMMA PtyWrite ==
    ASSUME PtyInv, NEW n \in {1, Window + 1}, Write(n)
    PROVE  PtyInv'
<1>0. /\ PtyAssumption /\ PtyType /\ RingFollows /\ OneSession /\ ExitOnce
      /\ ChannelInOrder /\ ForwarderInOrder /\ ExitComesLast /\ ExitAtEnd /\ ~torn
  BY PtyAssumption DEF PtyInv
<1>t. /\ start \in Nat /\ end \in Nat /\ delivered \in Nat /\ client.got \in Nat
      /\ Len(writeCh) \in Nat /\ Sent \in Nat
      /\ \A i \in 1..Len(writeCh) : writeCh[i].to \in Nat /\ writeCh[i].from \in Nat
  BY <1>0, PtyNumbers
<1>b. Sent' = Sent /\ \A i \in Nat : Before(i)' = Before(i)
  BY SentStays DEF Write, sessionVars
<1>c. end' \in Nat /\ end <= end' /\ start <= start' /\ start' \in Nat
  BY <1>0, <1>t DEF Write, PtyAssumption
<1>u. UNCHANGED <<delivered, sink, doneCh, sessionVars, client, torn>> /\ ~doneCh
  BY DEF Write
<1>1. PtyType'
  BY <1>0 DEF Write, sessionVars, PtyType
<1>2. RingFollows'
  BY <1>0 DEF Write, sessionVars, RingFollows, PtyType
<1>3. OneSession'
  BY <1>0 DEF Write, sessionVars, OneSession, PtyType
<1>4. ExitOnce'
  BY <1>0 DEF Write, sessionVars, ExitOnce, OneSession
<1>5. ChannelInOrder'
  BY <1>0, <1>t, <1>b, <1>c, <1>u DEF ChannelInOrder, Follows, sessionVars
<1>6. ForwarderInOrder'
  <2>1. session \in Sessions => copied[session].to \in Nat /\ copied[session].from \in Nat
    BY <1>0 DEF PtyType, Pieces
  <2>2. UNCHANGED <<delivered, session, writer, forwarder, copied>>
    BY <1>u DEF sessionVars
  <2> QED
    BY <1>0, <1>t, <1>b, <1>c, <2>1, <2>2 DEF ForwarderInOrder, Follows
<1>7. ExitComesLast'
  BY <1>0 DEF Write, sessionVars, ExitComesLast, AllSent, Sent, OneSession, NoClient
<1>8. ExitAtEnd'
  BY <1>0, <1>u, <1>b DEF ExitAtEnd, sessionVars, ExitComesLast, AllSent, OneSession,
       PtyType
<1>9. ~torn'
  BY <1>0 DEF Write, sessionVars, ChannelInOrder, Follows, ExitOnce, Before
<1> QED
  BY <1>1, <1>2, <1>3, <1>4, <1>5, <1>6, <1>7, <1>8, <1>9 DEF PtyInv

(* The process exits.                                                      *)
LEMMA PtyProcessExits ==
    ASSUME PtyInv, ProcessExits
    PROVE  PtyInv'
<1>0. /\ PtyAssumption /\ PtyType /\ RingFollows /\ OneSession /\ ExitOnce
      /\ ChannelInOrder /\ ForwarderInOrder /\ ExitComesLast /\ ExitAtEnd /\ ~torn
  BY PtyAssumption DEF PtyInv
<1>1. PtyType'
  BY <1>0 DEF ProcessExits, sessionVars, PtyType
<1>2. RingFollows'
  BY <1>0 DEF ProcessExits, sessionVars, RingFollows, PtyType
<1>3. OneSession'
  BY <1>0 DEF ProcessExits, sessionVars, OneSession, PtyType
<1>4. ExitOnce'
  BY <1>0 DEF ProcessExits, sessionVars, ExitOnce, OneSession
<1>5. ChannelInOrder'
  BY <1>0 DEF ProcessExits, sessionVars, ChannelInOrder, Follows, Before
<1>6. ForwarderInOrder'
  BY <1>0 DEF ProcessExits, sessionVars, ForwarderInOrder, Follows, Before, Sent
<1>7. ExitComesLast'
  BY <1>0 DEF ProcessExits, sessionVars, ExitComesLast, AllSent, Sent
<1>8. ExitAtEnd'
  BY <1>0 DEF ProcessExits, sessionVars, ExitAtEnd, ExitComesLast, AllSent, Sent, Before
<1>9. ~torn'
  BY <1>0 DEF ProcessExits, sessionVars, ChannelInOrder, Follows, ExitOnce, Before
<1> QED
  BY <1>1, <1>2, <1>3, <1>4, <1>5, <1>6, <1>7, <1>8, <1>9 DEF PtyInv

(* A client attaches.                                                      *)
LEMMA PtyAttaches ==
    ASSUME PtyInv, Attach
    PROVE  PtyInv'
<1>0. /\ PtyAssumption /\ PtyType /\ RingFollows /\ OneSession /\ ExitOnce
      /\ ChannelInOrder /\ ForwarderInOrder /\ ExitComesLast /\ ExitAtEnd /\ ~torn
  BY PtyAssumption DEF PtyInv
<1>1. PtyType'
  BY <1>0 DEF Attach, Sessions, PtyType
<1>2. RingFollows'
  BY <1>0 DEF Attach, Sessions, RingFollows, PtyType
<1>3. OneSession'
  BY <1>0 DEF Attach, Sessions, OneSession, PtyType
<1>4. ExitOnce'
  BY <1>0 DEF Attach, Sessions, ExitOnce, OneSession
<1>5. ChannelInOrder'
  BY <1>0 DEF Attach, Sessions, ChannelInOrder, Follows, Before, PtyType, OneSession
<1>6. ForwarderInOrder'
  BY <1>0 DEF Attach, Sessions, ForwarderInOrder, Follows, Before, Sent, PtyType,
       OneSession, PtyAssumption
<1>7. ExitComesLast'
  BY <1>0 DEF Attach, Sessions, ExitComesLast, AllSent, Sent
<1>8. ExitAtEnd'
  BY <1>0 DEF Attach, Sessions, ExitAtEnd, ExitComesLast, AllSent, Sent, Before
<1>9. ~torn'
  BY <1>0 DEF Attach, Sessions, ChannelInOrder, Follows, ExitOnce, Before
<1> QED
  BY <1>1, <1>2, <1>3, <1>4, <1>5, <1>6, <1>7, <1>8, <1>9 DEF PtyInv

(* The client goes.                                                        *)
LEMMA PtyClientCloses ==
    ASSUME PtyInv, ClientCloses
    PROVE  PtyInv'
<1>0. /\ PtyAssumption /\ PtyType /\ RingFollows /\ OneSession /\ ExitOnce
      /\ ChannelInOrder /\ ForwarderInOrder /\ ExitComesLast /\ ExitAtEnd /\ ~torn
  BY PtyAssumption DEF PtyInv
<1>1. PtyType'
  BY <1>0 DEF ClientCloses, ringVars, sessionVars, PtyType
<1>2. RingFollows'
  BY <1>0 DEF ClientCloses, ringVars, sessionVars, RingFollows, PtyType
<1>3. OneSession'
  BY <1>0 DEF ClientCloses, ringVars, sessionVars, OneSession, PtyType, NoClient
<1>4. ExitOnce'
  BY <1>0 DEF ClientCloses, ringVars, sessionVars, ExitOnce, OneSession
<1>5. ChannelInOrder'
  BY <1>0 DEF ClientCloses, ringVars, sessionVars, ChannelInOrder, Follows, Before
<1>6. ForwarderInOrder'
  BY <1>0 DEF ClientCloses, ringVars, sessionVars, ForwarderInOrder, Follows, Before,
       Sent
<1>7. ExitComesLast'
  BY <1>0 DEF ClientCloses, ringVars, sessionVars, ExitComesLast, AllSent, Sent
<1>8. ExitAtEnd'
  BY <1>0 DEF ClientCloses, ringVars, sessionVars, ExitAtEnd, ExitComesLast, AllSent,
       Sent, Before
<1>9. ~torn'
  BY <1>0 DEF ClientCloses, ringVars, sessionVars, ChannelInOrder, Follows, ExitOnce,
       Before
<1> QED
  BY <1>1, <1>2, <1>3, <1>4, <1>5, <1>6, <1>7, <1>8, <1>9 DEF PtyInv

(* The forwarder copies what comes next, or finds no sink.                 *)
LEMMA PtyForwardCopies ==
    ASSUME PtyInv, NEW s \in Sessions, ForwardCopies(s)
    PROVE  PtyInv'
<1>0. /\ PtyAssumption /\ PtyType /\ RingFollows /\ OneSession /\ ExitOnce
      /\ ChannelInOrder /\ ForwarderInOrder /\ ExitComesLast /\ ExitAtEnd /\ ~torn
  BY PtyAssumption DEF PtyInv
<1>s. /\ s \in Sessions /\ s = session /\ session \in Nat /\ copied[s] \in Pieces /\ forwarder[s] = "run"
      /\ DOMAIN forwarder = Sessions /\ DOMAIN copied = Sessions
  <2>1. forwarder[s] = "run"
    BY DEF ForwardCopies
  <2>2. session \in 0..MaxSessions /\ MaxSessions \in Nat /\ s \in 1..MaxSessions
    BY <1>0 DEF PtyType, Sessions, PtyAssumption
  <2>3. s = session
    BY <1>0, <2>1, <2>2 DEF OneSession
  <2> QED
    BY <1>0, <2>1, <2>2, <2>3 DEF PtyType
<1>p. /\ copied[s].from \in Nat /\ copied[s].to \in Nat /\ copied[s].oldest \in Nat
      /\ copied[s].from <= copied[s].to
  BY <1>s DEF Pieces
<1>t. /\ start \in Nat /\ end \in Nat /\ delivered \in Nat /\ client.got \in Nat
      /\ Len(writeCh) \in Nat /\ Sent \in Nat
      /\ \A i \in 1..Len(writeCh) : writeCh[i].to \in Nat /\ writeCh[i].from \in Nat
  BY <1>0, PtyNumbers
<1>n. /\ delivered' \in Nat /\ delivered' \in {delivered, start} /\ delivered' >= delivered /\ delivered' >= start
      /\ delivered' = start \/ delivered' = delivered
  BY <1>t DEF ForwardCopies, Later
<1>b. \/ sink = 0 /\ forwarder' = [forwarder EXCEPT ![s] = "gone"] /\ copied' = copied
      \/ /\ sink # 0 /\ delivered' < end /\ forwarder' = [forwarder EXCEPT ![s] = "sending"]
         /\ copied' = [copied EXCEPT ![s] = [from |-> delivered', to |-> end, oldest |-> start]]
  BY DEF ForwardCopies
<1>c. [from |-> delivered', to |-> end, oldest |-> start] \in Pieces \/ ~(delivered' < end)
  BY <1>n, <1>t DEF Pieces
<1>u. UNCHANGED <<start, end, sink, doneCh, session, main, done, writeCh, writer, wsReader,
                   watcher, client, torn>>
  BY DEF ForwardCopies
<1>a. Sent' = Sent
  BY <1>u, SentStays
<1>1. PtyType'
  <2>1. start' \in Nat /\ end' \in Nat /\ delivered' \in Nat /\ session' \in 0..MaxSessions
    BY <1>0, <1>n, <1>u DEF PtyType
  <2>2. doneCh' \in BOOLEAN /\ sink' \in 0..MaxSessions
      /\ main' \in {"idle", "serving", "detaching", "joining"} /\ done' \in {"no", "broken", "exit"}
    BY <1>0 DEF ForwardCopies, Later, PtyType
  <2>3. forwarder' \in [Sessions -> {"none", "run", "sending", "sent", "gone"}]
    BY <1>0 DEF ForwardCopies, Later, PtyType
  <2>4. copied' \in [Sessions -> Pieces]
    BY <1>0, <1>b, <1>c DEF PtyType
  <2>5. writeCh' \in Seq(Pieces)
    BY <1>0 DEF ForwardCopies, Later, PtyType
  <2>6. writer' \in {"run", "drain", "gone"} /\ wsReader' \in BOOLEAN
      /\ watcher' \in {"wait", "flush", "send", "sent", "gone"}
    BY <1>0 DEF ForwardCopies, Later, PtyType
  <2>7. client' \in [open : BOOLEAN, got : Nat, exit : BOOLEAN]
    BY <1>0 DEF ForwardCopies, Later, PtyType
  <2> QED
    BY <2>1, <2>2, <2>3, <2>4, <2>5, <2>6, <2>7 DEF PtyType
<1>2. RingFollows'
  BY <1>0 DEF ForwardCopies, Later, RingFollows, PtyType
<1>3. OneSession'
  BY <1>0, <1>b, <1>u, <1>s DEF OneSession
<1>4. ExitOnce'
  BY <1>0, <1>b, <1>u, <1>s, <1>n DEF ExitOnce
<1>5. ChannelInOrder'
  BY <1>0, <1>u DEF ChannelInOrder, Follows, Before
<1>6. ForwarderInOrder'
  BY <1>0, <1>b, <1>s, <1>n, <1>t, <1>a, <1>u DEF ForwarderInOrder, Follows
<1>7. ExitComesLast'
  BY <1>0, <1>b, <1>u, <1>s, <1>n, <1>t DEF ExitComesLast, AllSent
<1>8. ExitAtEnd'
  BY <1>0, <1>u, <1>a DEF ExitAtEnd
<1>9. ~torn'
  BY <1>0 DEF ForwardCopies, Later, ChannelInOrder, Follows, ExitOnce, Before
<1> QED
  BY <1>1, <1>2, <1>3, <1>4, <1>5, <1>6, <1>7, <1>8, <1>9 DEF PtyInv

(* It sends that, or the session is over.                                  *)
LEMMA PtyForwardSends ==
    ASSUME PtyInv, NEW s \in Sessions, ForwardSends(s)
    PROVE  PtyInv'
<1>0. /\ PtyAssumption /\ PtyType /\ RingFollows /\ OneSession /\ ExitOnce
      /\ ChannelInOrder /\ ForwarderInOrder /\ ExitComesLast /\ ExitAtEnd /\ ~torn
  BY PtyAssumption DEF PtyInv
<1>s. /\ s \in Sessions /\ s = session /\ session \in Nat /\ copied[s] \in Pieces /\ forwarder[s] = "sending"
      /\ DOMAIN forwarder = Sessions /\ DOMAIN copied = Sessions
  <2>1. forwarder[s] = "sending"
    BY DEF ForwardSends
  <2>2. session \in 0..MaxSessions /\ MaxSessions \in Nat /\ s \in 1..MaxSessions
    BY <1>0 DEF PtyType, Sessions, PtyAssumption
  <2>3. s = session
    BY <1>0, <2>1, <2>2 DEF OneSession
  <2> QED
    BY <1>0, <2>1, <2>2, <2>3 DEF PtyType
<1>p. /\ copied[s].from \in Nat /\ copied[s].to \in Nat /\ copied[s].oldest \in Nat
      /\ copied[s].from <= copied[s].to
  BY <1>s DEF Pieces
<1>t. /\ start \in Nat /\ end \in Nat /\ delivered \in Nat /\ client.got \in Nat
      /\ Len(writeCh) \in Nat /\ Sent \in Nat
      /\ \A i \in 1..Len(writeCh) : writeCh[i].to \in Nat /\ writeCh[i].from \in Nat
  BY <1>0, PtyNumbers
<1>b. \/ /\ writeCh' = Append(writeCh, copied[s]) /\ sink' = sink
         /\ forwarder' = [forwarder EXCEPT ![s] = "sent"]
      \/ /\ writeCh' = writeCh /\ sink' = 0 /\ done # "no"
         /\ forwarder' = [forwarder EXCEPT ![s] = "gone"]
  BY <1>s DEF ForwardSends, Done, Over
<1>c. UNCHANGED <<start, end, delivered, doneCh, session, main, done, copied, writer, wsReader,
                   watcher, client, torn>>
  BY DEF ForwardSends
<1>d. writeCh' = Append(writeCh, copied[s]) =>
        /\ writeCh' \in Seq(Pieces) /\ Len(writeCh') = Len(writeCh) + 1
        /\ \A i \in 1..Len(writeCh) : writeCh'[i] = writeCh[i]
        /\ writeCh'[Len(writeCh) + 1] = copied[s]
        /\ \A i \in 1..Len(writeCh) + 1 : Before(i)' = Before(i)
        /\ copied[s] # ExitMessage => Sent' = copied[s].to
  <2>1. writeCh \in Seq(Pieces)
    BY <1>0 DEF PtyType
  <2> QED
    BY <1>s, <1>c, <2>1, MessageAppended
<1>x. copied[s] # ExitMessage
  BY <1>0, <1>s, <1>p DEF ExitOnce, ExitMessage
<1>e. writer # "gone" => Follows(copied[s], Sent) /\ copied[s].from = delivered
  BY <1>0, <1>s DEF ForwarderInOrder
<1>f. writeCh' = writeCh => Sent' = Sent /\ \A i \in Nat : Before(i)' = Before(i)
  BY <1>c, SentStays
<1>1. PtyType'
  <2>1. start' \in Nat /\ end' \in Nat /\ delivered' \in Nat /\ session' \in 0..MaxSessions
    BY <1>0 DEF ForwardSends, Done, Over, PtyType
  <2>2. doneCh' \in BOOLEAN /\ sink' \in 0..MaxSessions
      /\ main' \in {"idle", "serving", "detaching", "joining"} /\ done' \in {"no", "broken", "exit"}
    BY <1>0 DEF ForwardSends, Done, Over, PtyType
  <2>3. forwarder' \in [Sessions -> {"none", "run", "sending", "sent", "gone"}]
    BY <1>0 DEF ForwardSends, Done, Over, PtyType
  <2>4. copied' \in [Sessions -> Pieces]
    BY <1>0 DEF ForwardSends, Done, Over, PtyType
  <2>5. writeCh' \in Seq(Pieces)
    BY <1>0, <1>b, <1>d DEF PtyType
  <2>6. writer' \in {"run", "drain", "gone"} /\ wsReader' \in BOOLEAN
      /\ watcher' \in {"wait", "flush", "send", "sent", "gone"}
    BY <1>0 DEF ForwardSends, Done, Over, PtyType
  <2>7. client' \in [open : BOOLEAN, got : Nat, exit : BOOLEAN]
    BY <1>0 DEF ForwardSends, Done, Over, PtyType
  <2> QED
    BY <2>1, <2>2, <2>3, <2>4, <2>5, <2>6, <2>7 DEF PtyType
<1>2. RingFollows'
  BY <1>0 DEF ForwardSends, Done, Over, RingFollows, PtyType
<1>3. OneSession'
  BY <1>0 DEF ForwardSends, Done, Over, OneSession, PtyType
<1>4. ExitOnce'
  <2>1. \A i \in 1..Len(writeCh') :
           writeCh'[i] = ExitMessage => i \in 1..Len(writeCh) /\ writeCh[i] = ExitMessage
    BY <1>b, <1>d, <1>x, <1>t
  <2>2. \A z \in Sessions : forwarder'[z] = "sending" => forwarder[z] = "sending"
    BY <1>b, <1>s
  <2> QED
    BY <1>0, <1>c, <2>1, <2>2 DEF ExitOnce
<1>5. ChannelInOrder'
  <2>1. CASE writeCh' = writeCh
    BY <1>0, <1>c, <1>f, <1>t, <2>1 DEF ChannelInOrder, Follows
  <2>2. CASE writeCh' = Append(writeCh, copied[s])
    BY <1>0, <1>c, <1>d, <1>e, <1>t, <2>2 DEF ChannelInOrder, Follows, Sent
  <2> QED
    BY <1>b, <2>1, <2>2
<1>6. ForwarderInOrder'
  BY <1>0, <1>b, <1>c, <1>d, <1>e, <1>f, <1>s, <1>x, <1>p, <1>t DEF ForwarderInOrder,
       Follows
<1>7. ExitComesLast'
  BY <1>0, <1>b, <1>c, <1>s DEF ExitComesLast, AllSent
<1>8. ExitAtEnd'
  BY <1>0, <1>b, <1>c, <1>s, <1>f DEF ExitAtEnd, ExitComesLast, AllSent, OneSession
<1>9. ~torn'
  BY <1>0 DEF ForwardSends, Done, Over, ChannelInOrder, Follows, ExitOnce, Before
<1> QED
  BY <1>1, <1>2, <1>3, <1>4, <1>5, <1>6, <1>7, <1>8, <1>9 DEF PtyInv

(* It goes on.                                                             *)
LEMMA PtyForwardAdvances ==
    ASSUME PtyInv, NEW s \in Sessions, ForwardAdvances(s)
    PROVE  PtyInv'
<1>0. /\ PtyAssumption /\ PtyType /\ RingFollows /\ OneSession /\ ExitOnce
      /\ ChannelInOrder /\ ForwarderInOrder /\ ExitComesLast /\ ExitAtEnd /\ ~torn
  BY PtyAssumption DEF PtyInv
<1>s. /\ s \in Sessions /\ s = session /\ session \in Nat /\ copied[s] \in Pieces /\ forwarder[s] = "sent"
      /\ DOMAIN forwarder = Sessions /\ DOMAIN copied = Sessions
  <2>1. forwarder[s] = "sent"
    BY DEF ForwardAdvances
  <2>2. session \in 0..MaxSessions /\ MaxSessions \in Nat /\ s \in 1..MaxSessions
    BY <1>0 DEF PtyType, Sessions, PtyAssumption
  <2>3. s = session
    BY <1>0, <2>1, <2>2 DEF OneSession
  <2> QED
    BY <1>0, <2>1, <2>2, <2>3 DEF PtyType
<1>p. /\ copied[s].from \in Nat /\ copied[s].to \in Nat /\ copied[s].oldest \in Nat
      /\ copied[s].from <= copied[s].to
  BY <1>s DEF Pieces
<1>t. /\ start \in Nat /\ end \in Nat /\ delivered \in Nat /\ client.got \in Nat
      /\ Len(writeCh) \in Nat /\ Sent \in Nat
      /\ \A i \in 1..Len(writeCh) : writeCh[i].to \in Nat /\ writeCh[i].from \in Nat
  BY <1>0, PtyNumbers
<1>b. \/ sink = 0 /\ forwarder' = [forwarder EXCEPT ![s] = "gone"] /\ delivered' = delivered
      \/ /\ sink # 0 /\ forwarder' = [forwarder EXCEPT ![s] = "run"]
         /\ delivered' = delivered + (copied[s].to - copied[s].from)
  BY DEF ForwardAdvances
<1>c. copied' = [copied EXCEPT ![s] = Nothing] /\ Nothing \in Pieces
  BY DEF ForwardAdvances, Nothing, Pieces
<1>u. UNCHANGED <<start, end, sink, doneCh, session, main, done, writeCh, writer, wsReader,
                   watcher, client, torn>>
  BY DEF ForwardAdvances
<1>n. delivered' \in Nat
  BY <1>b, <1>p, <1>t
<1>a. Sent' = Sent
  BY <1>u, SentStays
<1>1. PtyType'
  <2>1. start' \in Nat /\ end' \in Nat /\ delivered' \in Nat /\ session' \in 0..MaxSessions
    BY <1>0, <1>n, <1>u DEF PtyType
  <2>2. doneCh' \in BOOLEAN /\ sink' \in 0..MaxSessions
      /\ main' \in {"idle", "serving", "detaching", "joining"} /\ done' \in {"no", "broken", "exit"}
    BY <1>0 DEF ForwardAdvances, Nothing, PtyType
  <2>3. forwarder' \in [Sessions -> {"none", "run", "sending", "sent", "gone"}]
    BY <1>0 DEF ForwardAdvances, Nothing, PtyType
  <2>4. copied' \in [Sessions -> Pieces]
    BY <1>0, <1>c DEF PtyType
  <2>5. writeCh' \in Seq(Pieces)
    BY <1>0 DEF ForwardAdvances, Nothing, PtyType
  <2>6. writer' \in {"run", "drain", "gone"} /\ wsReader' \in BOOLEAN
      /\ watcher' \in {"wait", "flush", "send", "sent", "gone"}
    BY <1>0 DEF ForwardAdvances, Nothing, PtyType
  <2>7. client' \in [open : BOOLEAN, got : Nat, exit : BOOLEAN]
    BY <1>0 DEF ForwardAdvances, Nothing, PtyType
  <2> QED
    BY <2>1, <2>2, <2>3, <2>4, <2>5, <2>6, <2>7 DEF PtyType
<1>2. RingFollows'
  BY <1>0 DEF ForwardAdvances, Nothing, RingFollows, PtyType
<1>3. OneSession'
  BY <1>0, <1>b, <1>u, <1>s DEF OneSession
<1>4. ExitOnce'
  BY <1>0, <1>b, <1>u, <1>c, <1>s DEF ExitOnce
<1>5. ChannelInOrder'
  BY <1>0, <1>u DEF ChannelInOrder, Follows, Before
<1>6. ForwarderInOrder'
  BY <1>0, <1>b, <1>c, <1>s, <1>p, <1>t, <1>a, <1>u DEF ForwarderInOrder, Follows
<1>7. ExitComesLast'
  BY <1>0, <1>b, <1>u, <1>s, <1>n, <1>t DEF ExitComesLast, AllSent
<1>8. ExitAtEnd'
  BY <1>0, <1>u, <1>a DEF ExitAtEnd
<1>9. ~torn'
  BY <1>0 DEF ForwardAdvances, Nothing, ChannelInOrder, Follows, ExitOnce, Before
<1> QED
  BY <1>1, <1>2, <1>3, <1>4, <1>5, <1>6, <1>7, <1>8, <1>9 DEF PtyInv

(* The writer writes to the client, or cannot.                             *)
LEMMA PtyWriterWrites ==
    ASSUME PtyInv, WriterWrites
    PROVE  PtyInv'
<1>0. /\ PtyAssumption /\ PtyType /\ RingFollows /\ OneSession /\ ExitOnce
      /\ ChannelInOrder /\ ForwarderInOrder /\ ExitComesLast /\ ExitAtEnd /\ ~torn
  BY PtyAssumption DEF PtyInv
<1>t. /\ start \in Nat /\ end \in Nat /\ delivered \in Nat /\ client.got \in Nat
      /\ Len(writeCh) \in Nat /\ Sent \in Nat
      /\ \A i \in 1..Len(writeCh) : writeCh[i].to \in Nat /\ writeCh[i].from \in Nat
  BY <1>0, PtyNumbers
<1>a. /\ writeCh' \in Seq(Pieces) /\ Len(writeCh') = Len(writeCh) - 1 /\ Len(writeCh) \in Nat \ {0}
      /\ Head(writeCh) = writeCh[1] /\ Head(writeCh) \in Pieces
      /\ \A i \in 1..Len(writeCh') : writeCh'[i] = writeCh[i + 1]
  BY <1>0 DEF PtyType, WriterWrites
<1>k. /\ client \in [open : BOOLEAN, got : Nat, exit : BOOLEAN]
      /\ writer \in {"run", "drain"} /\ Head(writeCh).to \in Nat /\ Head(writeCh).from \in Nat
  BY <1>0, <1>a DEF PtyType, WriterWrites, Pieces
<1>b. \/ /\ client.open /\ UNCHANGED <<writer, done, torn>> /\ Head(writeCh) = ExitMessage
         /\ client'.exit = TRUE /\ client'.open = client.open /\ client'.got = client.got
      \/ /\ client.open /\ UNCHANGED <<writer, done>> /\ Head(writeCh) # ExitMessage
         /\ client'.exit = client.exit /\ client'.open = client.open /\ client'.got = Head(writeCh).to
         /\ torn' = (torn \/ (client.exit /\ done = "exit")
                        \/ (Head(writeCh).from # client.got /\ Head(writeCh).from # Head(writeCh).oldest)
                        \/ Head(writeCh).from < client.got)
      \/ /\ writer' = "gone" /\ done' = (IF done # "no" THEN done ELSE "broken") /\ UNCHANGED torn
         /\ client'.exit = client.exit /\ client'.open = FALSE /\ client'.got = client.got
  BY <1>k DEF WriterWrites, Receive, PtyShutdown, Over
<1>c. writer' # "gone" =>
        /\ \A i \in 1..Len(writeCh) : Before(i)' = Before(i + 1)
        /\ Sent' = Sent
  <2>1. writeCh \in Seq(Pieces) /\ writeCh # <<>> /\ writeCh' = Tail(writeCh)
    BY <1>0 DEF PtyType, WriterWrites
  <2> QED
    BY <1>0, <1>b, <2>1, MessageTaken
<1>h. Head(writeCh) # ExitMessage => Follows(Head(writeCh), client.got)
  BY <1>0, <1>a, <1>k DEF ChannelInOrder, Before
<1>u. /\ UNCHANGED <<end, start, delivered, forwarder, copied, session, main, sink, doneCh, watcher, wsReader>>
      /\ main # "idle"
  BY <1>0 DEF WriterWrites, ringVars, OneSession
<1>l. writeCh # <<>> /\ (done = "exit" => ~client.exit)
  BY <1>0, <1>k DEF WriterWrites, ExitAtEnd
<1>1. PtyType'
  <2>1. start' \in Nat /\ end' \in Nat /\ delivered' \in Nat /\ session' \in 0..MaxSessions
    BY <1>0 DEF WriterWrites, ringVars, Receive, PtyShutdown, PtyType
  <2>2. doneCh' \in BOOLEAN /\ sink' \in 0..MaxSessions
      /\ main' \in {"idle", "serving", "detaching", "joining"} /\ done' \in {"no", "broken", "exit"}
    BY <1>0 DEF WriterWrites, ringVars, Receive, PtyShutdown, PtyType
  <2>3. forwarder' \in [Sessions -> {"none", "run", "sending", "sent", "gone"}]
    BY <1>0 DEF WriterWrites, ringVars, Receive, PtyShutdown, PtyType
  <2>4. copied' \in [Sessions -> Pieces]
    BY <1>0 DEF WriterWrites, ringVars, Receive, PtyShutdown, PtyType
  <2>5. writeCh' \in Seq(Pieces)
    BY <1>a
  <2>6. writer' \in {"run", "drain", "gone"} /\ wsReader' \in BOOLEAN
      /\ watcher' \in {"wait", "flush", "send", "sent", "gone"}
    BY <1>0 DEF WriterWrites, ringVars, Receive, PtyShutdown, PtyType
  <2>7. client' \in [open : BOOLEAN, got : Nat, exit : BOOLEAN]
    BY <1>a, <1>k DEF WriterWrites, Receive, PtyShutdown
  <2> QED
    BY <2>1, <2>2, <2>3, <2>4, <2>5, <2>6, <2>7 DEF PtyType
<1>2. RingFollows'
  BY <1>0 DEF WriterWrites, ringVars, Receive, PtyShutdown, RingFollows, PtyType
<1>3. OneSession'
  BY <1>0 DEF WriterWrites, ringVars, Receive, PtyShutdown, OneSession, PtyType,
       NoClient, Over
<1>4. ExitOnce'
  <2>1. \A i, j \in 1..Len(writeCh') : writeCh'[i] = ExitMessage /\ writeCh'[j] = ExitMessage => i = j
    BY <1>0, <1>a DEF ExitOnce
  <2>2. \A i \in 1..Len(writeCh') : writeCh'[i] = ExitMessage
           => watcher' \in {"sent", "gone"} /\ ~client'.exit /\ done' # "no"
    <3> SUFFICES ASSUME NEW i \in 1..Len(writeCh'), writeCh'[i] = ExitMessage
                 PROVE  watcher' \in {"sent", "gone"} /\ ~client'.exit /\ done' # "no"
      OBVIOUS
    <3>1. i + 1 \in 1..Len(writeCh) /\ 1 \in 1..Len(writeCh) /\ i + 1 # 1 /\ writeCh[i + 1] = ExitMessage
      BY <1>a
    <3>2. watcher \in {"sent", "gone"} /\ ~client.exit /\ done # "no" /\ writeCh[1] # ExitMessage
      BY <1>0, <3>1 DEF ExitOnce
    <3> QED
      BY <3>2, <1>a, <1>b, <1>u
  <2>3. client'.exit => watcher' \in {"sent", "gone"} /\ done' # "no"
    <3>1. writeCh[1] = ExitMessage => watcher \in {"sent", "gone"} /\ done # "no"
      BY <1>0, <1>a DEF ExitOnce
    <3> QED
      BY <1>0, <1>a, <1>b, <1>u, <3>1 DEF ExitOnce
  <2> QED
    BY <1>0, <1>u, <2>1, <2>2, <2>3 DEF ExitOnce
<1>5. ChannelInOrder'
  <2>1. \A i \in 1..Len(writeCh') : writer' # "gone" /\ writeCh'[i] # ExitMessage
           => Follows(writeCh'[i], Before(i)')
    <3> SUFFICES ASSUME NEW i \in 1..Len(writeCh'), writer' # "gone", writeCh'[i] # ExitMessage
                 PROVE  Follows(writeCh'[i], Before(i)')
      OBVIOUS
    <3>1. i + 1 \in 1..Len(writeCh) /\ i \in 1..Len(writeCh) /\ writeCh'[i] = writeCh[i + 1]
      BY <1>a
    <3>2. Before(i)' = Before(i + 1)
      BY <1>c, <3>1
    <3> QED
      BY <1>0, <1>k, <3>1, <3>2 DEF ChannelInOrder
  <2>2. writer' # "gone" => client'.got <= end'
    BY <1>0, <1>b, <1>h, <1>k, <1>u DEF ChannelInOrder, Follows
  <2> QED
    BY <2>1, <2>2, <1>u DEF ChannelInOrder, Follows
<1>6. ForwarderInOrder'
  BY <1>0, <1>k, <1>b, <1>c, <1>u DEF ForwarderInOrder, Follows
<1>7. ExitComesLast'
  <2>1. done = "exit" /\ Head(writeCh) = ExitMessage => client.got = end
    BY <1>0, <1>k, <1>a, <1>l DEF ExitAtEnd, Sent, Before
  <2> QED
    BY <1>0, <1>a, <1>b, <1>u, <1>l, <2>1 DEF ExitComesLast, AllSent
<1>8. ExitAtEnd'
  <2>1. done = "exit" /\ writer' # "gone" /\ client'.exit => writeCh' = <<>>
    <3>1. done = "exit" /\ writeCh[1] = ExitMessage => Len(writeCh) = 1
      BY <1>0, <1>a, <1>k DEF ExitAtEnd
    <3>2. Len(writeCh') = 0 => writeCh' = <<>>
      BY <1>a
    <3>3. writer' # "gone" /\ client'.exit /\ ~client.exit => writeCh[1] = ExitMessage
      BY <1>a, <1>b
    <3>4. Len(writeCh) = 1 => Len(writeCh') = 0
      BY <1>a
    <3> QED
      BY <3>1, <3>2, <3>3, <3>4, <1>l
  <2> QED
    BY <1>0, <1>a, <1>b, <1>c, <1>u, <1>k, <2>1 DEF ExitAtEnd
<1>9. ~torn'
  <2>1. Head(writeCh) # ExitMessage =>
          /\ ~(client.exit /\ done = "exit")
          /\ ~(Head(writeCh).from # client.got /\ Head(writeCh).from # Head(writeCh).oldest)
          /\ ~(Head(writeCh).from < client.got)
    BY <1>h, <1>l, <1>k, <1>t DEF Follows
  <2>2. CASE torn' = torn
    BY <1>0, <2>2
  <2> QED
    BY <1>0, <1>b, <2>1, <2>2
<1> QED
  BY <1>1, <1>2, <1>3, <1>4, <1>5, <1>6, <1>7, <1>8, <1>9 DEF PtyInv

(* The writer ends, once it has written what was sent.                     *)
LEMMA PtyWriterEnds ==
    ASSUME PtyInv, WriterEnds
    PROVE  PtyInv'
<1>0. /\ PtyAssumption /\ PtyType /\ RingFollows /\ OneSession /\ ExitOnce
      /\ ChannelInOrder /\ ForwarderInOrder /\ ExitComesLast /\ ExitAtEnd /\ ~torn
  BY PtyAssumption DEF PtyInv
<1>1. PtyType'
  BY <1>0 DEF WriterEnds, ringVars, Over, PtyType
<1>2. RingFollows'
  BY <1>0 DEF WriterEnds, ringVars, Over, RingFollows, PtyType
<1>3. OneSession'
  BY <1>0 DEF WriterEnds, ringVars, Over, OneSession, PtyType
<1>4. ExitOnce'
  BY <1>0 DEF WriterEnds, ringVars, Over, ExitOnce, OneSession
<1>5. ChannelInOrder'
  BY <1>0 DEF WriterEnds, ringVars, Over, ChannelInOrder, Follows, Before
<1>6. ForwarderInOrder'
  BY <1>0 DEF WriterEnds, ringVars, Over, ForwarderInOrder, Follows, Before, Sent
<1>7. ExitComesLast'
  BY <1>0 DEF WriterEnds, ringVars, Over, ExitComesLast, AllSent, Sent
<1>8. ExitAtEnd'
  BY <1>0 DEF WriterEnds, ringVars, Over, ExitAtEnd, ExitComesLast, AllSent, Sent,
       Before
<1>9. ~torn'
  BY <1>0 DEF WriterEnds, ringVars, Over, ChannelInOrder, Follows, ExitOnce, Before
<1> QED
  BY <1>1, <1>2, <1>3, <1>4, <1>5, <1>6, <1>7, <1>8, <1>9 DEF PtyInv

(* The reader ends.                                                        *)
LEMMA PtyReaderEnds ==
    ASSUME PtyInv, ReaderEnds
    PROVE  PtyInv'
<1>0. /\ PtyAssumption /\ PtyType /\ RingFollows /\ OneSession /\ ExitOnce
      /\ ChannelInOrder /\ ForwarderInOrder /\ ExitComesLast /\ ExitAtEnd /\ ~torn
  BY PtyAssumption DEF PtyInv
<1>1. PtyType'
  BY <1>0 DEF ReaderEnds, ringVars, Over, PtyShutdown, PtyType
<1>2. RingFollows'
  BY <1>0 DEF ReaderEnds, ringVars, Over, PtyShutdown, RingFollows, PtyType
<1>3. OneSession'
  BY <1>0 DEF ReaderEnds, ringVars, Over, PtyShutdown, OneSession, PtyType
<1>4. ExitOnce'
  BY <1>0 DEF ReaderEnds, ringVars, Over, PtyShutdown, ExitOnce, OneSession
<1>5. ChannelInOrder'
  BY <1>0 DEF ReaderEnds, ringVars, Over, PtyShutdown, ChannelInOrder, Follows, Before
<1>6. ForwarderInOrder'
  BY <1>0 DEF ReaderEnds, ringVars, Over, PtyShutdown, ForwarderInOrder, Follows,
       Before, Sent
<1>7. ExitComesLast'
  BY <1>0 DEF ReaderEnds, ringVars, Over, PtyShutdown, ExitComesLast, AllSent, Sent
<1>8. ExitAtEnd'
  BY <1>0 DEF ReaderEnds, ringVars, Over, PtyShutdown, ExitAtEnd, ExitComesLast,
       AllSent, Sent, Before
<1>9. ~torn'
  BY <1>0 DEF ReaderEnds, ringVars, Over, PtyShutdown, ChannelInOrder, Follows,
       ExitOnce, Before
<1> QED
  BY <1>1, <1>2, <1>3, <1>4, <1>5, <1>6, <1>7, <1>8, <1>9 DEF PtyInv

(* The watcher flushes, sends the exit or waits for the writer.            *)
LEMMA PtyWatcherStep ==
    ASSUME PtyInv, WatcherStep
    PROVE  PtyInv'
<1>0. /\ PtyAssumption /\ PtyType /\ RingFollows /\ OneSession /\ ExitOnce
      /\ ChannelInOrder /\ ForwarderInOrder /\ ExitComesLast /\ ExitAtEnd /\ ~torn
  BY PtyAssumption DEF PtyInv
<1>t. /\ start \in Nat /\ end \in Nat /\ delivered \in Nat /\ client.got \in Nat
      /\ Len(writeCh) \in Nat /\ Sent \in Nat
      /\ \A i \in 1..Len(writeCh) : writeCh[i].to \in Nat /\ writeCh[i].from \in Nat
  BY <1>0, PtyNumbers
<1>b. \/ writeCh' = writeCh /\ done' = done /\ watcher' # "sent"
         /\ (watcher' = "send" => watcher = "flush" /\ Flushed)
      \/ /\ writeCh' = Append(writeCh, ExitMessage) /\ watcher = "send" /\ watcher' = "sent"
         /\ done' = IF done # "no" THEN done ELSE "exit"
  BY DEF WatcherStep, PtyShutdown, Over
<1>o. watcher \in {"wait", "flush", "send", "sent"} /\ (watcher = "sent" => watcher' = "gone")
  BY DEF WatcherStep
<1>c. UNCHANGED <<end, start, delivered, forwarder, copied, session, main, sink, doneCh, writer, wsReader,
                  torn, client>>
  BY DEF WatcherStep, ringVars
<1>x. ExitMessage \in Pieces
  BY DEF ExitMessage, Pieces
<1>w. watcher = "send" => (\A i \in 1..Len(writeCh) : writeCh[i] # ExitMessage) /\ ~client.exit
  BY <1>0 DEF ExitOnce
<1>d. writeCh' = Append(writeCh, ExitMessage) =>
        /\ writeCh' \in Seq(Pieces) /\ Len(writeCh') = Len(writeCh) + 1
        /\ \A i \in 1..Len(writeCh) : writeCh'[i] = writeCh[i]
        /\ writeCh'[Len(writeCh) + 1] = ExitMessage
        /\ \A i \in 1..Len(writeCh) + 1 : Before(i)' = Before(i)
  <2>1. writeCh \in Seq(Pieces)
    BY <1>0 DEF PtyType
  <2> QED
    BY <1>c, <1>x, <2>1, MessageAppended
<1>e. Sent' = Sent
  <2>1. writeCh \in Seq(Pieces)
    BY <1>0 DEF PtyType
  <2> QED
    BY <2>1, <1>b, <1>c, <1>w, ExitAppended, SentStays
<1>f. writeCh' = writeCh => \A i \in Nat : Before(i)' = Before(i)
  BY <1>c, SentStays
<1>m. writer # "gone" => Sent <= end
  <2>1. Len(writeCh) > 1 => ~(writeCh[Len(writeCh)] = ExitMessage /\ writeCh[Len(writeCh) - 1] = ExitMessage)
    BY <1>0, <1>t DEF ExitOnce
  <2>2. \/ Sent = client.got
        \/ \E i \in 1..Len(writeCh) : writeCh[i] # ExitMessage /\ Sent = writeCh[i].to
    <3>1. CASE Len(writeCh) = 0
      BY <3>1 DEF Sent, Before
    <3>2. CASE Len(writeCh) > 0 /\ writeCh[Len(writeCh)] # ExitMessage
      BY <3>2, <1>t DEF Sent, Before
    <3>3. CASE Len(writeCh) = 1 /\ writeCh[Len(writeCh)] = ExitMessage
      BY <3>3 DEF Sent, Before
    <3>4. CASE Len(writeCh) > 1 /\ writeCh[Len(writeCh)] = ExitMessage
      <4>1. Len(writeCh) - 1 \in 1..Len(writeCh) /\ Sent = writeCh[Len(writeCh) - 1].to
        BY <3>4, <1>t DEF Sent, Before
      <4> QED
        BY <2>1, <3>4, <4>1
    <3>5. Len(writeCh) \in Nat
      BY <1>t
    <3>6. \A n \in Nat : n = 0 \/ (n = 1 /\ n > 0) \/ (n > 1 /\ n > 0)
      OBVIOUS
    <3> QED
      BY <3>1, <3>2, <3>3, <3>4, <3>5, <3>6
  <2>3. writer # "gone" =>
          /\ client.got <= end
          /\ \A i \in 1..Len(writeCh) : writeCh[i] # ExitMessage => writeCh[i].to <= end
    BY <1>0 DEF ChannelInOrder, Follows
  <2> QED
    BY <2>2, <2>3
<1>y. done = "no" /\ watcher \in {"flush", "send"} =>
        /\ writer = "run" /\ sink # 0 /\ doneCh /\ session \in Sessions /\ forwarder[session] # "gone"
        /\ forwarder[session] \in {"run", "sending", "sent"}
  BY <1>0 DEF OneSession, PtyType, Sessions, PtyAssumption
<1>g. watcher = "send" /\ done = "no" => AllSent /\ Sent = end
  BY <1>0, <1>t, <1>m, <1>y DEF ExitComesLast, AllSent, ForwarderInOrder, RingFollows
<1>z. watcher = "flush" /\ done = "no" /\ Flushed => AllSent
  <2>1. session \in Sessions => copied[session].to \in Nat /\ copied[session].from \in Nat
    BY <1>0 DEF PtyType, Pieces
  <2> QED
    BY <1>0, <1>t, <1>m, <1>y, <2>1 DEF AllSent, ForwarderInOrder, Flushed, Follows
<1>1. PtyType'
  <2>1. start' \in Nat /\ end' \in Nat /\ delivered' \in Nat /\ session' \in 0..MaxSessions
    BY <1>0 DEF WatcherStep, ringVars, Over, PtyShutdown, PtyType
  <2>2. doneCh' \in BOOLEAN /\ sink' \in 0..MaxSessions
      /\ main' \in {"idle", "serving", "detaching", "joining"} /\ done' \in {"no", "broken", "exit"}
    BY <1>0 DEF WatcherStep, ringVars, Over, PtyShutdown, PtyType
  <2>3. forwarder' \in [Sessions -> {"none", "run", "sending", "sent", "gone"}]
    BY <1>0 DEF WatcherStep, ringVars, Over, PtyShutdown, PtyType
  <2>4. copied' \in [Sessions -> Pieces]
    BY <1>0 DEF WatcherStep, ringVars, Over, PtyShutdown, PtyType
  <2>5. writeCh' \in Seq(Pieces)
    BY <1>0, <1>b, <1>d DEF PtyType
  <2>6. writer' \in {"run", "drain", "gone"} /\ wsReader' \in BOOLEAN
      /\ watcher' \in {"wait", "flush", "send", "sent", "gone"}
    BY <1>0 DEF WatcherStep, ringVars, Over, PtyShutdown, PtyType
  <2>7. client' \in [open : BOOLEAN, got : Nat, exit : BOOLEAN]
    BY <1>0 DEF WatcherStep, ringVars, Over, PtyShutdown, PtyType
  <2> QED
    BY <2>1, <2>2, <2>3, <2>4, <2>5, <2>6, <2>7 DEF PtyType
<1>2. RingFollows'
  BY <1>0 DEF WatcherStep, ringVars, Over, PtyShutdown, RingFollows, PtyType
<1>3. OneSession'
  BY <1>0 DEF WatcherStep, ringVars, Over, PtyShutdown, OneSession, PtyType
<1>4. ExitOnce'
  <2>1. \A i \in 1..Len(writeCh') : writeCh'[i] = ExitMessage
           => \/ i \in 1..Len(writeCh) /\ writeCh[i] = ExitMessage
              \/ watcher = "send" /\ i = Len(writeCh')
    BY <1>b, <1>d, <1>t
  <2>2. watcher = "send" => watcher' \in {"sent", "gone"}
    BY DEF WatcherStep
  <2>3. done' # "no" \/ done' = done
    BY <1>b
  <2> QED
    BY <1>0, <1>b, <1>c, <1>d, <1>w, <1>o, <2>1, <2>2, <2>3 DEF ExitOnce
<1>5. ChannelInOrder'
  <2>1. CASE writeCh' = writeCh
    BY <1>0, <1>c, <1>f, <1>t, <2>1 DEF ChannelInOrder, Follows
  <2>2. CASE writeCh' = Append(writeCh, ExitMessage)
    BY <1>0, <1>c, <1>d, <1>t, <2>2 DEF ChannelInOrder, Follows
  <2> QED
    BY <1>b, <2>1, <2>2
<1>6. ForwarderInOrder'
  BY <1>0, <1>c, <1>e DEF ForwarderInOrder, Follows
<1>7. ExitComesLast'
  <2>1. AllSent' = AllSent
    BY <1>c DEF AllSent
  <2> QED
    BY <1>0, <1>b, <1>c, <1>g, <1>w, <1>z, <2>1 DEF ExitComesLast
<1>8. ExitAtEnd'
  <2>1. CASE writeCh' = writeCh /\ done' = done
    BY <1>0, <1>c, <1>e, <2>1 DEF ExitAtEnd
  <2>2. CASE writeCh' = Append(writeCh, ExitMessage) /\ watcher = "send" /\ done = "no"
    BY <1>c, <1>d, <1>e, <1>w, <1>g, <1>t, <2>2 DEF ExitAtEnd
  <2>3. CASE writeCh' = Append(writeCh, ExitMessage) /\ watcher = "send" /\ done # "no" /\ done' = done
    BY <1>0, <1>c, <1>d, <1>e, <1>w, <1>t, <2>3 DEF ExitAtEnd
  <2> QED
    BY <1>b, <2>1, <2>2, <2>3
<1>9. ~torn'
  BY <1>0 DEF WatcherStep, ringVars, Over, PtyShutdown, ChannelInOrder, Follows,
       ExitOnce, Before
<1> QED
  BY <1>1, <1>2, <1>3, <1>4, <1>5, <1>6, <1>7, <1>8, <1>9 DEF PtyInv

(* The handler detaches and waits for the others.                          *)
LEMMA PtyMainStep ==
    ASSUME PtyInv, MainStep
    PROVE  PtyInv'
<1>0. /\ PtyAssumption /\ PtyType /\ RingFollows /\ OneSession /\ ExitOnce
      /\ ChannelInOrder /\ ForwarderInOrder /\ ExitComesLast /\ ExitAtEnd /\ ~torn
  BY PtyAssumption DEF PtyInv
<1>1. PtyType'
  <2>1. start' \in Nat /\ end' \in Nat /\ delivered' \in Nat /\ session' \in 0..MaxSessions
    BY <1>0 DEF MainStep, ForwarderGone, Over, PtyType
  <2>2. doneCh' \in BOOLEAN /\ sink' \in 0..MaxSessions
      /\ main' \in {"idle", "serving", "detaching", "joining"} /\ done' \in {"no", "broken", "exit"}
    BY <1>0 DEF MainStep, ForwarderGone, Over, PtyType
  <2>3. forwarder' \in [Sessions -> {"none", "run", "sending", "sent", "gone"}]
    BY <1>0 DEF MainStep, ForwarderGone, Over, PtyType
  <2>4. copied' \in [Sessions -> Pieces]
    BY <1>0 DEF MainStep, ForwarderGone, Over, PtyType
  <2>5. writeCh' \in Seq(Pieces)
    BY <1>0 DEF MainStep, ForwarderGone, Over, PtyType
  <2>6. writer' \in {"run", "drain", "gone"} /\ wsReader' \in BOOLEAN
      /\ watcher' \in {"wait", "flush", "send", "sent", "gone"}
    BY <1>0 DEF MainStep, ForwarderGone, Over, PtyType
  <2>7. client' \in [open : BOOLEAN, got : Nat, exit : BOOLEAN]
    BY <1>0 DEF MainStep, ForwarderGone, Over, PtyType, NoClient
  <2> QED
    BY <2>1, <2>2, <2>3, <2>4, <2>5, <2>6, <2>7 DEF PtyType
<1>2. RingFollows'
  BY <1>0 DEF MainStep, ForwarderGone, Over, RingFollows, PtyType
<1>3. OneSession'
  BY <1>0 DEF MainStep, ForwarderGone, Over, OneSession, PtyType
<1>4. ExitOnce'
  BY <1>0 DEF MainStep, ForwarderGone, Over, ExitOnce, OneSession, NoClient
<1>5. ChannelInOrder'
  BY <1>0 DEF MainStep, ForwarderGone, Over, ChannelInOrder, Follows, Before
<1>6. ForwarderInOrder'
  BY <1>0 DEF MainStep, ForwarderGone, Over, ForwarderInOrder, Follows, Before, Sent
<1>7. ExitComesLast'
  BY <1>0 DEF MainStep, ForwarderGone, Over, ExitComesLast, AllSent, Sent, NoClient,
       OneSession
<1>8. ExitAtEnd'
  BY <1>0 DEF MainStep, ForwarderGone, Over, ExitAtEnd, ExitComesLast, AllSent, Sent,
       Before
<1>9. ~torn'
  BY <1>0 DEF MainStep, ForwarderGone, Over, ChannelInOrder, Follows, ExitOnce, Before
<1> QED
  BY <1>1, <1>2, <1>3, <1>4, <1>5, <1>6, <1>7, <1>8, <1>9 DEF PtyInv

-----------------------------------------------------------------------------
(* It holds at first: no session, nothing written.                         *)
LEMMA PtyAtFirst == PtyInit => PtyInv
<1> SUFFICES ASSUME PtyInit PROVE PtyInv
  OBVIOUS
<1>1. PtyType
  <2>1. copied \in [Sessions -> Pieces]
    BY DEF PtyInit, Pieces, Nothing
  <2>2. client \in [open : BOOLEAN, got : Nat, exit : BOOLEAN]
    BY DEF PtyInit, NoClient
  <2>3. writeCh \in Seq(Pieces)
    BY DEF PtyInit
  <2>4. forwarder \in [Sessions -> {"none", "run", "sending", "sent", "gone"}]
    BY DEF PtyInit
  <2>5. start = 0 /\ end = 0 /\ delivered = 0 /\ session = 0 /\ sink = 0 /\ 0 \in 0..MaxSessions
    BY PtyAssumption DEF PtyInit, PtyAssumption
  <2>6. doneCh \in BOOLEAN /\ wsReader \in BOOLEAN
    BY DEF PtyInit
  <2>7. main = "idle" /\ done = "no" /\ writer = "gone" /\ watcher = "gone"
    BY DEF PtyInit
  <2> QED
    BY <2>1, <2>2, <2>3, <2>4, <2>5, <2>6, <2>7 DEF PtyType
<1>2. OneSession
  BY PtyAssumption DEF PtyInit, PtyAssumption, OneSession, Sessions, NoClient
<1>3. RingFollows /\ ChannelInOrder /\ ForwarderInOrder /\ ExitComesLast /\ ExitAtEnd /\ ~torn
  BY DEF PtyInit, RingFollows, ChannelInOrder, ForwarderInOrder, ExitComesLast,
       ExitAtEnd, NoClient
<1>4. ExitOnce
  BY DEF PtyInit, ExitOnce, NoClient
<1> QED
  BY <1>1, <1>2, <1>3, <1>4 DEF PtyInv

(* and every step of a session keeps it.                                   *)
LEMMA PtyStep == PtyInv /\ [PtyNext]_ptyVars => PtyInv'
<1> SUFFICES ASSUME PtyInv, [PtyNext]_ptyVars PROVE PtyInv'
  OBVIOUS
<1>1. ASSUME NEW n \in {1, Window + 1}, Write(n) PROVE PtyInv'
  BY <1>1, PtyWrite
<1>2. CASE ProcessExits
  BY <1>2, PtyProcessExits
<1>3. CASE Attach
  BY <1>3, PtyAttaches
<1>4. CASE ClientCloses
  BY <1>4, PtyClientCloses
<1>5. ASSUME NEW s \in Sessions, ForwardStep(s) PROVE PtyInv'
  BY <1>5, PtyForwardCopies, PtyForwardSends, PtyForwardAdvances DEF ForwardStep
<1>6. CASE WriterStep
  BY <1>6, PtyWriterWrites, PtyWriterEnds DEF WriterStep
<1>7. CASE ReaderEnds
  BY <1>7, PtyReaderEnds
<1>8. CASE WatcherStep
  BY <1>8, PtyWatcherStep
<1>9. CASE MainStep
  BY <1>9, PtyMainStep
<1>10. CASE UNCHANGED ptyVars
  <2>1. /\ PtyType' = PtyType /\ RingFollows' = RingFollows /\ OneSession' = OneSession
        /\ ExitOnce' = ExitOnce /\ ExitComesLast' = ExitComesLast /\ torn' = torn
    BY <1>10 DEF ptyVars, ringVars, sessionVars, PtyType, RingFollows, OneSession,
         ExitOnce,
                 ExitComesLast, AllSent
  <2>2. ChannelInOrder' = ChannelInOrder /\ ForwarderInOrder' = ForwarderInOrder /\ ExitAtEnd' = ExitAtEnd
    BY <1>10 DEF ptyVars, ringVars, sessionVars, ChannelInOrder, ForwarderInOrder,
         ExitAtEnd, Follows,
                 Sent, Before
  <2> QED
    BY <2>1, <2>2 DEF PtyInv
<1> QED
  BY <1>1, <1>2, <1>3, <1>4, <1>5, <1>6, <1>7, <1>8, <1>9, <1>10 DEF PtyNext

(* So it holds throughout, whatever the clients do.                        *)
LEMMA PtyInvariance == PtySpec => []PtyInv
  BY PtyAtFirst, PtyStep, PTL DEF PtySpec

(* An attached client is sent the ring and what follows it in order, with  *)
(* no gap but what the ring has overwritten, whoever was attached before,  *)
(* and the exit after all of it: for any window, capacity, output and      *)
(* number of sessions (ptyOutput.forward, flush, detach).                  *)
THEOREM AttachedIsServedInOrder == PtySpec => []OutputThenExit
<1>1. PtyInv => OutputThenExit
  BY DEF PtyInv, OutputThenExit, ExitComesLast
<1> QED
  BY <1>1, PtyInvariance, PTL

=============================================================================

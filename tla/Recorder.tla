------------------------------- MODULE Recorder -------------------------------
(***************************************************************************)
(* FFmpegRecorder (lib/recorder), the manager that registers it and the    *)
(* recording handlers of the API, composed with DebouncedController: a     *)
(* recording holds scale-to-zero off, through an Oncer, and so does every  *)
(* HTTP request that is being served.                                      *)
(*                                                                         *)
(* All recorders of the model have the same id, so that at most one is     *)
(* registered, and the same output file.  A recorder's zero exitCode reads *)
(* as "the process has exited", as it does in the code.                    *)
(***************************************************************************)
EXTENDS DebouncedController, FiniteSets

CONSTANTS
    Recorders,      \* the recorder objects that may be created
    Clients,        \* concurrent stop, download and delete requests
    NoOne,          \* no recorder, no client
    Setups          \* the situations to start from: the recorders that are
                    \* started, whether clients are patient (name a recorder
                    \* only once its start is answered), and the output file

ASSUME RecorderAssumption ==
    /\ NoOne \notin Recorders /\ NoOne \notin Clients
    /\ Recorders \cap Clients = {}
    /\ Setups \subseteq [recorders : SUBSET Recorders, patient : BOOLEAN,
                       file : {"none", "stale"}]

VARIABLES
    setup,          \* one of Setups
    registered,     \* FFmpegManager.recorders
    startPc,        \* where StartRecording is with each recorder
    cmd,            \* fr.cmd: nil, set, or with a Process
    exitCode,       \* fr.exitCode: its zero value, exitCodeInitValue, or done
    exited,         \* fr.exited is closed
    deleted,        \* fr.deleted
    disableOnce,    \* the Oncer has called Disable
    enableOnce,     \* the Oncer has called Enable
    finalized,      \* fr.finalizeComplete
    flight,         \* the "finalize" flight: idle, guarded, or remux
    stopLeader,     \* the client that runs the "stop" flight
    proc,           \* the ffmpeg process: none, running, killed or dead
    remuxed,        \* history: a finalization of the dead process has ended
    file,           \* the output file: none, stale, raw or final
    pc,             \* where each client, and each waitForCommand, is
    target,         \* the recorder a client got from GetRecorder
    op              \* what the client asked for

recVars == <<registered, startPc, cmd, exitCode, exited, deleted, disableOnce,
             enableOnce, finalized, flight, stopLeader, proc, remuxed, file>>
vars == <<ctrlVars, recVars, pc, target, op>>

Callers == Clients \cup Recorders
Ops == {"stop", "force", "download", "delete"}

TypeOK ==
    /\ CtrlTypeOK
    /\ setup \in Setups
    /\ registered \in Recorders \cup {NoOne}
    /\ startPc \in [Recorders -> {"new", "registered", "spawning", "unspawned",
                                  "starting", "failed", "done"}]
    /\ cmd \in [Recorders -> {"nil", "set", "process"}]
    /\ exitCode \in [Recorders -> {"zero", "init", "done"}]
    /\ exited \in [Recorders -> BOOLEAN]
    /\ deleted \in [Recorders -> BOOLEAN]
    /\ disableOnce \in [Recorders -> BOOLEAN]
    /\ enableOnce \in [Recorders -> BOOLEAN]
    /\ finalized \in [Recorders -> BOOLEAN]
    /\ flight \in [Recorders -> {"idle", "guarded", "remux"}]
    /\ stopLeader \in [Recorders -> Clients \cup {NoOne}]
    /\ \A r \in Recorders : stopLeader[r] # NoOne => target[stopLeader[r]] = r
    /\ proc \in [Recorders -> {"none", "running", "killed", "dead"}]
    /\ remuxed \in [Recorders -> BOOLEAN]
    /\ file \in {"none", "stale", "raw", "final"}
    /\ pc \in [Callers -> {"idle", "called", "interrupted", "terminated",
                           "killing", "joined", "deleting", "opening",
                           "waiting", "finalize", "inflight", "finished",
                           "respond", "gone"}]
    /\ target \in [Callers -> Recorders \cup {NoOne}]
    /\ op \in [Clients -> Ops \cup {NoOne}]

Init ==
    /\ CtrlInit
    /\ setup \in Setups
    /\ registered = NoOne
    /\ startPc = [r \in Recorders |-> "new"]
    /\ cmd = [r \in Recorders |-> "nil"]
    /\ exitCode = [r \in Recorders |-> "zero"]
    /\ exited = [r \in Recorders |-> FALSE]
    /\ deleted = [r \in Recorders |-> FALSE]
    /\ disableOnce = [r \in Recorders |-> FALSE]
    /\ enableOnce = [r \in Recorders |-> FALSE]
    /\ finalized = [r \in Recorders |-> FALSE]
    /\ flight = [r \in Recorders |-> "idle"]
    /\ stopLeader = [r \in Recorders |-> NoOne]
    /\ proc = [r \in Recorders |-> "none"]
    /\ remuxed = [r \in Recorders |-> FALSE]
    /\ file = setup.file
    /\ pc = [c \in Callers |-> "idle"]
    /\ target = [c \in Callers |-> IF c \in Recorders THEN c ELSE NoOne]
    /\ op = [c \in Clients |-> NoOne]

-----------------------------------------------------------------------------
(* The middleware's hold of a request, taken when it is dispatched and     *)
(* released when it is answered.  A request whose Disable fails is aborted.*)
TakeRequestHold == Disable(TRUE)
DropRequestHold == \E ok \in BOOLEAN : Enable(ok)

(* Oncer.Enable of r: the first call reaches the controller, whether or    *)
(* not Disable was ever called.                                            *)
OncerEnable(r) ==
    /\ enableOnce' = [enableOnce EXCEPT ![r] = TRUE]
    /\ IF enableOnce[r] THEN UNCHANGED ctrlVars
                        ELSE \E ok \in BOOLEAN : Enable(ok)

(* exitCode < exitCodeProcessDoneMinValue.                                 *)
NotExited(r) == exitCode[r] = "init"

IsRecording(r) == cmd[r] # "nil" /\ NotExited(r)

ProcessAlive(r) == proc[r] \in {"running", "killed"}

-----------------------------------------------------------------------------
(* StartRecording: create and register.                                    *)
RegisterRecorder(r) ==
    /\ startPc[r] = "new"
    /\ registered = NoOne
    /\ TakeRequestHold
    /\ registered' = r
    /\ startPc' = [startPc EXCEPT ![r] = "registered"]
    /\ UNCHANGED <<cmd, exitCode, exited, deleted, disableOnce, enableOnce,
                   finalized, flight, stopLeader, proc, remuxed, file,
                   pc, target, op>>

(* Mutants of StartLocked: it takes no hold; it does not reset exitCode.    *)
StartWithoutHold(r) ==
    /\ startPc[r] = "registered"
    /\ startPc' = [startPc EXCEPT ![r] = "spawning"]
    /\ exitCode' = [exitCode EXCEPT ![r] = "init"]
    /\ cmd' = [cmd EXCEPT ![r] = "set"]
    /\ file' = "none"
    /\ UNCHANGED <<ctrlVars, disableOnce, registered, exited, deleted,
                   enableOnce, finalized, flight, stopLeader, proc, remuxed,
                   pc, target, op>>

(* Start, the part under fr.mu: the hold, the fields, the stale output.    *)
StartLocked(r) ==
    /\ startPc[r] = "registered"
    /\ disableOnce' = [disableOnce EXCEPT ![r] = TRUE]
    /\ \E ok \in BOOLEAN :
        /\ Disable(ok)
        /\ IF ok
             THEN /\ startPc' = [startPc EXCEPT ![r] = "spawning"]
                  /\ exitCode' = [exitCode EXCEPT ![r] = "init"]
                  /\ cmd' = [cmd EXCEPT ![r] = "set"]
                  /\ file' = "none"
             ELSE /\ startPc' = [startPc EXCEPT ![r] = "failed"]
                  /\ UNCHANGED <<exitCode, cmd, file>>
    /\ UNCHANGED <<registered, exited, deleted, enableOnce, finalized, flight,
                   stopLeader, proc, remuxed, pc, target, op>>

(* cmd.Start succeeds: ffmpeg runs and waitForCommand waits for it.        *)
Spawn(r) ==
    /\ startPc[r] = "spawning"
    /\ startPc' = [startPc EXCEPT ![r] = "starting"]
    /\ cmd' = [cmd EXCEPT ![r] = "process"]
    /\ proc' = [proc EXCEPT ![r] = "running"]
    /\ pc' = [pc EXCEPT ![r] = "waiting"]
    /\ UNCHANGED <<ctrlVars, registered, exitCode, exited, deleted,
                   disableOnce, enableOnce, finalized, flight, stopLeader,
                   remuxed, file, target, op>>

(* cmd.Start fails: the hold goes back first, the fields follow.           *)
SpawnFails(r) ==
    /\ startPc[r] = "spawning"
    /\ OncerEnable(r)
    /\ startPc' = [startPc EXCEPT ![r] = "unspawned"]
    /\ UNCHANGED <<registered, cmd, exitCode, exited, deleted, disableOnce,
                   finalized, flight, stopLeader, proc, remuxed, file,
                   pc, target, op>>

SpawnFailed(r) ==
    /\ startPc[r] = "unspawned"
    /\ startPc' = [startPc EXCEPT ![r] = "failed"]
    /\ cmd' = [cmd EXCEPT ![r] = "nil"]
    /\ exited' = [exited EXCEPT ![r] = TRUE]
    /\ UNCHANGED <<ctrlVars, registered, exitCode, deleted, disableOnce,
                   enableOnce, finalized, flight, stopLeader, proc, remuxed,
                   file, pc, target, op>>

(* Start returns and the request is answered: after 250 ms, or with an     *)
(* error when the process exits first.  A failed start deregisters.        *)
StartReturns(r) ==
    /\ \/ startPc[r] = "failed" /\ registered' = NoOne
       \/ startPc[r] = "starting" /\ exited[r] /\ registered' = NoOne
       \/ startPc[r] = "starting" /\ UNCHANGED registered
    /\ startPc' = [startPc EXCEPT ![r] = "done"]
    /\ DropRequestHold
    /\ UNCHANGED <<cmd, exitCode, exited, deleted, disableOnce, enableOnce,
                   finalized, flight, stopLeader, proc, remuxed, file,
                   pc, target, op>>

-----------------------------------------------------------------------------
(* ffmpeg writes its first bytes, and exits by itself or by a signal.  One *)
(* whose output was removed may create it again here, which allows more    *)
(* than an ffmpeg that opens its output once.                              *)
FFmpegWrites(r) ==
    /\ ProcessAlive(r)
    /\ file = "none"
    /\ file' = "raw"
    /\ UNCHANGED <<ctrlVars, registered, startPc, cmd, exitCode, exited,
                   deleted, disableOnce, enableOnce, finalized, flight,
                   stopLeader, proc, remuxed, pc, target, op>>

FFmpegExits(r) ==
    /\ ProcessAlive(r)
    /\ proc' = [proc EXCEPT ![r] = "dead"]
    /\ UNCHANGED <<ctrlVars, registered, startPc, cmd, exitCode, exited,
                   deleted, disableOnce, enableOnce, finalized, flight,
                   stopLeader, remuxed, file, pc, target, op>>

(* waitForCommand reaps the process, then finalizes, then releases.        *)
ReapProcess(r) ==
    /\ pc[r] = "waiting"
    /\ proc[r] = "dead"
    /\ exitCode' = [exitCode EXCEPT ![r] = "done"]
    /\ exited' = [exited EXCEPT ![r] = TRUE]
    /\ pc' = [pc EXCEPT ![r] = "finalize"]
    /\ UNCHANGED <<ctrlVars, registered, startPc, cmd, deleted, disableOnce,
                   enableOnce, finalized, flight, stopLeader, proc, remuxed,
                   file, target, op>>

(* Mutant of WaiterReturns: the hold is left to Stop.                      *)
WaiterKeepsHold(r) ==
    /\ pc[r] = "finished"
    /\ pc' = [pc EXCEPT ![r] = "gone"]
    /\ UNCHANGED <<ctrlVars, recVars, target, op>>

WaiterReturns(r) ==
    /\ pc[r] = "finished"
    /\ OncerEnable(r)
    /\ pc' = [pc EXCEPT ![r] = "gone"]
    /\ UNCHANGED <<registered, startPc, cmd, exitCode, exited, deleted,
                   disableOnce, finalized, flight, stopLeader, proc, remuxed,
                   file, target, op>>

-----------------------------------------------------------------------------
(* finalizeRecording: a caller joins the flight, or leads it.  The leader  *)
(* looks at the fields under fr.mu; a complete or a refused finalization   *)
(* ends there.                                                             *)
Finalize(c) ==
    LET r == target[c]
    IN  /\ pc[c] = "finalize"
        /\ \/ /\ flight[r] # "idle"
              /\ pc' = [pc EXCEPT ![c] = "inflight"]
              /\ UNCHANGED flight
           \/ /\ flight[r] = "idle"
              /\ finalized[r] \/ NotExited(r)
              /\ pc' = [pc EXCEPT ![c] = "finished"]
              /\ UNCHANGED flight
           \/ /\ flight[r] = "idle"
              /\ ~finalized[r] /\ ~NotExited(r)
              /\ flight' = [flight EXCEPT ![r] = "guarded"]
              /\ pc' = [pc EXCEPT ![c] = "inflight"]
        /\ UNCHANGED <<ctrlVars, registered, startPc, cmd, exitCode, exited,
                       deleted, disableOnce, enableOnce, finalized,
                       stopLeader, proc, remuxed, file, target, op>>

(* The flight lands: the result is cached and every caller gets it.        *)
Land(r) ==
    /\ flight' = [flight EXCEPT ![r] = "idle"]
    /\ remuxed' = [remuxed EXCEPT ![r] = proc[r] = "dead"]
    /\ finalized' = [finalized EXCEPT ![r] = TRUE]
    /\ pc' = [c \in Callers |-> IF pc[c] = "inflight" /\ target[c] = r
                                  THEN "finished" ELSE pc[c]]

(* The leader stats the output: no file is an error that is cached.        *)
StatOutput(r) ==
    /\ flight[r] = "guarded"
    /\ IF file = "none"
         THEN Land(r)
         ELSE /\ flight' = [flight EXCEPT ![r] = "remux"]
              /\ UNCHANGED <<finalized, pc, remuxed>>
    /\ UNCHANGED <<ctrlVars, registered, startPc, cmd, exitCode, exited,
                   deleted, disableOnce, enableOnce, stopLeader, proc, file,
                   target, op>>

(* The remux ends; when it worked its output replaces the recording.       *)
RemuxEnds(r) ==
    /\ flight[r] = "remux"
    /\ file' \in {file, "final"}
    /\ Land(r)
    /\ UNCHANGED <<ctrlVars, registered, startPc, cmd, exitCode, exited,
                   deleted, disableOnce, enableOnce, stopLeader, proc,
                   target, op>>

-----------------------------------------------------------------------------
(* A stop, download or delete request arrives and finds the recorder.      *)
Request(c) ==
    /\ pc[c] = "idle"
    /\ registered # NoOne
    /\ setup.patient => startPc[registered] = "done"
    /\ TakeRequestHold
    /\ target' = [target EXCEPT ![c] = registered]
    /\ op' \in {[op EXCEPT ![c] = o] : o \in Ops}
    /\ pc' = [pc EXCEPT ![c] = "called"]
    /\ UNCHANGED recVars

(* Stop and ForceStop: what shutdownInPhases sees under fr.mu.             *)
Snapshot(c, next) ==
    LET r == target[c]
    IN  \/ /\ ~NotExited(r)                        \* has already exited
           /\ pc' = [pc EXCEPT ![c] = "finalize"]
           /\ UNCHANGED <<proc, stopLeader>>
        \/ /\ NotExited(r) /\ cmd[r] # "process"   \* no recording to stop
           /\ pc' = [pc EXCEPT ![c] = "finished"]
           /\ UNCHANGED <<proc, stopLeader>>
        \/ /\ NotExited(r) /\ cmd[r] = "process"   \* signal the group
           /\ pc' = [pc EXCEPT ![c] = next]
           /\ stopLeader' = IF op[c] = "stop" THEN [stopLeader EXCEPT ![r] = c]
                                              ELSE stopLeader
           /\ proc' = IF next = "killing" /\ ProcessAlive(r)
                        THEN [proc EXCEPT ![r] = "killed"] ELSE proc

(* Stop goes through the "stop" flight, ForceStop does not.                *)
Stop(c) ==
    /\ pc[c] = "called"
    /\ op[c] \in {"stop", "force"}
    /\ \/ /\ op[c] = "stop" /\ stopLeader[target[c]] # NoOne
          /\ pc' = [pc EXCEPT ![c] = "joined"]
          /\ UNCHANGED <<proc, stopLeader>>
       \/ /\ op[c] = "stop" /\ stopLeader[target[c]] = NoOne
          /\ Snapshot(c, "interrupted")
       \/ /\ op[c] = "force"
          /\ Snapshot(c, "killing")
    /\ UNCHANGED <<ctrlVars, registered, startPc, cmd, exitCode, exited,
                   deleted, disableOnce, enableOnce, finalized, flight,
                   remuxed, file, target, op>>

Signalling(c) == pc[c] \in {"interrupted", "terminated", "killing"}

(* The shutdown is over: the leader and those who joined go on together.   *)
EndShutdown(c, next) ==
    /\ pc' = [d \in Callers |->
                IF d = c \/ (stopLeader[target[c]] = c /\ pc[d] = "joined"
                             /\ target[d] = target[c])
                  THEN next ELSE pc[d]]
    /\ stopLeader' = [r \in Recorders |->
                        IF stopLeader[r] = c THEN NoOne ELSE stopLeader[r]]

ShutdownSucceeds(c) ==
    /\ Signalling(c)
    /\ exited[target[c]]
    /\ EndShutdown(c, "finalize")
    /\ UNCHANGED <<ctrlVars, registered, startPc, cmd, exitCode, exited,
                   deleted, disableOnce, enableOnce, finalized, flight, proc,
                   remuxed, file, target, op>>

(* A phase times out: SIGINT, then SIGTERM, then SIGKILL, then give up.    *)
(* A forced stop gives up as well when its request is cancelled.           *)
PhaseTimeout(c) ==
    LET r == target[c]
    IN  /\ Signalling(c)
        /\ \/ /\ pc[c] = "interrupted"
              /\ pc' = [pc EXCEPT ![c] = "terminated"]
              /\ UNCHANGED <<proc, stopLeader>>
           \/ /\ pc[c] = "terminated"
              /\ pc' = [pc EXCEPT ![c] = "killing"]
              /\ proc' = IF ProcessAlive(r) THEN [proc EXCEPT ![r] = "killed"]
                                            ELSE proc
              /\ UNCHANGED stopLeader
           \/ /\ pc[c] = "killing"
              /\ EndShutdown(c, "finished")
              /\ UNCHANGED proc
        /\ UNCHANGED <<ctrlVars, registered, startPc, cmd, exitCode, exited,
                       deleted, disableOnce, enableOnce, finalized, flight,
                       remuxed, file, target, op>>

(* The deferred Enable of Stop and ForceStop.                              *)
StopReturns(c) ==
    /\ pc[c] = "finished"
    /\ op[c] \in {"stop", "force"}
    /\ OncerEnable(target[c])
    /\ pc' = [pc EXCEPT ![c] = "respond"]
    /\ UNCHANGED <<registered, startPc, cmd, exitCode, exited, deleted,
                   disableOnce, finalized, flight, stopLeader, proc, remuxed,
                   file, target, op>>

(* Mutant of FinalizationPending: only while a flight is in the air.       *)
PendingInFlight(r) == flight[r] # "idle"

(* Recording: refused while the finalization is pending, when the handler  *)
(* waits for it and asks again.                                            *)
FinalizationPending(r) == ~NotExited(r) /\ ~finalized[r]

Download(c) ==
    LET r == target[c]
    IN  /\ op[c] = "download"
        /\ \/ /\ pc[c] \in {"called", "finished"} /\ deleted[r]
              /\ pc' = [pc EXCEPT ![c] = "respond"]
           \/ /\ pc[c] \in {"called", "finished"} /\ ~deleted[r]
              /\ ~FinalizationPending(r)
              /\ pc' = [pc EXCEPT ![c] = "opening"]
           \/ /\ pc[c] = "called" /\ ~deleted[r]
              /\ FinalizationPending(r)
              /\ pc' = [pc EXCEPT ![c] = "finalize"]
           \/ /\ pc[c] = "finished"     \* it failed, or is pending again
              /\ pc' = [pc EXCEPT ![c] = "respond"]
        /\ UNCHANGED <<ctrlVars, recVars, target, op>>

ServeFile(c) ==
    /\ pc[c] = "opening"
    /\ pc' = [pc EXCEPT ![c] = "respond"]
    /\ UNCHANGED <<ctrlVars, recVars, target, op>>

(* DeleteRecording: the handler looks first, Delete looks again.           *)
CheckDelete(c) ==
    /\ pc[c] = "called" /\ op[c] = "delete"
    /\ pc' = [pc EXCEPT ![c] = IF IsRecording(target[c]) THEN "respond"
                                                         ELSE "deleting"]
    /\ UNCHANGED <<ctrlVars, recVars, target, op>>

Delete(c) ==
    LET r == target[c]
    IN  /\ pc[c] = "deleting"
        /\ pc' = [pc EXCEPT ![c] = "respond"]
        /\ IF deleted[r] \/ FinalizationPending(r)
             THEN UNCHANGED <<deleted, file>>
             ELSE \/ /\ deleted' = [deleted EXCEPT ![r] = TRUE]
                     /\ file' = "none"
                  \/ UNCHANGED <<deleted, file>>   \* os.Remove fails
        /\ UNCHANGED <<ctrlVars, registered, startPc, cmd, exitCode, exited,
                       disableOnce, enableOnce, finalized, flight, stopLeader,
                       proc, remuxed, target, op>>

Respond(c) ==
    /\ pc[c] = "respond"
    /\ DropRequestHold
    /\ pc' = [pc EXCEPT ![c] = "idle"]
    /\ target' = [target EXCEPT ![c] = NoOne]
    /\ op' = [op EXCEPT ![c] = NoOne]
    /\ UNCHANGED recVars

-----------------------------------------------------------------------------
StartStep(r) ==
    \/ StartLocked(r) \/ Spawn(r) \/ SpawnFails(r) \/ SpawnFailed(r)
    \/ StartReturns(r)

(* The goroutines of a recorder whose process has exited.                  *)
RecorderStep(r) ==
    \/ ReapProcess(r) \/ WaiterReturns(r) \/ Finalize(r)
    \/ StatOutput(r) \/ RemuxEnds(r)

ClientStep(c) ==
    \/ Stop(c) \/ ShutdownSucceeds(c) \/ PhaseTimeout(c) \/ StopReturns(c)
    \/ Finalize(c) \/ Download(c) \/ ServeFile(c) \/ CheckDelete(c)
    \/ Delete(c) \/ Respond(c)

(* Every recorder has been used and nobody has anything left to do.        *)
Finished ==
    /\ \A c \in Clients : pc[c] = "idle"
    /\ \A r \in Recorders : ~ProcessAlive(r)
    /\ UNCHANGED vars

Next ==
  /\ UNCHANGED setup
  /\ \/ \E r \in setup.recorders :
         \/ RegisterRecorder(r) \/ StartStep(r) \/ RecorderStep(r)
         \/ FFmpegWrites(r) \/ FFmpegExits(r)
     \/ \E c \in Clients : Request(c) \/ ClientStep(c)
     \/ Finished

(* Handlers and goroutines run; a killed process dies.  A recording that   *)
(* nobody stops may go on for ever.                                        *)
Fairness ==
    /\ \A r \in Recorders :
         /\ WF_vars(StartStep(r))
         /\ WF_vars(RecorderStep(r))
         /\ WF_vars(proc[r] = "killed" /\ FFmpegExits(r))
    /\ \A c \in Clients : WF_vars(ClientStep(c))

Spec == Init /\ [][Next]_<<vars, setup>> /\ Fairness

-----------------------------------------------------------------------------
(* While ffmpeg records, and nobody has killed it, scale-to-zero stays     *)
(* off: "re-enables scale-to-zero if no holders remain"                    *)
(* (scaletozero.go:216), and a recording is one.  A client that names the  *)
(* recorder before its start is answered breaks this.                      *)
RecordingKeepsAwake ==
    \A r \in Recorders : proc[r] = "running" => control = "+"

PatientRecordingKeepsAwake == setup.patient => RecordingKeepsAwake

(* The finalization of the dead process has ended, and none is at work.    *)
Settled(r) == remuxed[r] /\ flight[r] = "idle"

(* A recording that is complete is handed out, and deleted, only when its  *)
(* finalization has ended: not in the window before it starts and not      *)
(* while it remuxes ("finalization is pending or in progress",             *)
(* ffmpeg.go:632 and 672), whoever leads the flight and whoever joins it.  *)
ServedAfterFinalization ==
    [][setup.patient =>
        /\ \A c \in Clients :
             (pc[c] # "opening" /\ pc'[c] = "opening" /\ exitCode[target[c]] = "done")
             => Settled(target[c])
        /\ \A r \in Recorders : (~deleted[r] /\ deleted'[r]) => Settled(r)]_vars

(* A killed or finished recording gives its hold back and is finalized     *)
(* (waitForCommand), even when no client stops it.                         *)
ExitReleasesHold ==
    \A r \in Recorders : proc[r] = "dead" ~> (enableOnce[r] /\ finalized[r])

=============================================================================

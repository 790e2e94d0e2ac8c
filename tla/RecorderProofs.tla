----------------------------- MODULE RecorderProofs -----------------------------
(***************************************************************************)
(* A recording that its clients know to be started keeps the machine awake,*)
(* and is served, or deleted, only when its finalization has ended: for any*)
(* recorders, clients and timers.                                          *)
(***************************************************************************)
EXTENDS Recorder, DebouncedControllerProofs

-----------------------------------------------------------------------------
(* The holds that there ought to be: a request's until it is answered, and *)
(* a recording's from Start until the first Enable of its Oncer.           *)
AtStart == {"registered", "spawning", "unspawned", "starting", "failed"}

Asks(c) == IF c \in Clients THEN pc[c] # "idle" ELSE startPc[c] \in AtStart
Records(r) == r \in Recorders /\ exitCode[r] # "zero" /\ ~enableOnce[r]

Holds == {<<"request", c>> : c \in {b \in Callers : Asks(b)}}
            \cup {<<"recording", r>> : r \in {s \in Callers : Records(s)}}

HoldsCounted == IsFiniteSet(Holds) /\ activeCount = Cardinality(Holds)

(* The leader of a stop flight is signalling the process.                  *)
LeaderSignals ==
    \A r \in Recorders : stopLeader[r] # NoOne => Signalling(stopLeader[r])

(* How far a recorder is, from StartRecording to waitForCommand's Enable.  *)
StartedAs(r) ==
    /\ registered = r => startPc[r] # "new"
    /\ registered = r /\ startPc[r] = "done" => cmd[r] = "process"
    /\ startPc[r] \in AtStart => registered = r
    /\ startPc[r] \in {"new", "registered"} => exitCode[r] = "zero" /\ ~enableOnce[r]
    /\ startPc[r] = "spawning" => exitCode[r] = "init" /\ ~enableOnce[r]
    /\ startPc[r] \in {"new", "registered", "spawning"} => ~exited[r]
    /\ startPc[r] = "unspawned" => exitCode[r] = "init"
    /\ startPc[r] = "starting" => cmd[r] = "process"
    /\ cmd[r] = "process" => startPc[r] \in {"starting", "done"} /\ exitCode[r] # "zero"

RunsAs(r) ==
    /\ target[r] = r
    /\ pc[r] \in {"idle", "waiting", "finalize", "inflight", "finished", "gone"}
    /\ pc[r] \in {"finalize", "inflight", "finished"} => exitCode[r] = "done"
    /\ (proc[r] # "none" \/ pc[r] # "idle") => cmd[r] = "process"
    /\ exitCode[r] = "done" => proc[r] = "dead"
    /\ exited[r] /\ cmd[r] = "process" => proc[r] = "dead"
    /\ enableOnce[r] => exitCode[r] # "zero" /\ proc[r] # "running"

FinalizedAs(r) ==
    /\ flight[r] # "idle" => exitCode[r] = "done" /\ ~finalized[r]
    /\ finalized[r] => remuxed[r]

(* A patient client's recorder has a process, which it knows to be dead or *)
(* killed when its stop goes on to the Enable, and to be dead when its     *)
(* deletion has looked.                                                    *)
Releasing(c) ==
    \/ pc[c] = "killing"
    \/ pc[c] \in {"finalize", "inflight", "finished"} /\ op[c] \in {"stop", "force"}

ClientInv(c) ==
    pc[c] # "idle" =>
        /\ target[c] \in Recorders /\ cmd[target[c]] = "process"
        /\ Releasing(c) => proc[target[c]] # "running"
        /\ pc[c] = "deleting" => exitCode[target[c]] = "done"

RecorderInv ==
    /\ TypeOK /\ CtrlInv /\ LeaderSignals
    /\ setup.patient =>
        /\ HoldsCounted
        /\ \A r \in Recorders : StartedAs(r) /\ RunsAs(r) /\ FinalizedAs(r)
        /\ \A c \in Clients : ClientInv(c)

RecorderTypes == TypeOK /\ CtrlInv /\ LeaderSignals

-----------------------------------------------------------------------------
(* Types.  Whoever calls the controller, and whether or not the platform   *)
(* lets it switch, leaves it consistent.                                   *)
LEMMA CallsKeepCtrl ==
    ASSUME CtrlTypeOK, CtrlInv, NEW r,
           TakeRequestHold \/ DropRequestHold \/ OncerEnable(r) \/ UNCHANGED ctrlVars
    PROVE  CtrlTypeOK' /\ CtrlInv'
<1>1. CASE TakeRequestHold
  BY <1>1, DisableStep DEF TakeRequestHold
<1>2. CASE DropRequestHold
  BY <1>2, EnableStep DEF DropRequestHold
<1>3. CASE UNCHANGED ctrlVars
  BY <1>3 DEF CtrlTypeOK, CtrlInv, ctrlVars
<1>4. CASE OncerEnable(r)
  BY <1>3, <1>4, EnableStep DEF OncerEnable
<1> QED
  BY <1>1, <1>2, <1>3, <1>4

(* StartRecording, up to its answer.                                       *)
LEMMA StartTyped ==
    ASSUME RecorderTypes, setup' = setup, NEW r \in Recorders,
           RegisterRecorder(r) \/ StartStep(r)
    PROVE  RecorderTypes'
<1> USE DEF RecorderTypes, TypeOK, LeaderSignals, Signalling
<1>1. CASE RegisterRecorder(r)
  <2>1. CtrlTypeOK' /\ CtrlInv'
    BY <1>1, CallsKeepCtrl DEF RegisterRecorder
  <2> QED
    BY <1>1, <2>1 DEF RegisterRecorder
<1>2. CASE StartLocked(r)
  <2>1. CtrlTypeOK' /\ CtrlInv'
    BY <1>2, DisableStep DEF StartLocked
  <2> QED
    BY <1>2, <2>1 DEF StartLocked
<1>3. CASE Spawn(r)
  <2>1. CtrlTypeOK' /\ CtrlInv'
    BY <1>3, CallsKeepCtrl DEF Spawn
  <2>2. stopLeader[r] # r
    BY RecorderAssumption
  <2> QED
    BY <1>3, <2>1, RecorderAssumption DEF Spawn, Callers
<1>4. CASE SpawnFails(r)
  <2>1. CtrlTypeOK' /\ CtrlInv'
    BY <1>4, CallsKeepCtrl DEF SpawnFails
  <2> QED
    BY <1>4, <2>1 DEF SpawnFails, OncerEnable
<1>5. CASE SpawnFailed(r)
  <2>1. CtrlTypeOK' /\ CtrlInv'
    BY <1>5, CallsKeepCtrl DEF SpawnFailed
  <2> QED
    BY <1>5, <2>1 DEF SpawnFailed
<1>6. CASE StartReturns(r)
  <2>1. CtrlTypeOK' /\ CtrlInv'
    BY <1>6, CallsKeepCtrl DEF StartReturns
  <2> QED
    BY <1>6, <2>1 DEF StartReturns
<1> QED
  BY <1>1, <1>2, <1>3, <1>4, <1>5, <1>6 DEF StartStep

(* A flight that lands moves those who are in it, and nobody else.         *)
Stages == {"idle", "called", "interrupted", "terminated", "killing", "joined", "deleting",
           "opening", "waiting", "finalize", "inflight", "finished", "respond", "gone"}

(* flight.Do returns to all its callers at once.                           *)
LEMMA Landing ==
    ASSUME RecorderTypes, NEW r \in Recorders, Land(r)
    PROVE  /\ flight' \in [Recorders -> {"idle", "guarded", "remux"}]
           /\ finalized' \in [Recorders -> BOOLEAN]
           /\ remuxed' \in [Recorders -> BOOLEAN]
           /\ pc' \in [Callers -> Stages]
           /\ \A d \in Callers :
                pc'[d] = IF pc[d] = "inflight" /\ target[d] = r THEN "finished" ELSE pc[d]
  BY DEF RecorderTypes, TypeOK, Land, Stages

(* Those who finalize are waitForCommand and the clients.                  *)
LEMMA FinalizeTyped ==
    ASSUME RecorderTypes, setup' = setup, NEW c \in Callers, Finalize(c)
    PROVE  RecorderTypes'
<1> USE DEF RecorderTypes, TypeOK, LeaderSignals, Signalling
<1>1. CtrlTypeOK' /\ CtrlInv'
  BY CallsKeepCtrl DEF Finalize
<1>2. /\ pc[c] = "finalize"
      /\ \E p \in {"inflight", "finished"} : pc' = [pc EXCEPT ![c] = p]
      /\ flight' = flight \/ flight' = [flight EXCEPT ![target[c]] = "guarded"]
      /\ UNCHANGED <<ctrlVars, registered, startPc, cmd, exitCode, exited, deleted, disableOnce,
                     enableOnce, finalized, stopLeader, proc, remuxed, file, target, op>>
  BY DEF Finalize
<1> QED
  BY <1>1, <1>2

(* ffmpeg, waitForCommand and the finalize flight.                         *)
LEMMA RecorderTyped ==
    ASSUME RecorderTypes, setup' = setup, NEW r \in Recorders,
           RecorderStep(r) \/ FFmpegWrites(r) \/ FFmpegExits(r)
    PROVE  RecorderTypes'
<1> USE DEF RecorderTypes, TypeOK, LeaderSignals, Signalling
<1>0. r \in Callers /\ \A b \in Recorders : stopLeader[b] # r
  BY RecorderAssumption DEF Callers
<1>1. CASE FFmpegWrites(r) \/ FFmpegExits(r)
  <2>1. CtrlTypeOK' /\ CtrlInv'
    BY <1>1, CallsKeepCtrl DEF FFmpegWrites, FFmpegExits
  <2> QED
    BY <1>1, <2>1 DEF FFmpegWrites, FFmpegExits
<1>2. CASE ReapProcess(r)
  <2>1. CtrlTypeOK' /\ CtrlInv'
    BY <1>2, CallsKeepCtrl DEF ReapProcess
  <2> QED
    BY <1>0, <1>2, <2>1 DEF ReapProcess
<1>3. CASE WaiterReturns(r)
  <2>1. CtrlTypeOK' /\ CtrlInv'
    BY <1>3, CallsKeepCtrl DEF WaiterReturns
  <2> QED
    BY <1>0, <1>3, <2>1 DEF WaiterReturns, OncerEnable
<1>4. CASE Finalize(r)
  BY <1>0, <1>4, FinalizeTyped
<1>5. CASE StatOutput(r)
  <2>1. CtrlTypeOK' /\ CtrlInv'
    BY <1>5, CallsKeepCtrl DEF StatOutput
  <2>2. /\ pc' \in [Callers -> Stages] /\ \A d \in Callers : Signalling(d) => pc'[d] = pc[d]
        /\ flight' \in [Recorders -> {"idle", "guarded", "remux"}]
        /\ finalized' \in [Recorders -> BOOLEAN]
        /\ remuxed' \in [Recorders -> BOOLEAN]
    BY <1>5, Landing DEF StatOutput, Stages
  <2>3. /\ UNCHANGED <<registered, startPc, cmd, exitCode, exited, deleted, disableOnce,
                       enableOnce, stopLeader, proc, file, target, op>>
    BY <1>5 DEF StatOutput
  <2> QED
    BY <2>1, <2>2, <2>3 DEF Stages, Callers
<1>6. CASE RemuxEnds(r)
  <2>1. CtrlTypeOK' /\ CtrlInv'
    BY <1>6, CallsKeepCtrl DEF RemuxEnds
  <2>2. /\ pc' \in [Callers -> Stages] /\ \A d \in Callers : Signalling(d) => pc'[d] = pc[d]
        /\ flight' \in [Recorders -> {"idle", "guarded", "remux"}]
        /\ finalized' \in [Recorders -> BOOLEAN]
        /\ remuxed' \in [Recorders -> BOOLEAN]
    BY <1>6, Landing DEF RemuxEnds
  <2>3. /\ file' \in {"none", "stale", "raw", "final"}
        /\ UNCHANGED <<registered, startPc, cmd, exitCode, exited, deleted, disableOnce,
                       enableOnce, stopLeader, proc, target, op>>
    BY <1>6 DEF RemuxEnds
  <2> QED
    BY <2>1, <2>2, <2>3 DEF Stages, Callers
<1> QED
  BY <1>1, <1>2, <1>3, <1>4, <1>5, <1>6 DEF RecorderStep

(* A shutdown that ends moves its leader and those who joined it.          *)
LEMMA Ending ==
    ASSUME RecorderTypes, NEW c \in Clients, Signalling(c),
           NEW next \in {"finalize", "finished"}, EndShutdown(c, next)
    PROVE  /\ pc' \in [Callers -> Stages]
           /\ stopLeader' \in [Recorders -> Clients \cup {NoOne}]
           /\ \A d \in Callers :
                \/ pc'[d] = pc[d] /\ d # c
                \/ pc'[d] = next /\ (d = c \/ (pc[d] = "joined" /\ target[d] = target[c]))
           /\ \A r \in Recorders : stopLeader'[r] \in {stopLeader[r], NoOne} \ {c}
<1>1. c \in Callers /\ c # NoOne
  BY RecorderAssumption DEF Callers
<1> QED
  BY <1>1 DEF RecorderTypes, TypeOK, EndShutdown, Stages

(* A stop, forced or not: its leader has the recorder it signals.          *)
LEMMA StopTyped ==
    ASSUME RecorderTypes, setup' = setup, NEW c \in Clients,
           Stop(c) \/ ShutdownSucceeds(c) \/ PhaseTimeout(c) \/ StopReturns(c)
    PROVE  RecorderTypes'
<1> USE DEF RecorderTypes, TypeOK, LeaderSignals, Signalling
<1>0. c \in Callers /\ c # NoOne
  BY RecorderAssumption DEF Callers
<1>1. CASE Stop(c)
  <2>1. CtrlTypeOK' /\ CtrlInv'
    BY <1>1, CallsKeepCtrl DEF Stop
  <2>2. CASE pc' = [pc EXCEPT ![c] = "joined"] /\ UNCHANGED <<proc, stopLeader>>
    BY <1>0, <1>1, <2>1, <2>2 DEF Stop
  <2>3. ASSUME NEW next \in {"interrupted", "killing"}, Snapshot(c, next)
        PROVE  RecorderTypes'
    <3>1. /\ \E p \in {"finalize", "finished", next} : pc' = [pc EXCEPT ![c] = p]
          /\ \/ UNCHANGED stopLeader
             \/ /\ stopLeader' = [stopLeader EXCEPT ![target[c]] = c]
                /\ pc' = [pc EXCEPT ![c] = next]
          /\ proc' = proc \/ proc' = [proc EXCEPT ![target[c]] = "killed"]
      BY <2>3 DEF Snapshot
    <3>2. /\ pc[c] = "called"
          /\ UNCHANGED <<registered, startPc, cmd, exitCode, exited, deleted, disableOnce,
                         enableOnce, finalized, flight, remuxed, file, target, op>>
      BY <1>1 DEF Stop
    <3>3. pc' \in [Callers -> Stages] /\ stopLeader' \in [Recorders -> Clients \cup {NoOne}]
      BY <1>0, <3>1 DEF Stages
    <3>4. ASSUME NEW r \in Recorders, stopLeader'[r] # NoOne
          PROVE  target[stopLeader'[r]] = r /\ pc'[stopLeader'[r]] \in {"interrupted", "terminated", "killing"}
      <4>1. CASE stopLeader'[r] = stopLeader[r]
        <5>1. stopLeader[r] # c
          BY <3>2, <3>4, <4>1
        <5> QED
          BY <1>0, <3>1, <3>4, <4>1, <5>1 DEF Callers
      <4>2. CASE stopLeader'[r] # stopLeader[r]
        BY <1>0, <3>1, <3>4, <4>2
      <4> QED
        BY <4>1, <4>2
    <3>5. proc' \in [Recorders -> {"none", "running", "killed", "dead"}]
      BY <3>1
    <3> QED
      BY <2>1, <3>2, <3>3, <3>4, <3>5 DEF Stages
  <2> QED
    BY <1>1, <2>2, <2>3 DEF Stop
<1>2. ASSUME NEW next \in {"finalize", "finished"}, Signalling(c), EndShutdown(c, next),
             UNCHANGED <<ctrlVars, registered, startPc, cmd, exitCode, exited,
                   deleted, disableOnce, enableOnce, finalized, flight, proc,
                   remuxed, file, target, op>>
      PROVE  RecorderTypes'
  <2>1. CtrlTypeOK' /\ CtrlInv'
    BY <1>2, CallsKeepCtrl
  <2>2. /\ pc' \in [Callers -> Stages]
        /\ stopLeader' \in [Recorders -> Clients \cup {NoOne}]
        /\ \A r \in Recorders : stopLeader'[r] # NoOne =>
              stopLeader'[r] = stopLeader[r] /\ pc'[stopLeader[r]] = pc[stopLeader[r]]
    <3>1. \A r \in Recorders : stopLeader[r] \in Callers \cup {NoOne}
      BY DEF Callers
    <3> QED
      BY <1>2, <3>1, Ending
  <2> QED
    BY <1>2, <2>1, <2>2 DEF Stages
<1>3. CASE ShutdownSucceeds(c)
  BY <1>2, <1>3 DEF ShutdownSucceeds
<1>4. CASE PhaseTimeout(c)
  <2>1. CtrlTypeOK' /\ CtrlInv'
    BY <1>4, CallsKeepCtrl DEF PhaseTimeout
  <2>2. CASE pc[c] = "killing"
    BY <1>2, <1>4, <2>2 DEF PhaseTimeout
  <2>3. CASE pc[c] # "killing"
    <3>1. /\ \E p \in {"terminated", "killing"} : pc' = [pc EXCEPT ![c] = p]
          /\ proc' = proc \/ proc' = [proc EXCEPT ![target[c]] = "killed"]
          /\ UNCHANGED <<stopLeader, registered, startPc, cmd, exitCode, exited, deleted,
                         disableOnce, enableOnce, finalized, flight, remuxed, file, target, op>>
      BY <1>4, <2>3 DEF PhaseTimeout
    <3>2. pc' \in [Callers -> Stages]
      BY <1>0, <3>1 DEF Stages
    <3>3. proc' \in [Recorders -> {"none", "running", "killed", "dead"}]
      BY <3>1
    <3>4. \A r \in Recorders : stopLeader[r] # NoOne =>
             pc'[stopLeader[r]] \in {"interrupted", "terminated", "killing"}
      BY <1>0, <3>1 DEF Callers
    <3> QED
      BY <2>1, <3>1, <3>2, <3>3, <3>4 DEF Stages
  <2> QED
    BY <2>2, <2>3
<1>5. CASE StopReturns(c)
  <2>1. CtrlTypeOK' /\ CtrlInv'
    BY <1>5, CallsKeepCtrl DEF StopReturns
  <2>2. /\ pc[c] = "finished" /\ pc' = [pc EXCEPT ![c] = "respond"]
        /\ enableOnce' = [enableOnce EXCEPT ![target[c]] = TRUE]
        /\ UNCHANGED <<registered, startPc, cmd, exitCode, exited, deleted, disableOnce,
                       finalized, flight, stopLeader, proc, remuxed, file, target, op>>
    BY <1>5 DEF StopReturns, OncerEnable
  <2>3. enableOnce' \in [Recorders -> BOOLEAN]
    BY <2>2
  <2>4. \A r \in Recorders : stopLeader[r] # c
    BY <1>0, <2>2
  <2> QED
    BY <1>0, <2>1, <2>2, <2>3, <2>4
<1> QED
  BY <1>1, <1>3, <1>4, <1>5

(* A download, a delete, and the arrival and the answer of any request.    *)
LEMMA RequestTyped ==
    ASSUME RecorderTypes, setup' = setup, NEW c \in Clients,
           \/ Request(c) \/ Respond(c)
           \/ Download(c) \/ ServeFile(c) \/ CheckDelete(c) \/ Delete(c)
    PROVE  RecorderTypes'
<1> USE DEF RecorderTypes, TypeOK, LeaderSignals, Signalling
<1>0. c \in Callers /\ c # NoOne
  BY RecorderAssumption DEF Callers
<1>1. CASE Request(c)
  <2>1. CtrlTypeOK' /\ CtrlInv'
    BY <1>1, CallsKeepCtrl DEF Request
  <2> QED
    BY <1>0, <1>1, <2>1 DEF Request, recVars
<1>2. CASE Respond(c)
  <2>1. CtrlTypeOK' /\ CtrlInv'
    BY <1>2, CallsKeepCtrl DEF Respond
  <2> QED
    BY <1>0, <1>2, <2>1 DEF Respond, recVars
<1>3. CASE Download(c) \/ ServeFile(c) \/ CheckDelete(c)
  <2>1. CtrlTypeOK' /\ CtrlInv'
    BY <1>3, CallsKeepCtrl DEF Download, ServeFile, CheckDelete
  <2>2. /\ pc[c] \in {"called", "finished", "opening"}
        /\ \E p \in {"respond", "opening", "finalize", "deleting"} : pc' = [pc EXCEPT ![c] = p]
        /\ UNCHANGED <<recVars, target, op>>
    BY <1>3 DEF Download, ServeFile, CheckDelete
  <2> QED
    BY <1>0, <2>1, <2>2 DEF recVars
<1>4. CASE Delete(c)
  <2>1. CtrlTypeOK' /\ CtrlInv'
    BY <1>4, CallsKeepCtrl DEF Delete
  <2>2. /\ pc[c] = "deleting" /\ pc' = [pc EXCEPT ![c] = "respond"]
        /\ deleted' = deleted \/ deleted' = [deleted EXCEPT ![target[c]] = TRUE]
        /\ file' \in {file, "none"}
        /\ UNCHANGED <<registered, startPc, cmd, exitCode, exited, disableOnce, enableOnce,
                       finalized, flight, stopLeader, proc, remuxed, target, op>>
    BY <1>4 DEF Delete
  <2>3. /\ deleted' \in [Recorders -> BOOLEAN]
        /\ file' \in {"none", "stale", "raw", "final"}
    BY <2>2
  <2>4. \A r \in Recorders : stopLeader[r] # c
    BY <1>0, <2>2
  <2> QED
    BY <1>0, <2>1, <2>2, <2>3, <2>4
<1> QED
  BY <1>1, <1>2, <1>3, <1>4

-----------------------------------------------------------------------------
(* Patient clients: what everybody knows of a recorder.                    *)
KnownInv ==
    /\ \A r \in Recorders : StartedAs(r) /\ RunsAs(r) /\ FinalizedAs(r)
    /\ \A c \in Clients : ClientInv(c)

(* A recorder registers, and starts ffmpeg or fails to.                    *)
LEMMA StartKnown ==
    ASSUME RecorderTypes, KnownInv, NEW r \in Recorders, RegisterRecorder(r) \/ StartStep(r)
    PROVE  KnownInv'
<1> USE RecorderAssumption DEF RecorderTypes, TypeOK, KnownInv, StartedAs, RunsAs, FinalizedAs,
        ClientInv, Releasing, AtStart
<1>1. CASE RegisterRecorder(r)
  BY <1>1 DEF RegisterRecorder
<1>2. CASE StartLocked(r)
  <2>1. /\ startPc[r] = "registered"
        /\ \/ /\ startPc' = [startPc EXCEPT ![r] = "spawning"]
              /\ exitCode' = [exitCode EXCEPT ![r] = "init"]
              /\ cmd' = [cmd EXCEPT ![r] = "set"]
           \/ /\ startPc' = [startPc EXCEPT ![r] = "failed"]
              /\ UNCHANGED <<exitCode, cmd>>
        /\ UNCHANGED <<registered, exited, deleted, enableOnce, finalized, flight,
                       stopLeader, proc, remuxed, pc, target, op>>
    BY <1>2 DEF StartLocked
  <2> QED
    BY <2>1
<1>3. CASE Spawn(r)
  BY <1>3 DEF Spawn, Callers
<1>4. CASE SpawnFails(r)
  <2>1. /\ enableOnce' = [enableOnce EXCEPT ![r] = TRUE]
        /\ startPc[r] = "spawning" /\ startPc' = [startPc EXCEPT ![r] = "unspawned"]
        /\ UNCHANGED <<registered, cmd, exitCode, exited, deleted, disableOnce,
                   finalized, flight, stopLeader, proc, remuxed, file, pc, target, op>>
    BY <1>4 DEF SpawnFails, OncerEnable
  <2> QED
    BY <2>1
<1>5. CASE SpawnFailed(r)
  BY <1>5 DEF SpawnFailed
<1>6. CASE StartReturns(r)
  <2>1. /\ startPc[r] \in {"failed", "starting"}
        /\ startPc' = [startPc EXCEPT ![r] = "done"]
        /\ registered' = NoOne \/ (startPc[r] = "starting" /\ UNCHANGED registered)
        /\ UNCHANGED <<cmd, exitCode, exited, deleted, disableOnce, enableOnce,
                   finalized, flight, stopLeader, proc, remuxed, file, pc, target, op>>
    BY <1>6 DEF StartReturns
  <2> QED
    BY <2>1
<1> QED
  BY <1>1, <1>2, <1>3, <1>4, <1>5, <1>6 DEF StartStep

(* Somebody finalizes: only the recording of a process that is dead.       *)
LEMMA FinalizeKnown ==
    ASSUME RecorderTypes, KnownInv, NEW c \in Callers, Finalize(c)
    PROVE  KnownInv'
<1> USE RecorderAssumption DEF RecorderTypes, TypeOK, KnownInv, StartedAs, RunsAs, FinalizedAs,
        ClientInv, Releasing, AtStart
<1>1. /\ pc[c] = "finalize" /\ target[c] \in Recorders /\ exitCode[target[c]] # "zero"
      /\ \E p \in {"inflight", "finished"} : pc' = [pc EXCEPT ![c] = p]
      /\ \/ UNCHANGED flight
         \/ /\ flight' = [flight EXCEPT ![target[c]] = "guarded"]
            /\ exitCode[target[c]] = "done" /\ ~finalized[target[c]]
      /\ UNCHANGED <<registered, startPc, cmd, exitCode, exited, deleted, disableOnce,
                     enableOnce, finalized, stopLeader, proc, remuxed, file, target, op>>
  BY DEF Finalize, Callers, NotExited
<1> QED
  BY <1>1 DEF Callers

(* The process ends, is reaped and finalized.                              *)
LEMMA RecorderKnown ==
    ASSUME RecorderTypes, KnownInv, NEW r \in Recorders,
           RecorderStep(r) \/ FFmpegWrites(r) \/ FFmpegExits(r)
    PROVE  KnownInv'
<1> USE RecorderAssumption DEF RecorderTypes, TypeOK, KnownInv, StartedAs, RunsAs, FinalizedAs,
        ClientInv, Releasing, AtStart
<1>1. CASE FFmpegWrites(r) \/ FFmpegExits(r)
  BY <1>1 DEF FFmpegWrites, FFmpegExits, ProcessAlive
<1>2. CASE ReapProcess(r)
  BY <1>2 DEF ReapProcess, Callers
<1>3. CASE WaiterReturns(r)
  <2>1. /\ enableOnce' = [enableOnce EXCEPT ![r] = TRUE]
        /\ pc[r] = "finished" /\ pc' = [pc EXCEPT ![r] = "gone"]
        /\ UNCHANGED <<registered, startPc, cmd, exitCode, exited, deleted,
                   disableOnce, finalized, flight, stopLeader, proc, remuxed, file, target, op>>
    BY <1>3 DEF WaiterReturns, OncerEnable
  <2> QED
    BY <2>1 DEF Callers
<1>4. CASE Finalize(r)
  BY <1>4, FinalizeKnown DEF Callers
<1>5. CASE StatOutput(r) \/ RemuxEnds(r)
  <2>1. /\ flight[r] # "idle" /\ exitCode[r] = "done" /\ proc[r] = "dead" /\ ~finalized[r]
        /\ UNCHANGED <<registered, startPc, cmd, exitCode, exited, enableOnce, proc, target, op>>
    BY <1>5 DEF StatOutput, RemuxEnds
  <2>2. \/ Land(r)
        \/ UNCHANGED <<finalized, pc, remuxed>> /\ flight' = [flight EXCEPT ![r] = "remux"]
    BY <1>5 DEF StatOutput, RemuxEnds
  <2>3. /\ \A d \in Callers : pc'[d] = pc[d] \/ (pc[d] = "inflight" /\ pc'[d] = "finished")
        /\ \A q \in Recorders \ {r} :
             remuxed'[q] = remuxed[q] /\ flight'[q] = flight[q] /\ finalized'[q] = finalized[q]
    <3>1. CASE Land(r)
      <4>1. \A d \in Callers : pc'[d] = pc[d] \/ (pc[d] = "inflight" /\ pc'[d] = "finished")
        BY <3>1, Landing
      <4> QED
        BY <3>1, <4>1 DEF Land
    <3>2. CASE ~Land(r)
      BY <2>2, <3>2
    <3> QED
      BY <3>1, <3>2
  <2>4. FinalizedAs(r)'
    <3>1. CASE Land(r)
      <4>1. flight'[r] = "idle"
        BY <3>1 DEF Land
      <4>2. remuxed' = [remuxed EXCEPT ![r] = TRUE]
        BY <2>1, <3>1 DEF Land
      <4>3. remuxed'[r]
        BY <4>2
      <4> QED
        BY <4>1, <4>3
    <3>2. CASE ~Land(r)
      <4>1. exitCode'[r] = "done" /\ finalized'[r] = FALSE
        BY <2>1, <2>2, <3>2
      <4> QED
        BY <4>1
    <3> QED
      BY <3>1, <3>2
  <2>5. ASSUME NEW q \in Recorders, q # r PROVE FinalizedAs(q)'
    BY <2>1, <2>3, <2>5
  <2>6. \A q \in Recorders : StartedAs(q)'
    BY <2>1
  <2>7. \A q \in Recorders : RunsAs(q)'
    BY <2>1, <2>3 DEF Callers
  <2>8. \A d \in Clients : ClientInv(d)'
    BY <2>1, <2>3 DEF Callers
  <2> QED
    BY <2>4, <2>5, <2>6, <2>7, <2>8
<1> QED
  BY <1>1, <1>2, <1>3, <1>4, <1>5 DEF RecorderStep

(* A stop signals the process until it is killed, or known to be dead.     *)
LEMMA StopKnown ==
    ASSUME RecorderTypes, KnownInv, NEW c \in Clients,
           Stop(c) \/ ShutdownSucceeds(c) \/ PhaseTimeout(c) \/ StopReturns(c)
    PROVE  KnownInv'
<1> USE RecorderAssumption DEF RecorderTypes, TypeOK, KnownInv, StartedAs, RunsAs, FinalizedAs,
        ClientInv, Releasing, AtStart
<1>0. c \in Callers /\ c \notin Recorders /\ c # NoOne
  BY DEF Callers
<1>a. pc[c] # "idle" => target[c] \in Recorders /\ cmd[target[c]] = "process"
                        /\ exitCode[target[c]] # "zero"
  OBVIOUS
<1>1. CASE Stop(c)
  <2>1. CASE pc' = [pc EXCEPT ![c] = "joined"] /\ UNCHANGED <<proc, stopLeader>>
    BY <1>0, <1>1, <2>1 DEF Stop, Callers
  <2>2. ASSUME NEW next \in {"interrupted", "killing"}, Snapshot(c, next)
        PROVE  KnownInv'
    <3>1. /\ pc[c] = "called" /\ \E p \in {"finalize", next} : pc' = [pc EXCEPT ![c] = p]
          /\ pc'[c] = "finalize" => proc[target[c]] = "dead" /\ UNCHANGED proc
          /\ \/ UNCHANGED proc /\ (pc'[c] = "killing" => proc[target[c]] # "running")
             \/ /\ proc[target[c]] # "dead" /\ proc[target[c]] # "none"
                /\ proc' = [proc EXCEPT ![target[c]] = "killed"]
          /\ UNCHANGED <<registered, startPc, cmd, exitCode, exited, deleted, disableOnce,
                         enableOnce, finalized, flight, remuxed, file, target, op>>
      BY <1>0, <1>a, <1>1, <2>2 DEF Stop, Snapshot, NotExited, ProcessAlive
    <3> QED
      BY <1>0, <1>a, <3>1 DEF Callers
  <2> QED
    BY <1>1, <2>1, <2>2 DEF Stop
<1>2. ASSUME NEW next \in {"finalize", "finished"}, Signalling(c), EndShutdown(c, next),
             proc[target[c]] # "running",
             UNCHANGED <<registered, startPc, cmd, exitCode, exited,
                   deleted, disableOnce, enableOnce, finalized, flight, proc,
                   remuxed, file, target, op>>
      PROVE  KnownInv'
  <2>1. \A d \in Callers : \/ pc'[d] = pc[d] /\ d # c
                           \/ pc'[d] = next /\ (d = c \/ (pc[d] = "joined" /\ target[d] = target[c]))
    BY <1>2, Ending
  <2> QED
    BY <1>0, <1>2, <2>1 DEF Callers, Signalling
<1>3. CASE ShutdownSucceeds(c)
  <2>1. proc[target[c]] # "running"
    BY <1>a, <1>3 DEF ShutdownSucceeds, Signalling
  <2> QED
    BY <1>2, <1>3, <2>1 DEF ShutdownSucceeds
<1>4. CASE PhaseTimeout(c)
  <2>1. CASE pc[c] = "killing"
    <3>1. proc[target[c]] # "running"
      BY <2>1
    <3> QED
      BY <1>2, <1>4, <2>1, <3>1 DEF PhaseTimeout
  <2>2. CASE pc[c] # "killing"
    <3>1. /\ Signalling(c)
          /\ \/ pc' = [pc EXCEPT ![c] = "terminated"] /\ UNCHANGED proc
             \/ /\ pc' = [pc EXCEPT ![c] = "killing"]
                /\ \/ UNCHANGED proc /\ proc[target[c]] # "running"
                   \/ /\ proc[target[c]] # "dead" /\ proc[target[c]] # "none"
                      /\ proc' = [proc EXCEPT ![target[c]] = "killed"]
          /\ UNCHANGED <<registered, startPc, cmd, exitCode, exited, deleted, disableOnce,
                         enableOnce, finalized, flight, remuxed, file, target, op>>
      BY <1>4, <2>2 DEF PhaseTimeout, ProcessAlive
    <3> QED
      BY <1>0, <1>a, <3>1 DEF Callers, Signalling
  <2> QED
    BY <2>1, <2>2
<1>5. CASE StopReturns(c)
  <2>1. /\ pc[c] = "finished" /\ op[c] \in {"stop", "force"}
        /\ pc' = [pc EXCEPT ![c] = "respond"]
        /\ enableOnce' = [enableOnce EXCEPT ![target[c]] = TRUE]
        /\ UNCHANGED <<registered, startPc, cmd, exitCode, exited, deleted, disableOnce,
                       finalized, flight, stopLeader, proc, remuxed, file, target, op>>
    BY <1>5 DEF StopReturns, OncerEnable
  <2> QED
    BY <1>0, <1>a, <2>1 DEF Callers
<1> QED
  BY <1>1, <1>3, <1>4, <1>5

(* A patient client's request names a recorder whose process was started.  *)
LEMMA RequestKnown ==
    ASSUME RecorderTypes, KnownInv, setup.patient, NEW c \in Clients,
           \/ Request(c) \/ Respond(c)
           \/ Download(c) \/ ServeFile(c) \/ CheckDelete(c) \/ Delete(c)
    PROVE  KnownInv'
<1> USE RecorderAssumption DEF RecorderTypes, TypeOK, KnownInv, StartedAs, RunsAs, FinalizedAs,
        ClientInv, Releasing, AtStart
<1>0. c \in Callers /\ c \notin Recorders /\ c # NoOne
  BY DEF Callers
<1>1. CASE Request(c)
  BY <1>0, <1>1 DEF Request, Callers, recVars
<1>2. CASE Respond(c)
  BY <1>0, <1>2 DEF Respond, Callers, recVars
<1>3. CASE Download(c) \/ ServeFile(c) \/ CheckDelete(c) \/ Delete(c)
  <2>1. /\ pc[c] # "idle" /\ \E p \in {"respond", "opening", "finalize", "deleting"} :
                                /\ pc' = [pc EXCEPT ![c] = p]
                                /\ p = "finalize" => op[c] = "download"
                                /\ p = "deleting" => ~IsRecording(target[c])
        /\ target[c] \in Recorders /\ cmd[target[c]] = "process"
        /\ UNCHANGED <<registered, startPc, cmd, exitCode, exited, enableOnce,
                       finalized, flight, stopLeader, proc, remuxed, target, op>>
    BY <1>3 DEF Download, ServeFile, CheckDelete, Delete, recVars
  <2>2. ~IsRecording(target[c]) => exitCode[target[c]] = "done"
    BY <2>1 DEF IsRecording, NotExited
  <2> QED
    BY <1>0, <2>1, <2>2 DEF Callers
<1> QED
  BY <1>1, <1>2, <1>3

-----------------------------------------------------------------------------
(* The count.  Holds that nobody takes or gives back stay what they are.   *)
SameAsks(S) == \A b \in S : Asks(b)' <=> Asks(b)
SameRecords(S) == \A b \in S : Records(b)' <=> Records(b)

(* The same holds, the same counter.                                       *)
LEMMA NoHoldMoves ==
    ASSUME HoldsCounted, activeCount' = activeCount, SameAsks(Callers), SameRecords(Callers)
    PROVE  HoldsCounted'
<1>1. Holds' = Holds
  BY DEF Holds, SameAsks, SameRecords
<1> QED
  BY <1>1 DEF HoldsCounted

(* A hold is taken by a Disable that works.                                *)
LEMMA HoldIsTaken ==
    ASSUME CtrlTypeOK, CtrlInv, HoldsCounted, NEW b \in Callers, Disable(TRUE),
           \/ /\ ~Asks(b) /\ Asks(b)'
              /\ SameAsks(Callers \ {b}) /\ SameRecords(Callers)
           \/ /\ ~Records(b) /\ Records(b)'
              /\ SameRecords(Callers \ {b}) /\ SameAsks(Callers)
    PROVE  HoldsCounted'
<1>1. \E h : h \notin Holds /\ Holds' = Holds \cup {h}
  <2>1. CASE SameRecords(Callers)
    <3>1. <<"request", b>> \notin Holds /\ Holds' = Holds \cup {<<"request", b>>}
      BY <2>1 DEF Holds, SameAsks, SameRecords
    <3> QED
      BY <3>1
  <2>2. CASE ~SameRecords(Callers)
    <3>1. <<"recording", b>> \notin Holds /\ Holds' = Holds \cup {<<"recording", b>>}
      BY <2>2 DEF Holds, SameAsks, SameRecords
    <3> QED
      BY <3>1
  <2> QED
    BY <2>1, <2>2
<1> QED
  BY <1>1, HoldTaken DEF HoldsCounted

(* And given back by an Enable, whether or not the platform obeys.         *)
LEMMA HoldIsGivenBack ==
    ASSUME CtrlTypeOK, CtrlInv, HoldsCounted, NEW b \in Callers, NEW ok \in BOOLEAN, Enable(ok),
           \/ /\ Asks(b) /\ ~Asks(b)'
              /\ SameAsks(Callers \ {b}) /\ SameRecords(Callers)
           \/ /\ Records(b) /\ ~Records(b)'
              /\ SameRecords(Callers \ {b}) /\ SameAsks(Callers)
    PROVE  HoldsCounted'
<1>1. \E h : h \in Holds /\ Holds' = Holds \ {h}
  <2>1. CASE SameRecords(Callers)
    <3>1. <<"request", b>> \in Holds /\ Holds' = Holds \ {<<"request", b>>}
      BY <2>1 DEF Holds, SameAsks, SameRecords
    <3> QED
      BY <3>1
  <2>2. CASE ~SameRecords(Callers)
    <3>1. <<"recording", b>> \in Holds /\ Holds' = Holds \ {<<"recording", b>>}
      BY <2>2 DEF Holds, SameAsks, SameRecords
    <3> QED
      BY <3>1
  <2> QED
    BY <2>1, <2>2
<1> QED
  BY <1>1, HoldReleased DEF HoldsCounted

(* The Oncer of a recording that was started gives one hold back, once.    *)
LEMMA OncerGivesBackOnce ==
    ASSUME CtrlTypeOK, CtrlInv, enableOnce \in [Recorders -> BOOLEAN], HoldsCounted,
           NEW r \in Recorders, exitCode[r] # "zero", OncerEnable(r), exitCode' = exitCode,
           SameAsks(Callers)
    PROVE  HoldsCounted'
<1>1. r \in Callers /\ enableOnce' = [enableOnce EXCEPT ![r] = TRUE]
  BY DEF Callers, OncerEnable
<1>2. SameRecords(Callers \ {r})
  BY <1>1 DEF SameRecords, Records
<1>3. CASE enableOnce[r]
  <2>1. activeCount' = activeCount
    BY <1>3 DEF OncerEnable, ctrlVars
  <2>2. SameRecords(Callers)
    BY <1>1, <1>2, <1>3 DEF SameRecords, Records
  <2> QED
    BY <2>1, <2>2, NoHoldMoves
<1>4. CASE ~enableOnce[r]
  <2>1. PICK ok \in BOOLEAN : Enable(ok)
    BY <1>4 DEF OncerEnable
  <2>2. Records(r) /\ ~Records(r)'
    BY <1>1, <1>4 DEF Records
  <2> QED
    BY <1>1, <1>2, <2>1, <2>2, HoldIsGivenBack
<1> QED
  BY <1>3, <1>4

(* StartRecording takes the request's hold and the recording's, and gives  *)
(* back the recording's when ffmpeg does not start, and the request's.     *)
LEMMA StartCounted ==
    ASSUME RecorderTypes, KnownInv, HoldsCounted, NEW r \in Recorders,
           RegisterRecorder(r) \/ StartStep(r)
    PROVE  HoldsCounted'
<1> USE RecorderAssumption DEF RecorderTypes, TypeOK
<1>0. r \in Callers /\ r \notin Clients
  BY DEF Callers
<1>k. StartedAs(r) /\ RunsAs(r)
  BY DEF KnownInv
<1>1. CASE RegisterRecorder(r)
  <2>1. /\ Disable(TRUE) /\ startPc[r] = "new" /\ startPc' = [startPc EXCEPT ![r] = "registered"]
        /\ UNCHANGED <<exitCode, enableOnce, pc>>
    BY <1>1 DEF RegisterRecorder, TakeRequestHold
  <2>2. ~Asks(r) /\ Asks(r)' /\ SameAsks(Callers \ {r}) /\ SameRecords(Callers)
    BY <1>0, <2>1 DEF Asks, Records, SameAsks, SameRecords, AtStart, Callers
  <2> QED
    BY <1>0, <2>1, <2>2, HoldIsTaken
<1>2. CASE StartLocked(r)
  <2>1. PICK ok \in BOOLEAN :
          /\ Disable(ok)
          /\ ok => exitCode' = [exitCode EXCEPT ![r] = "init"]
          /\ ~ok => UNCHANGED exitCode
          /\ startPc' = [startPc EXCEPT ![r] = IF ok THEN "spawning" ELSE "failed"]
    BY <1>2 DEF StartLocked
  <2>2. startPc[r] = "registered" /\ UNCHANGED <<pc, enableOnce>>
    BY <1>2 DEF StartLocked
  <2>3. SameAsks(Callers)
    BY <1>0, <2>1, <2>2 DEF Asks, SameAsks, AtStart, Callers
  <2>4. CASE ok
    <3>1. ~Records(r) /\ Records(r)' /\ SameRecords(Callers \ {r})
      BY <1>k, <2>1, <2>2, <2>4 DEF Records, SameRecords, StartedAs
    <3> QED
      BY <1>0, <2>1, <2>3, <2>4, <3>1, HoldIsTaken
  <2>5. CASE ~ok
    <3>1. activeCount' = activeCount /\ SameRecords(Callers)
      BY <2>1, <2>2, <2>5 DEF Disable, Records, SameRecords
    <3> QED
      BY <2>3, <3>1, NoHoldMoves
  <2> QED
    BY <2>4, <2>5
<1>3. CASE Spawn(r) \/ SpawnFailed(r)
  <2>1. /\ startPc[r] \in AtStart
        /\ \E s \in AtStart : startPc' = [startPc EXCEPT ![r] = s]
        /\ pc' = pc \/ pc' = [pc EXCEPT ![r] = "waiting"]
        /\ UNCHANGED <<activeCount, exitCode, enableOnce>>
    BY <1>3 DEF Spawn, SpawnFailed, AtStart, ctrlVars
  <2>2. SameAsks(Callers) /\ SameRecords(Callers)
    BY <1>0, <2>1 DEF Asks, Records, SameAsks, SameRecords, Callers
  <2> QED
    BY <2>1, <2>2, NoHoldMoves
<1>4. CASE SpawnFails(r)
  <2>1. /\ startPc[r] = "spawning" /\ startPc' = [startPc EXCEPT ![r] = "unspawned"]
        /\ OncerEnable(r) /\ UNCHANGED <<exitCode, pc>>
    BY <1>4 DEF SpawnFails
  <2>2. exitCode[r] # "zero" /\ SameAsks(Callers)
    BY <1>0, <1>k, <2>1 DEF Asks, SameAsks, AtStart, StartedAs, Callers
  <2> QED
    BY <2>1, <2>2, OncerGivesBackOnce
<1>5. CASE StartReturns(r)
  <2>1. /\ startPc[r] \in AtStart /\ startPc' = [startPc EXCEPT ![r] = "done"]
        /\ UNCHANGED <<exitCode, enableOnce, pc>>
    BY <1>5 DEF StartReturns, AtStart
  <2>2. PICK ok \in BOOLEAN : Enable(ok)
    BY <1>5 DEF StartReturns, DropRequestHold
  <2>3. Asks(r) /\ ~Asks(r)' /\ SameAsks(Callers \ {r}) /\ SameRecords(Callers)
    BY <1>0, <2>1 DEF Asks, Records, SameAsks, SameRecords, AtStart, Callers
  <2> QED
    BY <1>0, <2>2, <2>3, HoldIsGivenBack
<1> QED
  BY <1>1, <1>2, <1>3, <1>4, <1>5 DEF StartStep

(* A client's request holds from its arrival to its answer.                *)
LEMMA RequestCounted ==
    ASSUME RecorderTypes, HoldsCounted, NEW c \in Clients, Request(c) \/ Respond(c)
    PROVE  HoldsCounted'
<1> USE RecorderAssumption DEF RecorderTypes, TypeOK
<1>0. c \in Callers
  BY DEF Callers
<1>1. CASE Request(c)
  <2>1. /\ Disable(TRUE) /\ pc[c] = "idle" /\ pc' = [pc EXCEPT ![c] = "called"]
        /\ UNCHANGED <<exitCode, enableOnce, startPc>>
    BY <1>1 DEF Request, TakeRequestHold, recVars
  <2>2. ~Asks(c) /\ Asks(c)' /\ SameAsks(Callers \ {c}) /\ SameRecords(Callers)
    BY <1>0, <2>1 DEF Asks, Records, SameAsks, SameRecords, Callers
  <2> QED
    BY <1>0, <2>1, <2>2, HoldIsTaken
<1>2. CASE Respond(c)
  <2>1. /\ pc[c] = "respond" /\ pc' = [pc EXCEPT ![c] = "idle"]
        /\ UNCHANGED <<exitCode, enableOnce, startPc>>
    BY <1>2 DEF Respond, recVars
  <2>2. PICK ok \in BOOLEAN : Enable(ok)
    BY <1>2 DEF Respond, DropRequestHold
  <2>3. Asks(c) /\ ~Asks(c)' /\ SameAsks(Callers \ {c}) /\ SameRecords(Callers)
    BY <1>0, <2>1 DEF Asks, Records, SameAsks, SameRecords, Callers
  <2> QED
    BY <1>0, <2>2, <2>3, HoldIsGivenBack
<1> QED
  BY <1>1, <1>2

(* waitForCommand, Stop and ForceStop end with the Oncer's Enable.         *)
LEMMA ReleaseCounted ==
    ASSUME RecorderTypes, KnownInv, HoldsCounted,
           \/ \E r \in Recorders : WaiterReturns(r)
           \/ \E c \in Clients : StopReturns(c)
    PROVE  HoldsCounted'
<1> USE RecorderAssumption DEF RecorderTypes, TypeOK
<1>1. ASSUME NEW r \in Recorders, WaiterReturns(r) PROVE HoldsCounted'
  <2>1. /\ OncerEnable(r) /\ pc[r] = "finished" /\ pc' = [pc EXCEPT ![r] = "gone"]
        /\ UNCHANGED <<exitCode, startPc>>
    BY <1>1 DEF WaiterReturns
  <2>2. exitCode[r] # "zero"
    BY <2>1 DEF KnownInv, RunsAs
  <2>3. SameAsks(Callers)
    BY <2>1 DEF Asks, SameAsks, Callers
  <2> QED
    BY <2>1, <2>2, <2>3, OncerGivesBackOnce
<1>2. ASSUME NEW c \in Clients, StopReturns(c) PROVE HoldsCounted'
  <2>1. /\ OncerEnable(target[c]) /\ pc[c] = "finished" /\ pc' = [pc EXCEPT ![c] = "respond"]
        /\ UNCHANGED <<exitCode, startPc>>
    BY <1>2 DEF StopReturns
  <2>2. target[c] \in Recorders /\ exitCode[target[c]] # "zero"
    BY <2>1 DEF KnownInv, ClientInv, StartedAs
  <2>3. SameAsks(Callers)
    BY <2>1 DEF Asks, SameAsks, Callers
  <2> QED
    BY <2>1, <2>2, <2>3, OncerGivesBackOnce
<1> QED
  BY <1>1, <1>2

(* Everything in between leaves the controller and the Oncers alone.       *)
LEMMA OthersCounted ==
    ASSUME RecorderTypes, HoldsCounted, UNCHANGED <<ctrlVars, startPc, enableOnce>>,
           \A r \in Recorders : exitCode'[r] # "zero" <=> exitCode[r] # "zero",
           \A c \in Clients : pc'[c] # "idle" <=> pc[c] # "idle"
    PROVE  HoldsCounted'
<1>1. SameAsks(Callers) /\ SameRecords(Callers)
  BY RecorderAssumption DEF Asks, Records, SameAsks, SameRecords, Callers
<1> QED
  BY <1>1, NoHoldMoves DEF ctrlVars

(* So it is with ffmpeg's own steps, its reaping and the finalize flight,  *)
LEMMA QuietRecorder ==
    ASSUME RecorderTypes, KnownInv, HoldsCounted, NEW r \in Recorders,
           \/ ReapProcess(r) \/ StatOutput(r) \/ RemuxEnds(r)
           \/ FFmpegWrites(r) \/ FFmpegExits(r)
    PROVE  HoldsCounted'
<1>1. r \in Callers /\ r \notin Clients
  BY RecorderAssumption DEF Callers
<1>2. UNCHANGED <<ctrlVars, startPc, enableOnce>>
  BY DEF ReapProcess, StatOutput, RemuxEnds, FFmpegWrites, FFmpegExits
<1>3. \A q \in Recorders : exitCode'[q] # "zero" <=> exitCode[q] # "zero"
  <2>1. CASE ReapProcess(r)
    <3>1. exitCode[r] # "zero" /\ exitCode' = [exitCode EXCEPT ![r] = "done"]
      BY <2>1 DEF ReapProcess, KnownInv, RunsAs, StartedAs
    <3> QED
      BY <3>1 DEF RecorderTypes, TypeOK
  <2>2. CASE ~ReapProcess(r)
    BY <2>2 DEF StatOutput, RemuxEnds, FFmpegWrites, FFmpegExits
  <2> QED
    BY <2>1, <2>2
<1>4. \A c \in Clients : pc'[c] # "idle" <=> pc[c] # "idle"
  <2>1. CASE ReapProcess(r)
    BY <1>1, <2>1 DEF ReapProcess, RecorderTypes, TypeOK
  <2>2. CASE pc' = pc
    BY <2>2
  <2>3. CASE Land(r)
    BY <2>3, Landing DEF Callers
  <2> QED
    BY <2>1, <2>2, <2>3 DEF StatOutput, RemuxEnds, FFmpegWrites, FFmpegExits
<1> QED
  BY <1>2, <1>3, <1>4, OthersCounted

(* and with a client between its arrival, its Enable and its answer.       *)
LEMMA QuietClient ==
    ASSUME RecorderTypes, HoldsCounted, NEW c \in Callers,
           \/ Finalize(c)
           \/ /\ c \in Clients
              /\ \/ Stop(c) \/ ShutdownSucceeds(c) \/ PhaseTimeout(c)
                 \/ Download(c) \/ ServeFile(c) \/ CheckDelete(c) \/ Delete(c)
    PROVE  HoldsCounted'
<1>1. UNCHANGED <<ctrlVars, startPc, enableOnce, exitCode>>
  BY DEF Finalize, Stop, ShutdownSucceeds, PhaseTimeout, Download, ServeFile, CheckDelete,
         Delete, recVars
<1>2. \A d \in Clients : pc'[d] # "idle" <=> pc[d] # "idle"
  <2>1. CASE ShutdownSucceeds(c) \/ (PhaseTimeout(c) /\ pc[c] = "killing")
    <3>1. PICK next \in {"finalize", "finished"} : EndShutdown(c, next)
      BY <2>1 DEF ShutdownSucceeds, PhaseTimeout
    <3>2. c \in Clients /\ Signalling(c)
      BY <2>1 DEF ShutdownSucceeds, PhaseTimeout, Finalize, Signalling
    <3> QED
      BY <3>1, <3>2, Ending DEF Callers, Signalling
  <2>2. CASE ~(ShutdownSucceeds(c) \/ (PhaseTimeout(c) /\ pc[c] = "killing"))
    <3>1. \E p \in Stages \ {"idle"} : pc' = [pc EXCEPT ![c] = p] /\ pc[c] # "idle"
      BY <2>2 DEF Finalize, Stop, Snapshot, PhaseTimeout, Signalling, Download, ServeFile,
                  CheckDelete, Delete, Stages
    <3> QED
      BY <3>1 DEF RecorderTypes, TypeOK, Callers
  <2> QED
    BY <2>1, <2>2
<1> QED
  BY <1>1, <1>2, OthersCounted

-----------------------------------------------------------------------------
(* All of it holds at first, and through every step.                       *)
LEMMA InitHolds == Init => RecorderInv
<1> SUFFICES ASSUME Init PROVE RecorderInv
  OBVIOUS
<1>1. RecorderTypes
  <2>1. CtrlTypeOK /\ CtrlInv
    <3>1. CtrlInit
      BY DEF Init
    <3>2. CtrlTypeOK
      BY <3>1, CooldownsAssumption DEF CtrlInit, CtrlTypeOK, TimerStates
    <3> QED
      BY <3>1, <3>2 DEF CtrlInit, CtrlInv
  <2>2. setup \in Setups /\ file \in {"none", "stale", "raw", "final"}
    BY RecorderAssumption DEF Init
  <2>3. target \in [Callers -> Recorders \cup {NoOne}]
    BY DEF Init
  <2> QED
    BY <2>1, <2>2, <2>3 DEF Init, RecorderTypes, TypeOK, LeaderSignals
<1>2. HoldsCounted
  <2>1. Holds = {}
    BY RecorderAssumption DEF Init, Holds, Asks, Records, AtStart, Callers
  <2> QED
    BY <2>1, FS_EmptySet DEF HoldsCounted, Init, CtrlInit
<1>3. \A r \in Recorders : StartedAs(r) /\ RunsAs(r) /\ FinalizedAs(r)
  BY RecorderAssumption DEF Init, StartedAs, RunsAs, FinalizedAs, AtStart, Callers
<1>4. \A c \in Clients : ClientInv(c)
  BY DEF Init, ClientInv, Callers
<1> QED
  BY <1>1, <1>2, <1>3, <1>4 DEF RecorderInv, RecorderTypes

(* Every step keeps it: the types for all, the rest for patient clients.   *)
LEMMA NextHolds == RecorderInv /\ [Next]_<<vars, setup>> => RecorderInv'
<1> SUFFICES ASSUME RecorderInv, [Next]_<<vars, setup>> PROVE RecorderInv'
  OBVIOUS
<1>t. RecorderTypes
  BY DEF RecorderInv, RecorderTypes
<1>p. setup.patient => KnownInv /\ HoldsCounted
  BY DEF RecorderInv, KnownInv
<1>s. setup' = setup
  BY DEF Next
<1>i. ASSUME RecorderTypes', setup.patient => KnownInv' /\ HoldsCounted'
      PROVE  RecorderInv'
  BY <1>s, <1>i DEF RecorderInv, RecorderTypes, KnownInv
<1>0. \A r \in setup.recorders : r \in Recorders
  BY <1>t, RecorderAssumption DEF RecorderTypes, TypeOK
<1>1. ASSUME NEW r \in Recorders,
             RegisterRecorder(r) \/ StartStep(r)
      PROVE  RecorderInv'
  BY <1>1, <1>i, <1>p, <1>s, <1>t, StartTyped, StartKnown, StartCounted
<1>2. ASSUME NEW r \in Recorders, RecorderStep(r) \/ FFmpegWrites(r) \/ FFmpegExits(r)
      PROVE  RecorderInv'
  <2>1. RecorderTypes' /\ (setup.patient => KnownInv')
    BY <1>2, <1>p, <1>s, <1>t, RecorderTyped, RecorderKnown
  <2>2. setup.patient => HoldsCounted'
    BY <1>2, <1>p, <1>t, QuietRecorder, QuietClient, ReleaseCounted DEF RecorderStep, Callers
  <2> QED
    BY <1>i, <2>1, <2>2
<1>3. ASSUME NEW c \in Clients, Request(c) \/ ClientStep(c)
      PROVE  RecorderInv'
  <2>0. c \in Callers
    BY DEF Callers
  <2>1. CASE Finalize(c)
    BY <1>i, <1>p, <1>s, <1>t, <2>0, <2>1, FinalizeTyped, FinalizeKnown, QuietClient
  <2>2. CASE Stop(c) \/ ShutdownSucceeds(c) \/ PhaseTimeout(c)
    BY <1>i, <1>p, <1>s, <1>t, <2>0, <2>2, StopTyped, StopKnown, QuietClient
  <2>3. CASE StopReturns(c)
    BY <1>i, <1>p, <1>s, <1>t, <2>3, StopTyped, StopKnown, ReleaseCounted
  <2>4. CASE Request(c) \/ Respond(c)
    BY <1>i, <1>p, <1>s, <1>t, <2>4, RequestTyped, RequestKnown, RequestCounted
  <2>5. CASE Download(c) \/ ServeFile(c) \/ CheckDelete(c) \/ Delete(c)
    BY <1>i, <1>p, <1>s, <1>t, <2>0, <2>5, RequestTyped, RequestKnown, QuietClient
  <2> QED
    BY <1>3, <2>1, <2>2, <2>3, <2>4, <2>5 DEF ClientStep
<1>4. CASE UNCHANGED <<vars, setup>>
  <2>1. /\ UNCHANGED <<ctrlVars, registered, startPc, cmd, exitCode, exited, deleted, disableOnce,
                       enableOnce, finalized, flight, stopLeader, proc, remuxed, file>>
        /\ UNCHANGED <<pc, target, op>>
    BY <1>4 DEF vars, recVars
  <2>2. CtrlTypeOK' /\ CtrlInv'
    BY <1>t, <2>1, CallsKeepCtrl DEF RecorderTypes, TypeOK
  <2>3. RecorderTypes'
    BY <1>s, <1>t, <2>1, <2>2 DEF RecorderTypes, TypeOK, LeaderSignals, Signalling
  <2>4. setup.patient => HoldsCounted'
    BY <1>p, <1>t, <2>1, OthersCounted
  <2>5. setup.patient => KnownInv'
    BY <1>p, <2>1 DEF KnownInv, StartedAs, RunsAs, FinalizedAs, ClientInv, Releasing
  <2> QED
    BY <1>i, <2>3, <2>4, <2>5
<1> QED
  BY <1>0, <1>1, <1>2, <1>3, <1>4 DEF Next, Finished

(* Hence every state has it.                                               *)
LEMMA Invariance == Spec => []RecorderInv
  BY InitHolds, NextHolds, PTL DEF Spec

-----------------------------------------------------------------------------
(* The recorder's state has its types, whether or not clients are patient: *)
(* a stop flight, for one, is led by a client that names its recorder.     *)
THEOREM TypeCorrect == Spec => []TypeOK
<1>1. RecorderInv => TypeOK
  BY DEF RecorderInv
<1> QED
  BY <1>1, Invariance, PTL

(* While ffmpeg records and nobody has killed it, scale-to-zero stays off, *)
(* provided that clients name a recorder only once its start is answered.  *)
THEOREM RecordingHoldsOff == Spec => []PatientRecordingKeepsAwake
<1>1. ASSUME RecorderInv, setup.patient, NEW r \in Recorders, proc[r] = "running"
      PROVE  control = "+"
  <2>1. StartedAs(r) /\ RunsAs(r) /\ HoldsCounted /\ activeCount \in Nat
    BY <1>1 DEF RecorderInv, TypeOK, CtrlTypeOK
  <2>2. r \in Callers /\ Records(r)
    BY <1>1, <2>1 DEF StartedAs, RunsAs, Records, Callers
  <2>3. <<"recording", r>> \in Holds
    BY <2>2 DEF Holds
  <2>4. activeCount # 0
    BY <2>1, <2>3, HolderCount DEF HoldsCounted
  <2> QED
    BY <1>1, <2>1, <2>4 DEF RecorderInv, CtrlInv
<1>2. RecorderInv => PatientRecordingKeepsAwake
  BY <1>1 DEF PatientRecordingKeepsAwake, RecordingKeepsAwake
<1> QED
  BY <1>2, Invariance, PTL

(* Only a download whose recording is not pending opens the file.          *)
LEMMA OpenedWhenSettled ==
    ASSUME RecorderInv, [Next]_<<vars, setup>>, NEW c \in Clients, setup.patient,
           pc[c] # "opening", pc'[c] = "opening", exitCode[target[c]] = "done"
    PROVE  Settled(target[c])
<1>0. c \in Callers /\ c \notin Recorders /\ pc \in [Callers -> Stages] /\ RecorderTypes
  BY RecorderAssumption DEF Callers, RecorderInv, RecorderTypes, TypeOK, Stages
<1>1. Download(c)
  <2>1. ASSUME UNCHANGED pc PROVE FALSE
    BY <2>1
  <2>2. ASSUME NEW d \in Callers, NEW p \in Stages \ {"opening"}, pc' = [pc EXCEPT ![d] = p]
        PROVE  FALSE
    BY <1>0, <2>2
  <2>3. ASSUME NEW r \in Recorders, RegisterRecorder(r) \/ StartStep(r) PROVE FALSE
    BY <2>1, <2>2, <2>3 DEF RegisterRecorder, StartStep, StartLocked, Spawn, SpawnFails,
       SpawnFailed, StartReturns, Callers, Stages
  <2>4. ASSUME NEW d \in Callers, Finalize(d) PROVE FALSE
    BY <2>2, <2>4 DEF Finalize, Stages
  <2>5. ASSUME NEW r \in Recorders, RecorderStep(r) \/ FFmpegWrites(r) \/ FFmpegExits(r)
        PROVE  FALSE
    <3>1. ~Land(r)
      BY <1>0, <2>5, Landing
    <3> QED
      <4>1. ~Finalize(r)
        BY <2>4 DEF Callers
      <4>2. ~ReapProcess(r)
        BY <2>2 DEF ReapProcess, Callers, Stages
      <4>3. ~WaiterReturns(r)
        BY <2>2 DEF WaiterReturns, Callers, Stages
      <4>4. ~StatOutput(r) /\ ~RemuxEnds(r) /\ ~FFmpegWrites(r) /\ ~FFmpegExits(r)
        BY <2>1, <3>1 DEF StatOutput, RemuxEnds, FFmpegWrites, FFmpegExits
      <4> QED
        BY <2>5, <4>1, <4>2, <4>3, <4>4 DEF RecorderStep
  <2>6. ASSUME NEW d \in Clients, Request(d) \/ ClientStep(d), ~Download(d) PROVE FALSE
    <3>1. d \in Callers
      BY DEF Callers
    <3>2. ASSUME Signalling(d), NEW next \in {"finalize", "finished"}, EndShutdown(d, next)
          PROVE  FALSE
      BY <1>0, <3>2, Ending
    <3>3. ~ShutdownSucceeds(d)
      BY <3>2 DEF ShutdownSucceeds
    <3>4. ~PhaseTimeout(d)
      BY <2>2, <3>1, <3>2 DEF PhaseTimeout, Stages
    <3>5. ~Stop(d)
      BY <2>2, <3>1 DEF Stop, Snapshot, Stages
    <3> QED
      BY <2>2, <2>4, <2>6, <3>1, <3>3, <3>4, <3>5 DEF Request, ClientStep, StopReturns, ServeFile,
         CheckDelete, Delete, Respond, Stages
  <2>7. ASSUME NEW d \in Clients, Download(d) PROVE d = c
    BY <1>0, <2>7 DEF Download, Callers
  <2>8. \A r \in setup.recorders : r \in Recorders
    BY RecorderAssumption DEF RecorderInv, TypeOK
  <2> QED
    BY <2>1, <2>3, <2>5, <2>6, <2>7, <2>8 DEF Next, Finished, vars
<1>2. target[c] \in Recorders /\ FinalizedAs(target[c])
  BY <1>1 DEF RecorderInv, ClientInv, Download
<1>3. finalized[target[c]]
  BY <1>0, <1>1 DEF Download, FinalizationPending, NotExited
<1> QED
  BY <1>2, <1>3 DEF FinalizedAs, Settled

(* Only a deletion whose recording is not pending removes the file.        *)
LEMMA DeletedWhenSettled ==
    ASSUME RecorderInv, [Next]_<<vars, setup>>, NEW r \in Recorders, setup.patient,
           ~deleted[r], deleted'[r]
    PROVE  Settled(r)
<1>1. ASSUME UNCHANGED deleted PROVE FALSE
  BY <1>1
<1>2. \E c \in Clients : Delete(c)
  <2>1. \A q \in setup.recorders : q \in Recorders
    BY RecorderAssumption DEF RecorderInv, TypeOK
  <2>2. ASSUME NEW q \in Recorders,
               \/ RegisterRecorder(q) \/ StartStep(q) \/ RecorderStep(q)
               \/ FFmpegWrites(q) \/ FFmpegExits(q)
        PROVE  FALSE
    BY <1>1, <2>2 DEF RegisterRecorder, StartStep, StartLocked, Spawn, SpawnFails, SpawnFailed,
       StartReturns, RecorderStep, ReapProcess, WaiterReturns, Finalize, StatOutput, RemuxEnds,
       FFmpegWrites, FFmpegExits
  <2>3. ASSUME NEW c \in Clients, Request(c) \/ ClientStep(c), ~Delete(c) PROVE FALSE
    BY <1>1, <2>3 DEF Request, ClientStep, Stop, ShutdownSucceeds, PhaseTimeout, StopReturns,
       Finalize, Download, ServeFile, CheckDelete, Respond, recVars
  <2> QED
    BY <1>1, <2>1, <2>2, <2>3 DEF Next, Finished, vars, recVars
<1>3. PICK c \in Clients : Delete(c)
  BY <1>2
<1>4. target[c] = r /\ ~FinalizationPending(r)
  BY <1>1, <1>3 DEF Delete, RecorderInv, TypeOK, Callers
<1>5. exitCode[r] = "done" /\ FinalizedAs(r)
  BY <1>3, <1>4 DEF Delete, RecorderInv, ClientInv
<1> QED
  BY <1>4, <1>5 DEF FinalizationPending, NotExited, FinalizedAs, Settled

(* Recording hands out a recording that is complete, and Delete removes    *)
(* it, only when its finalization has ended, however downloads, stops and  *)
(* waitForCommand share the flight.                                        *)
THEOREM ServedWhenFinalized == Spec => ServedAfterFinalization
<1>1. RecorderInv /\ [Next]_<<vars, setup>> =>
        [setup.patient =>
            /\ \A c \in Clients :
                 (pc[c] # "opening" /\ pc'[c] = "opening" /\ exitCode[target[c]] = "done")
                 => Settled(target[c])
            /\ \A r \in Recorders : (~deleted[r] /\ deleted'[r]) => Settled(r)]_vars
  BY OpenedWhenSettled, DeletedWhenSettled
<1> QED
  BY <1>1, Invariance, PTL DEF Spec, ServedAfterFinalization
=============================================================================

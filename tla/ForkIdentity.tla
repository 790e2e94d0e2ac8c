----------------------------- MODULE ForkIdentity -----------------------------
(***************************************************************************)
(* How a fork of a snapshot takes an identity of its own (cmd/wrapper,     *)
(* lib/forkidentity, cmd/api/fork_identity.go, instance_identity.go and    *)
(* the stream resolver of cmd/api/main.go).  The wrapper boots the         *)
(* services, the API takes the identity from the control plane, and the    *)
(* two speak through three files: ready, payload and applied marker.       *)
(* Supervisord restarts the API, the wrapper ends with the instance.       *)
(***************************************************************************)
EXTENDS Naturals, FiniteSets

CONSTANTS
    Names,          \* the identities the control plane sends
    Gives,          \* Gives[n]: which of Keys a payload has, of Names or of the past
    Posts,          \* the requests that hand an identity over
    MaxApiLives     \* bounds the lives of the API

VARIABLES
    wait,           \* KERNEL_FORK_IDENTITY_WAIT
    bootStage,      \* how far the wrapper is
    env,            \* the wrapper's: whose value each of Keys has
    envoy,          \* whose values Envoy runs with, or Stopped
    identity,       \* the payload the wrapper has taken
    readyFile, payload, marker, \* the files
    apiLife,        \* of the API
    api,            \* the API runs
    post,           \* per request, how far it is
    name,           \* per request, the identity it brings
    hook,           \* hookStream of this life
    bound,          \* whose stream the S2 writer of this life appends to
    read,           \* a reader of the files that has read one of them
    served,         \* whom the configuration for the extension named last
    token           \* whose name and whose JWT the provider told last

wrapperVars == <<bootStage, env, envoy, identity>>
handoff == <<readyFile, payload, marker>>
postVars == <<post, name>>
memoryVars == <<hook, bound, read, served, token>>
forkVars == <<wait, wrapperVars, handoff, apiLife, api, postVars, memoryVars>>

Nobody == "nobody"
Boot == "boot"          \* the instance this one is a snapshot of
Past == "past"          \* an identity of an earlier start of the container
Keys == {"name", "jwt", "stream"}
Credentials == {"name", "jwt"}
Stopped == [k \in Credentials |-> Nobody]
NoHook == "unset"
NoToken == [k \in Credentials |-> Nobody]
BootToken == [k \in Credentials |-> Boot]
Unread == [by |-> "none", saw |-> Nobody]

(* No identity has the name that stands for none.                          *)
ASSUME ForkAssumption == Nobody \notin Names /\ IsFiniteSet(Posts)

(* The variables a payload sets; it always has a name.                     *)
Env(n) == [k \in Keys |-> IF k = "name" \/ k \in Gives[n] THEN n ELSE Nobody]

(* A start of the container may find the files of the one before it.       *)
ForkInit ==
    /\ wait \in BOOLEAN
    /\ env \in {[k \in Keys |-> Boot], [k \in Keys |-> Nobody]}
    /\ bootStage = "services" /\ envoy = Stopped /\ identity = Nobody
    /\ \E past \in {Nobody, Past} :
          /\ past = Past => wait
          /\ readyFile = (past = Past) /\ payload = past /\ marker = past
    /\ apiLife = 1 /\ api = FALSE
    /\ post = [p \in Posts |-> "new"] /\ name = [p \in Posts |-> Nobody]
    /\ hook = NoHook /\ bound = Nobody /\ read = Unread
    /\ served = Nobody /\ token = NoToken

-----------------------------------------------------------------------------
(* The wrapper.                                                            *)
At(from, to) == bootStage = from /\ bootStage' = to

(* init-envoy.sh: without credentials it leaves Envoy alone.               *)
EnvoyAfterInit ==
    IF \E k \in Credentials : env[k] = Nobody THEN envoy
    ELSE [k \in Credentials |-> env[k]]

(* prepareSnapshotStartPage: Envoy runs with the seed identity while the   *)
(* page loads.  Where nothing is awaited, Envoy is started for good and    *)
(* the API, which was never up, is restarted with the boot environment.    *)
SeedEnvoy ==
    /\ wait /\ At("services", "seeded")
    /\ envoy' = EnvoyAfterInit
    /\ UNCHANGED <<wait, env, identity, handoff, apiLife, api, postVars, memoryVars>>

PageLoaded ==
    /\ At("seeded", "prepared")
    /\ envoy' = Stopped
    /\ UNCHANGED <<wait, env, identity, handoff, apiLife, api, postVars, memoryVars>>

(* Mutant of Arm, for the instances: the files of an earlier start stay.   *)
ArmOverPast ==
    /\ At("prepared", "armed")
    /\ envoy' = Stopped
    /\ readyFile' = TRUE
    /\ UNCHANGED <<wait, env, identity, payload, marker, apiLife, api, postVars, memoryVars>>

(* armForkIdentityWait.                                                    *)
Arm ==
    /\ At("prepared", "armed")
    /\ envoy' = Stopped
    /\ marker' = Nobody /\ payload' = Nobody /\ readyFile' = TRUE
    /\ UNCHANGED <<wait, env, identity, apiLife, api, postVars, memoryVars>>

StartApi ==
    /\ At("armed", "waiting")
    /\ api' = TRUE
    /\ UNCHANGED <<wait, env, envoy, identity, handoff, apiLife, postVars, memoryVars>>

(* waitForForkIdentityPayload.                                             *)
TakePayload ==
    /\ payload # Nobody /\ At("waiting", "taken")
    /\ identity' = payload
    /\ UNCHANGED <<wait, env, envoy, handoff, apiLife, api, postVars, memoryVars>>

(* Mutant of Apply: only what the payload sets is set.                     *)
ApplyUncleared ==
    /\ At("taken", "applied")
    /\ env' = [k \in Keys |-> IF Env(identity)[k] # Nobody THEN identity ELSE env[k]]
    /\ UNCHANGED <<wait, envoy, identity, handoff, apiLife, api, postVars, memoryVars>>

(* applyForkIdentityPayload: what the payload does not set is cleared, and *)
(* Chromium is restarted.                                                  *)
Apply ==
    /\ At("taken", "applied")
    /\ env' = Env(identity)
    /\ UNCHANGED <<wait, envoy, identity, handoff, apiLife, api, postVars, memoryVars>>

InitEnvoy ==
    /\ IF wait THEN At("applied", "probing") ELSE At("services", "probing")
    /\ envoy' = EnvoyAfterInit
    /\ api' = (api \/ ~wait)
    /\ UNCHANGED <<wait, env, identity, handoff, apiLife, postVars, memoryVars>>

(* waitAllReady: DevTools are probed through the API.                      *)
Probed == api /\ (\A k \in Credentials : env[k] # Nobody) => envoy # Stopped

FinishBoot ==
    /\ At("probing", "up")
    /\ wait => Probed
    /\ marker' = IF wait THEN identity ELSE marker
    /\ UNCHANGED <<wait, env, envoy, identity, readyFile, payload, apiLife, api, postVars,
                   memoryVars>>

(* A step fails or a deadline passes: the wrapper exits, and so does all.  *)
(* A signal stops the services before.                                     *)
Exit ==
    /\ bootStage # "exited" /\ bootStage' = "exited"
    /\ api' = FALSE /\ envoy' = Stopped
    /\ post' = [p \in Posts |-> IF post[p] \in {"new", "204", "409", "500"} THEN post[p]
                                ELSE "lost"]
    /\ read' = Unread
    /\ UNCHANGED <<wait, env, identity, handoff, apiLife, name, hook, bound, served, token>>

-----------------------------------------------------------------------------
(* The API: forkIdentityHandler.                                           *)
Moves(p, from, to) == post[p] = from /\ post' = [post EXCEPT ![p] = to]

Admit(p, n) ==
    /\ api
    /\ Moves(p, "new", IF wait /\ marker = Nobody THEN "admitted" ELSE "409")
    /\ name' = [name EXCEPT ![p] = n]
    /\ UNCHANGED <<wait, wrapperVars, handoff, apiLife, api, memoryVars>>

ResetMarker(p) ==
    /\ api /\ Moves(p, "admitted", "reset")
    /\ marker' = Nobody
    /\ UNCHANGED <<wait, wrapperVars, readyFile, payload, apiLife, api, name, memoryVars>>

(* The payload is written aside and renamed.  Requests share the file      *)
(* aside, so a rename may take what another one is writing, or find        *)
(* nothing and fail: that is left out.                                     *)
WritePayload(p) ==
    /\ api /\ Moves(p, "reset", "waiting")
    /\ payload' = name[p]
    /\ UNCHANGED <<wait, wrapperVars, readyFile, marker, apiLife, api, name, memoryVars>>

MatchesMarker(n) == marker = n

SeeMarker(p) ==
    /\ api /\ MatchesMarker(name[p]) /\ Moves(p, "waiting", "matched")
    /\ UNCHANGED <<wait, wrapperVars, handoff, apiLife, api, name, memoryVars>>

TimeOut(p) ==
    /\ api /\ Moves(p, "waiting", "500")
    /\ UNCHANGED <<wait, wrapperVars, handoff, apiLife, api, name, memoryVars>>

(* RecordAppliedPayload, and the answer.                                   *)
Answer(p) ==
    /\ api /\ Moves(p, "matched", "204")
    /\ hook' = Env(name[p])["stream"]
    /\ UNCHANGED <<wait, wrapperVars, handoff, apiLife, api, name, bound, read, served, token>>

(* The API dies, which loses its requests and its memory, and supervisord  *)
(* starts it again with the environment of the boot.                       *)
ApiCrash ==
    /\ api /\ apiLife < MaxApiLives
    /\ api' = FALSE /\ apiLife' = apiLife + 1
    /\ post' = [p \in Posts |->
                  IF post[p] \in {"admitted", "reset", "waiting", "matched"} THEN "lost"
                  ELSE post[p]]
    /\ hook' = NoHook /\ bound' = Nobody /\ read' = Unread
    /\ UNCHANGED <<wait, wrapperVars, handoff, name, served, token>>

ApiRestart ==
    /\ ~api /\ apiLife > 1 /\ bootStage # "exited"
    /\ api' = TRUE
    /\ UNCHANGED <<wait, wrapperVars, handoff, apiLife, postVars, memoryVars>>

-----------------------------------------------------------------------------
(* The readers of the files.  Each reads two of them, one after the other; *)
(* one reader at a time stands for all, for they only read.                *)
Reads(who, file) == read = Unread /\ read' = [by |-> who, saw |-> file]

(* s2StreamResolver.Resolve, when a session opens storage for the first    *)
(* time in this life.                                                      *)
Resolve ==
    /\ api /\ bound = Nobody
    /\ IF hook # NoHook THEN bound' = hook /\ UNCHANGED read
       ELSE IF ~readyFile THEN bound' = Boot /\ UNCHANGED read
       ELSE marker # Nobody /\ Reads("s2", marker) /\ UNCHANGED bound
    /\ UNCHANGED <<wait, wrapperVars, handoff, apiLife, api, postVars, hook, served, token>>

(* Mutant of Agrees: whatever payload is there.                            *)
AgreesAny(saw) == TRUE

Agrees(saw) == payload = saw

ResolveFromPayload ==
    /\ api /\ read.by = "s2" /\ read' = Unread
    /\ bound' = IF payload # Nobody /\ Agrees(read.saw) THEN Env(payload)["stream"]
                ELSE Nobody
    /\ UNCHANGED <<wait, wrapperVars, handoff, apiLife, api, postVars, hook, served, token>>

(* instanceIdentityProvider.resolve; a cached answer is an answer again.   *)
AskToken ==
    /\ api
    /\ IF wait /\ marker # Nobody THEN Reads("token", marker) /\ UNCHANGED token
       ELSE read = Unread /\ token' = BootToken /\ UNCHANGED read
    /\ UNCHANGED <<wait, wrapperVars, handoff, apiLife, api, postVars, hook, bound, served>>

(* Every field that the payload does not set is the one of the boot, whose *)
(* value may be empty; the name of the metro and its address are treated   *)
(* as the JWT is.                                                          *)
TokenOf(n) ==
    [k \in Credentials |-> IF k = "name" \/ k \in Gives[n] THEN n ELSE Boot]

TokenFromPayload ==
    /\ api /\ read.by = "token" /\ read' = Unread
    /\ token' = IF payload = Nobody THEN BootToken ELSE TokenOf(payload)
    /\ UNCHANGED <<wait, wrapperVars, handoff, apiLife, api, postVars, hook, bound, served>>

(* forkIdentityConfigHandler: 404 and 202 name nobody.                     *)
AskConfig ==
    /\ api /\ payload # Nobody /\ Reads("config", payload)
    /\ UNCHANGED <<wait, wrapperVars, handoff, apiLife, api, postVars, hook, bound, served,
                   token>>

Config ==
    /\ api /\ read.by = "config" /\ read' = Unread
    /\ served' = IF wait /\ ~MatchesMarker(read.saw) THEN served ELSE read.saw
    /\ UNCHANGED <<wait, wrapperVars, handoff, apiLife, api, postVars, hook, bound, token>>

Wrapper ==
    SeedEnvoy \/ PageLoaded \/ Arm \/ StartApi \/ TakePayload \/ Apply \/ InitEnvoy
        \/ FinishBoot \/ Exit

Request(p) ==
    \/ \E n \in Names : Admit(p, n)
    \/ ResetMarker(p) \/ WritePayload(p) \/ SeeMarker(p) \/ TimeOut(p) \/ Answer(p)

ForkNext ==
    \/ Wrapper \/ ApiCrash \/ ApiRestart
    \/ \E p \in Posts : Request(p)
    \/ Resolve \/ ResolveFromPayload \/ AskToken \/ TokenFromPayload \/ AskConfig \/ Config

ForkSpec == ForkInit /\ [][ForkNext]_forkVars

-----------------------------------------------------------------------------
(* What leaves the instance bears its identity: the stream, and what the   *)
(* extension is told, are those of the identity taken, and Envoy has       *)
(* nobody else's credentials once the instance waits for its own.  The     *)
(* provider names the source of the snapshot, until an identity is taken,  *)
(* and after it nobody the control plane has not named.  The JWT it tells  *)
(* belongs to that name, except that a payload without one makes the fork  *)
(* show the JWT of the source of the snapshot under its own name: resolve  *)
(* falls back field by field, where the wrapper clears.                    *)
TokenIsOwn ==
    \/ token \in {NoToken, BootToken}
    \/ /\ identity # Nobody
       /\ \E p \in Posts :
             /\ token["name"] = name[p]
             /\ \/ token["jwt"] = name[p]
                \/ token["jwt"] = Boot /\ "jwt" \notin Gives[name[p]]

IdentityIsOwn ==
    wait =>
      /\ {bound, served} \subseteq {Nobody, identity}
      /\ bootStage \in {"armed", "waiting", "taken", "applied", "probing", "up"} =>
            \A k \in Credentials : envoy[k] \in {Nobody, identity}
      /\ TokenIsOwn

(* The control plane is told that the identity is taken only once all of   *)
(* the environment is that identity's and the services run with it.        *)
AcceptedIsApplied ==
    \A p \in Posts : post[p] = "204" =>
        /\ name[p] = identity /\ env = Env(identity)
        /\ bootStage \in {"up", "exited"}

(* One request leaves files that name the identity, whatever becomes of    *)
(* the request and of the API, so that a later life finds it.              *)
FilesStay ==
    bootStage = "up" /\ wait
        /\ Cardinality({p \in Posts : post[p] \notin {"new", "409"}}) = 1
      => marker = identity /\ payload = identity

(* A fork speaks for itself only, but for a JWT that it was not given, is  *)
(* said to do so once it does, and still does in a later life of the API.  *)
ForkIsItself == IdentityIsOwn /\ AcceptedIsApplied /\ FilesStay
=============================================================================

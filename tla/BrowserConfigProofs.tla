------------------------ MODULE BrowserConfigProofs -------------------------
(***************************************************************************)
(* The display converges to the size granted last; a fork has the identity *)
(* it was given and nobody else's; the files of Chromium agree with what   *)
(* was granted, and Chromium runs with it; live views know the focus; and  *)
(* what is known of the browser's targets is true once everything it said  *)
(* was handled: for any sizes, recordings, identities, payloads, bodies,   *)
(* frames, timers, pages, windows and sessions, any number of requests,    *)
(* and of lives of the API and of Chromium.                                *)
(***************************************************************************)
EXTENDS ChromiumConfig, Display, ForkIdentity, LiveFocus, BrowserSurface,
        FiniteSetTheorems, WellFoundedInduction, TLAPS

-----------------------------------------------------------------------------
(* The headless display. *)

(* The inductive invariant.                                                *)
Requested ==
    [id : Nat, size : Screens, api : {"patch", "configure"}, idle : BOOLEAN,
     at : {"check", "list", "stop", "resize"},
     list : SUBSET Recordings, stopped : SUBSET Recordings]

Resizing ==
    [id : Nat, size : Screens, at : {"config", "restart", "starting", "settle"},
     told : BOOLEAN]

DisplayType ==
    /\ xvfb \in Screens \cup {0} /\ override \in Screens \cup {0}
    /\ conf \in Screens /\ want \in Screens
    /\ broken \in {"no", "kept", "lost"} /\ resizes \in Nat
    /\ request \subseteq Requested /\ resize \subseteq Resizing
    /\ background \subseteq [id : Nat, size : Screens]
    /\ recording \subseteq Recordings

(* chromiumConfigMu and xvfbResizeMu.                                      *)
OneEach ==
    /\ \A p, q \in request : p = q
    /\ \A y, z \in resize : y = z

(* A resize is the synchronous one of the request with its number, or of a *)
(* goroutine, whose request is over.                                       *)
NumbersTell ==
    /\ \A q \in request : q.id <= resizes
    /\ \A z \in resize : z.id <= resizes
    /\ \A b \in background : b.id <= resizes /\ \A q \in request : b.id # q.id
    /\ \A q \in request : q.at = "resize" => resize # {}
    /\ \A q \in request, z \in resize : q.id = z.id <=> q.at = "resize"

OverrideIsWanted == override # 0 => override = want

(* What a resize has done so far, if supervisord was told.                 *)
ResizeFollows ==
    \A z \in resize :
        /\ z.at # "config" /\ z.told => conf = z.size
        /\ z.at = "settle" /\ z.told => xvfb = conf

(* An override is pursued: by the goroutine that resizes, or by one that   *)
(* waits to; and as long as a goroutine resizes there is an override.      *)
Queued == \E b \in background : b.size = override

OverrideIsPursued ==
    /\ \A z \in resize : Mine(z) = {} => override = z.size \/ Queued
    /\ broken = "kept" => override # 0
    /\ override # 0 /\ broken = "no" =>
        Queued \/ \E z \in resize : Mine(z) = {} /\ z.size = override

XvfbIsWanted == override = 0 /\ broken = "no" /\ resize = {} => xvfb = want

DisplayInv ==
    /\ DisplayType /\ OneEach /\ NumbersTell
    /\ OverrideIsWanted /\ ResizeFollows /\ OverrideIsPursued /\ XvfbIsWanted

-----------------------------------------------------------------------------
(* A request that does not resize yet is nobody's.                         *)
LEMMA NoneIsMine ==
    ASSUME NumbersTell, \A q \in request : q.at # "resize"
    PROVE  \A z \in resize : Mine(z) = {}
  BY DEF NumbersTell, Mine

(* A request that begins, goes on or ends before it resizes anything, and  *)
(* any change of the recordings, leave the display alone.                  *)
LEMMA BeforeResize ==
    ASSUME DisplayInv, UNCHANGED <<screenVars, want, resizeVars>>,
           \A q \in request : q.at # "resize",
           request' \subseteq Requested, \A p, q \in request' : p = q,
           resizes' \in Nat, resizes <= resizes', recording' \subseteq Recordings,
           \A q \in request' :
               /\ q.at # "resize" /\ q.id <= resizes'
               /\ q.id > resizes \/ \E p \in request : p.id = q.id
    PROVE  DisplayInv'
<1>1. UNCHANGED <<xvfb, conf, override, broken, want, resize, background>>
  BY DEF screenVars, resizeVars
<1>2. DisplayType' /\ OneEach'
  BY <1>1 DEF DisplayInv, DisplayType, OneEach
<1>3. NumbersTell'
  <2>1. \A q \in request' : q.id \in Nat
    BY DEF Requested
  <2>2. /\ \A z \in resize : z.id \in Nat /\ z.id <= resizes
        /\ \A b \in background : b.id \in Nat /\ b.id <= resizes
        /\ resizes \in Nat
    BY DEF DisplayInv, DisplayType, NumbersTell, Resizing
  <2>3. \A q \in request' : \A z \in resize : q.id # z.id
    BY <2>1, <2>2 DEF DisplayInv, NumbersTell
  <2>4. \A q \in request' : \A b \in background : q.id # b.id
    BY <2>1, <2>2 DEF DisplayInv, NumbersTell
  <2> QED
    BY <1>1, <2>2, <2>3, <2>4 DEF NumbersTell
<1>4. /\ \A z \in resize : Mine(z) = {}
      /\ \A z \in resize' : Mine(z)' = {}
  <2>1. \A z \in resize : Mine(z) = {}
    BY NoneIsMine DEF DisplayInv
  <2>2. \A z \in resize' : Mine(z)' = {}
    BY <1>3 DEF NumbersTell, Mine
  <2> QED
    BY <2>1, <2>2
<1>5. OverrideIsWanted' /\ ResizeFollows' /\ XvfbIsWanted'
  BY <1>1 DEF DisplayInv, OverrideIsWanted, ResizeFollows, XvfbIsWanted
<1>6. OverrideIsPursued'
  BY <1>1, <1>4 DEF DisplayInv, OverrideIsPursued, Queued
<1> QED
  BY <1>2, <1>3, <1>5, <1>6 DEF DisplayInv

(* A step that leaves requests and resizes alone.                          *)
LEMMA RecordingsOnly ==
    ASSUME DisplayInv, UNCHANGED <<screenVars, handlerVars, resizeVars>>,
           recording' \subseteq Recordings
    PROVE  DisplayInv'
<1>1. UNCHANGED <<xvfb, conf, override, broken, request, want, resizes, resize, background>>
  BY DEF screenVars, handlerVars, resizeVars
<1>2. DisplayType' /\ OneEach' /\ NumbersTell'
  BY <1>1 DEF DisplayInv, DisplayType, OneEach, NumbersTell
<1>3. OverrideIsWanted' /\ ResizeFollows' /\ XvfbIsWanted'
  BY <1>1 DEF DisplayInv, OverrideIsWanted, ResizeFollows, XvfbIsWanted
<1>4. OverrideIsPursued'
  BY <1>1 DEF DisplayInv, OverrideIsPursued, Queued, Mine
<1> QED
  BY <1>2, <1>3, <1>4 DEF DisplayInv

-----------------------------------------------------------------------------
(* Requests, until they have stopped the recordings.                       *)
LEMMA BeginStep ==
    ASSUME DisplayInv, NEW size \in Screens, NEW via \in {"patch", "configure"},
           NEW idle \in BOOLEAN, Begin(size, via, idle)
    PROVE  DisplayInv'
<1>1. /\ request = {} /\ resizes' = resizes + 1 /\ resizes \in Nat
      /\ UNCHANGED <<screenVars, want, recording, resizeVars>>
  BY DEF Begin, DisplayInv, DisplayType, recordVars
<1>2. request' \subseteq {[id |-> resizes', size |-> size, api |-> via, idle |-> idle,
                           at |-> "check", list |-> {}, stopped |-> {}]}
  BY DEF Begin
<1>3. \A q \in request' : q \in Requested /\ q.id = resizes + 1 /\ q.at = "check"
  BY <1>1, <1>2 DEF Requested
<1>4. \A p, q \in request' : p = q
  BY <1>2
<1> QED
  BY <1>1, <1>3, <1>4, BeforeResize DEF DisplayInv, DisplayType

(* A request, up to its resize.                                            *)
LEMMA RequestStepBefore ==
    ASSUME DisplayInv, NEW q \in request,
           Check(q) \/ List(q) \/ \E rec \in Recordings : StopOne(q, rec)
    PROVE  DisplayInv'
<1>1. /\ q \in Requested /\ q.at \in {"check", "list", "stop"}
      /\ \A p \in request : p = q
      /\ UNCHANGED <<screenVars, want, resizes, resizeVars>>
  BY DEF Check, List, StopOne, DisplayInv, DisplayType, OneEach
<1>2. recording' \subseteq Recordings
  BY DEF Check, List, StopOne, DisplayInv, DisplayType, recordVars
<1>3. PICK r : /\ request' \in {{}, {r}} /\ r \in Requested
               /\ r.id = q.id /\ r.at # "resize"
  <2>1. CASE Check(q)
    <3>1. request' \in {{}, {[q EXCEPT !.at = "list"]}}
      BY <2>1 DEF Check
    <3>2. [q EXCEPT !.at = "list"] \in Requested
      BY <1>1 DEF Requested
    <3>3. [q EXCEPT !.at = "list"].id = q.id /\ [q EXCEPT !.at = "list"].at = "list"
      BY <1>1 DEF Requested
    <3> QED
      BY <3>1, <3>2, <3>3
  <2>2. CASE List(q)
    <3> DEFINE r == [q EXCEPT !.at = "stop", !.list = recording]
    <3>1. request' = {r}
      BY <2>2 DEF List
    <3>2. r \in Requested /\ r.id = q.id /\ r.at = "stop"
      BY <1>1 DEF Requested, DisplayInv, DisplayType
    <3> QED
      BY <3>1, <3>2
  <2>3. ASSUME NEW rec \in Recordings, StopOne(q, rec)
        PROVE  \E r : /\ request' \in {{}, {r}} /\ r \in Requested
                      /\ r.id = q.id /\ r.at # "resize"
    <3> DEFINE r == [q EXCEPT !.list = @ \ {rec},
                              !.stopped = @ \cup ({rec} \cap recording)]
    <3>1. request' \in {{}, {r}}
      BY <2>3 DEF StopOne
    <3>2. r \in Requested /\ r.id = q.id /\ r.at = q.at
      BY <1>1 DEF Requested, DisplayInv, DisplayType
    <3> QED
      BY <1>1, <3>1, <3>2
  <2> QED
    BY <2>1, <2>2, <2>3
<1>4. /\ request' \subseteq Requested /\ \A p, p2 \in request' : p = p2
      /\ \A p \in request' : p.at # "resize" /\ p.id = q.id
  BY <1>3
<1>5. q.id <= resizes /\ resizes \in Nat
  BY DEF DisplayInv, DisplayType, NumbersTell
<1> QED
  BY <1>1, <1>2, <1>4, <1>5, BeforeResize

(* The fast path grants a size before Xvfb has it, and leaves a goroutine  *)
(* to pursue it.                                                           *)
LEMMA FastPathStep ==
    ASSUME DisplayInv, NEW q \in request, NEW ok \in BOOLEAN, FastPath(q, ok)
    PROVE  DisplayInv'
<1>1. /\ q \in Requested /\ q.at = "stop" /\ q.id <= resizes
      /\ \A p \in request : p = q
      /\ request' = {} /\ UNCHANGED <<xvfb, conf, broken, resizes, recording, resize>>
  BY DEF FastPath, DisplayInv, DisplayType, OneEach, NumbersTell, recordVars
<1>2. CASE UNCHANGED <<override, want, background>>
  BY <1>1, <1>2, BeforeResize DEF screenVars, resizeVars, DisplayInv, DisplayType
<1>3. CASE /\ override' = q.size /\ want' = q.size
           /\ background' = background \cup {[id |-> q.id, size |-> q.size]}
  <2>1. q.id \in Nat /\ q.size \in Screens
    BY <1>1 DEF Requested
  <2>2. DisplayType' /\ OneEach'
    BY <1>1, <1>3, <2>1 DEF DisplayInv, DisplayType, OneEach
  <2>3. NumbersTell'
    BY <1>1, <1>3, <2>1 DEF DisplayInv, NumbersTell
  <2>4. Queued'
    <3>1. PICK b : b = [id |-> q.id, size |-> q.size]
      OBVIOUS
    <3>2. b \in background' /\ b.size = override'
      BY <1>3, <3>1
    <3> QED
      BY <3>2 DEF Queued
  <2>5. OverrideIsWanted' /\ ResizeFollows'
    BY <1>1, <1>3 DEF DisplayInv, OverrideIsWanted, ResizeFollows
  <2>6. override' # 0
    BY <1>3, <2>1, DisplayAssumption
  <2>7. OverrideIsPursued' /\ XvfbIsWanted'
    BY <1>1, <2>4, <2>6 DEF OverrideIsPursued, XvfbIsWanted
  <2> QED
    BY <2>2, <2>3, <2>5, <2>7 DEF DisplayInv
<1> QED
  BY <1>2, <1>3 DEF FastPath

-----------------------------------------------------------------------------
(* xvfbResizeMu is taken by a request.                                     *)
LEMMA LockStep ==
    ASSUME DisplayInv, NEW q \in request, LockXvfb(q)
    PROVE  DisplayInv'
<1> DEFINE r == [q EXCEPT !.at = "resize"]
           z == Resize(q)
<1>1. /\ q \in Requested /\ q.id <= resizes /\ \A p \in request : p = q
      /\ resize = {} /\ resize' = {z} /\ request' = {r}
      /\ UNCHANGED <<xvfb, conf, override, broken, want, resizes, recording, background>>
  BY DEF LockXvfb, DisplayInv, DisplayType, OneEach, NumbersTell, screenVars, recordVars
<1>2. /\ r \in Requested /\ r.id = q.id /\ r.at = "resize"
      /\ z \in Resizing /\ z.id = q.id /\ z.at = "config"
  BY <1>1 DEF Requested, Resizing, Resize
<1> HIDE DEF r, z
<1>3. DisplayType' /\ OneEach'
  BY <1>1, <1>2 DEF DisplayInv, DisplayType, OneEach
<1>4. NumbersTell'
  BY <1>1, <1>2 DEF DisplayInv, NumbersTell
<1>5. Mine(z)' = {r}
  BY <1>1, <1>2 DEF Mine
<1>6. OverrideIsWanted' /\ ResizeFollows' /\ XvfbIsWanted'
  BY <1>1, <1>2 DEF DisplayInv, OverrideIsWanted, ResizeFollows, XvfbIsWanted
<1>7. OverrideIsPursued'
  BY <1>1, <1>5 DEF DisplayInv, OverrideIsPursued, Queued
<1> QED
  BY <1>3, <1>4, <1>6, <1>7 DEF DisplayInv

(* Or by a goroutine, which gives way if its size is not the override.     *)
LEMMA BackgroundStep ==
    ASSUME DisplayInv, NEW b \in background, Background(b)
    PROVE  DisplayInv'
<1> DEFINE z == Resize(b)
<1>1. /\ b.id \in Nat /\ b.size \in Screens /\ b.id <= resizes
      /\ \A q \in request : b.id # q.id
      /\ resize = {} /\ background' = background \ {b}
      /\ resize' = IF override = b.size THEN {z} ELSE {}
      /\ UNCHANGED <<xvfb, conf, override, broken, request, want, resizes, recording>>
  BY DEF Background, DisplayInv, DisplayType, NumbersTell, screenVars, handlerVars, recordVars
<1>2. z \in Resizing /\ z.id = b.id /\ z.at = "config" /\ z.size = b.size
  BY <1>1 DEF Resizing, Resize
<1>3. Mine(z)' = {}
  BY <1>1, <1>2 DEF Mine
<1> HIDE DEF z
<1>4. DisplayType' /\ OneEach'
  BY <1>1, <1>2 DEF DisplayInv, DisplayType, OneEach
<1>5. NumbersTell'
  BY <1>1, <1>2 DEF DisplayInv, NumbersTell
<1>6. OverrideIsWanted' /\ ResizeFollows' /\ XvfbIsWanted'
  BY <1>1, <1>2 DEF DisplayInv, OverrideIsWanted, ResizeFollows, XvfbIsWanted
<1>7. OverrideIsPursued'
  BY <1>1, <1>2, <1>3 DEF DisplayInv, OverrideIsPursued, Queued
<1> QED
  BY <1>4, <1>5, <1>6, <1>7 DEF DisplayInv

-----------------------------------------------------------------------------
(* resizeXvfb goes on: the same resize, for the same request or goroutine. *)
LEMMA ResizeGoesOn ==
    ASSUME DisplayInv, NEW z \in resize, Reread(z, TRUE) \/ Reread(z, FALSE)
                                         \/ Restart(z) \/ Restarted(z)
                                         \/ RestartUnnoticed(z)
    PROVE  DisplayInv'
<1>1. PICK ok \in BOOLEAN : Reread(z, ok) \/ Restart(z) \/ Restarted(z) \/ RestartUnnoticed(z)
  OBVIOUS
<1>2. /\ z \in Resizing /\ \A y \in resize : y = z
      /\ UNCHANGED <<override, broken, request, want, resizes, recording, background>>
  BY <1>1 DEF Reread, Restart, Restarted, RestartUnnoticed, DisplayInv, DisplayType, OneEach,
     handlerVars, recordVars
<1>3. PICK y : /\ resize' = {y} /\ y \in Resizing /\ y.id = z.id /\ y.size = z.size
               /\ y.at # "config" /\ y.told => conf' = z.size
               /\ y.at = "settle" /\ y.told => xvfb' = conf'
  <2>1. CASE Reread(z, ok)
    <3> DEFINE y == [z EXCEPT !.at = "restart", !.told = ok]
    <3>1. resize' = {y} /\ (ok => conf' = z.size)
      BY <2>1 DEF Reread
    <3>2. y \in Resizing /\ y.id = z.id /\ y.size = z.size /\ y.at = "restart" /\ y.told = ok
      BY <1>2 DEF Resizing
    <3> QED
      BY <3>1, <3>2
  <2>2. CASE Restart(z)
    <3> DEFINE y == [z EXCEPT !.at = "starting"]
    <3>1. resize' = {y} /\ conf' = conf /\ z.at # "config"
      BY <2>2 DEF Restart
    <3>2. y \in Resizing /\ y.id = z.id /\ y.size = z.size /\ y.at = "starting"
          /\ y.told = z.told
      BY <1>2 DEF Resizing
    <3> QED
      BY <3>1, <3>2 DEF DisplayInv, ResizeFollows
  <2>3. CASE Restarted(z)
    <3> DEFINE y == [z EXCEPT !.at = "settle"]
    <3>1. resize' = {y} /\ conf' = conf /\ xvfb' = conf /\ z.at # "config"
      BY <2>3 DEF Restarted
    <3>2. y \in Resizing /\ y.id = z.id /\ y.size = z.size /\ y.at = "settle"
          /\ y.told = z.told
      BY <1>2 DEF Resizing
    <3> QED
      BY <3>1, <3>2 DEF DisplayInv, ResizeFollows
  <2>4. CASE RestartUnnoticed(z)
    <3> DEFINE y == [z EXCEPT !.at = "settle", !.told = FALSE]
    <3>1. resize' = {y}
      BY <2>4 DEF RestartUnnoticed
    <3>2. y \in Resizing /\ y.id = z.id /\ y.size = z.size /\ y.told = FALSE
      BY <1>2 DEF Resizing
    <3> QED
      BY <3>1, <3>2
  <2> QED
    BY <1>1, <2>1, <2>2, <2>3, <2>4
<1>4. xvfb' \in Screens \cup {0} /\ conf' \in Screens
  BY <1>1, <1>2 DEF Reread, Restart, Restarted, RestartUnnoticed, DisplayInv, DisplayType, Resizing
<1>5. DisplayType' /\ OneEach'
  BY <1>2, <1>3, <1>4 DEF DisplayInv, DisplayType, OneEach
<1>6. NumbersTell'
  BY <1>2, <1>3 DEF DisplayInv, NumbersTell
<1>7. OverrideIsWanted' /\ ResizeFollows' /\ XvfbIsWanted'
  BY <1>2, <1>3 DEF DisplayInv, OverrideIsWanted, ResizeFollows, XvfbIsWanted
<1>8. OverrideIsPursued'
  <2>1. Mine(y)' = Mine(z)
    BY <1>2, <1>3 DEF Mine
  <2> QED
    BY <1>2, <1>3, <2>1 DEF DisplayInv, OverrideIsPursued, Queued
<1> QED
  BY <1>5, <1>6, <1>7, <1>8 DEF DisplayInv

(* A resize that ends takes its request with it; then nobody resizes.      *)
LEMMA ResizeEnds ==
    ASSUME DisplayInv, NEW z \in resize, EndOf(z), resize' = {},
           UNCHANGED <<conf, resizes, recording, background>>,
           xvfb' \in Screens \cup {0}, override' \in Screens \cup {0}, want' \in Screens,
           broken' \in {"no", "kept", "lost"}
    PROVE  /\ DisplayType' /\ OneEach' /\ NumbersTell' /\ ResizeFollows'
           /\ \A q \in request : q.at = "resize" <=> q \in Mine(z)
<1>1. request' = request \ Mine(z) /\ \A y \in resize : y = z
  BY DEF EndOf, DisplayInv, OneEach
<1>2. \A q \in request : q.at = "resize" <=> q \in Mine(z)
  BY DEF DisplayInv, NumbersTell, Mine
<1>3. DisplayType' /\ OneEach' /\ NumbersTell' /\ ResizeFollows'
  BY <1>1, <1>2 DEF DisplayInv, DisplayType, OneEach, NumbersTell, ResizeFollows
<1> QED
  BY <1>2, <1>3

(* A step fails: Xvfb is promised nothing until the next resize, but a     *)
(* goroutine has an override, and it stays.                                *)
LEMMA ResizeFailsStep ==
    ASSUME DisplayInv, NEW z \in resize, ResizeFails(z)
    PROVE  DisplayInv'
<1>1. /\ resize' = {} /\ EndOf(z) /\ z \in Resizing
      /\ broken' = IF Mine(z) = {} THEN "kept" ELSE "lost"
      /\ UNCHANGED <<conf, override, want, resizes, recording, background>>
  BY DEF ResizeFails, DisplayInv, DisplayType
<1>2. /\ xvfb' \in Screens \cup {0} /\ override' \in Screens \cup {0} /\ want' \in Screens
      /\ broken' \in {"kept", "lost"}
  BY <1>1 DEF ResizeFails, DisplayInv, DisplayType
<1>3. DisplayType' /\ OneEach' /\ NumbersTell' /\ ResizeFollows'
  BY <1>1, <1>2, ResizeEnds
<1>4. Mine(z) = {} => override # 0
  <2>1. Mine(z) = {} => override = z.size \/ Queued
    BY DEF DisplayInv, OverrideIsPursued
  <2>2. z.size # 0
    BY <1>1, DisplayAssumption DEF Resizing
  <2>3. Queued => override # 0
    BY DisplayAssumption DEF Queued, DisplayInv, DisplayType
  <2> QED
    BY <2>1, <2>2, <2>3
<1>5. OverrideIsWanted' /\ XvfbIsWanted'
  BY <1>1, <1>2 DEF DisplayInv, OverrideIsWanted, XvfbIsWanted
<1>6. OverrideIsPursued'
  BY <1>1, <1>2, <1>4 DEF OverrideIsPursued
<1> QED
  BY <1>3, <1>5, <1>6 DEF DisplayInv

(* A resize succeeds.  A goroutine's clears the override only if that is   *)
(* its own; one that is not has somebody who pursues it.                   *)
LEMMA SettleStep ==
    ASSUME DisplayInv, NEW z \in resize, Settle(z)
    PROVE  DisplayInv'
<1>1. /\ resize' = {} /\ EndOf(z) /\ z \in Resizing
      /\ broken' = IF z.told THEN "no" ELSE "lost"
      /\ override' = Settled(z) /\ want' = IF Mine(z) = {} THEN want ELSE z.size
      /\ UNCHANGED <<xvfb, conf, resizes, recording, background>>
  BY DEF Settle, DisplayInv, DisplayType
<1>2. z.told => xvfb = z.size
  BY DEF Settle, DisplayInv, ResizeFollows
<1>3. z.size \in Screens /\ z.size # 0 /\ z.told \in BOOLEAN
  BY <1>1, DisplayAssumption DEF Resizing
<1>4. /\ xvfb' \in Screens \cup {0} /\ override' \in Screens \cup {0} /\ want' \in Screens
  BY <1>1, <1>3 DEF Settled, DisplayInv, DisplayType
<1>5. DisplayType' /\ OneEach' /\ NumbersTell' /\ ResizeFollows'
  BY <1>1, <1>3, <1>4, ResizeEnds
<1>6. CASE Mine(z) = {} /\ override # z.size
  <2>1. override' = override /\ want' = want /\ Queued
    BY <1>1, <1>6 DEF Settled, DisplayInv, OverrideIsPursued
  <2>2. override # 0
    <3>1. PICK b \in background : b.size = override
      BY <2>1 DEF Queued
    <3> QED
      BY <3>1, DisplayAssumption DEF DisplayInv, DisplayType
  <2>3. OverrideIsWanted' /\ OverrideIsPursued' /\ XvfbIsWanted'
    BY <1>1, <2>1, <2>2
    DEF DisplayInv, OverrideIsWanted, OverrideIsPursued, XvfbIsWanted, Queued
  <2> QED
    BY <1>5, <2>3 DEF DisplayInv
<1>7. CASE ~(Mine(z) = {} /\ override # z.size)
  <2>1. override' = 0
    BY <1>1, <1>7 DEF Settled
  <2>2. want' = z.size
    BY <1>1, <1>3, <1>7 DEF DisplayInv, OverrideIsWanted
  <2>3. OverrideIsWanted' /\ OverrideIsPursued' /\ XvfbIsWanted'
    BY <1>1, <1>2, <2>1, <2>2
    DEF OverrideIsWanted, OverrideIsPursued, XvfbIsWanted
  <2> QED
    BY <1>5, <2>3 DEF DisplayInv
<1> QED
  BY <1>6, <1>7

-----------------------------------------------------------------------------
(* Xvfb runs, and nobody has asked for anything.                           *)
LEMMA DisplayInitHolds == ASSUME DisplayInit PROVE DisplayInv
<1>1. DisplayType /\ OneEach /\ NumbersTell
  BY DEF DisplayInit, DisplayType, OneEach, NumbersTell
<1>2. OverrideIsWanted /\ ResizeFollows /\ OverrideIsPursued /\ XvfbIsWanted
  BY DEF DisplayInit, OverrideIsWanted, ResizeFollows, OverrideIsPursued, XvfbIsWanted
<1> QED
  BY <1>1, <1>2 DEF DisplayInv

(* Every step of a request, of a resize or of a goroutine keeps the        *)
(* invariant.                                                              *)
LEMMA DisplayNextHolds ==
    ASSUME DisplayInv, [DisplayNext]_displayVars
    PROVE  DisplayInv'
<1>1. ASSUME NEW size \in Screens, NEW via \in {"patch", "configure"}, NEW idle \in BOOLEAN,
             Begin(size, via, idle)
      PROVE  DisplayInv'
  BY <1>1, BeginStep
<1>2. ASSUME NEW q \in request, RequestStep(q)
      PROVE  DisplayInv'
  BY <1>2, RequestStepBefore, LockStep, FastPathStep DEF RequestStep
<1>3. ASSUME NEW z \in resize, ResizeStep(z)
      PROVE  DisplayInv'
  BY <1>3, ResizeGoesOn, ResizeFailsStep, SettleStep DEF ResizeStep
<1>4. ASSUME NEW b \in background, Background(b)
      PROVE  DisplayInv'
  BY <1>4, BackgroundStep
<1>5. ASSUME NEW rec \in Recordings, Resume(rec) \/ ClientRecords(rec)
      PROVE  DisplayInv'
  <2>1. UNCHANGED <<screenVars, handlerVars, resizeVars>> /\ recording' \subseteq Recordings
    BY <1>5 DEF Resume, ClientRecords, DisplayInv, DisplayType
  <2> QED
    BY <2>1, RecordingsOnly
<1>6. CASE UNCHANGED displayVars
  <2>1. UNCHANGED <<screenVars, handlerVars, resizeVars>> /\ recording' \subseteq Recordings
    BY <1>6 DEF displayVars, recordVars, DisplayInv, DisplayType
  <2> QED
    BY <2>1, RecordingsOnly
<1> QED
  BY <1>1, <1>2, <1>3, <1>4, <1>5, <1>6 DEF DisplayNext

(* Between requests the reported size is the one granted last, whether     *)
(* Xvfb has it already, is being resized to it, or will be.                *)
LEMMA DisplayInvSuffices ==
    ASSUME DisplayInv
    PROVE  XvfbConverges
<1> SUFFICES ASSUME request = {}
             PROVE  /\ override # 0 \/ broken # "lost" => Reported = want
                    /\ broken = "no" /\ resize = {} /\ background = {} =>
                        override = 0 /\ xvfb = want
  BY DEF XvfbConverges
<1>1. CASE override # 0
  <2>1. Reported = want
    BY <1>1 DEF Reported, DisplayInv, OverrideIsWanted
  <2>2. broken = "no" => background # {} \/ resize # {}
    BY <1>1 DEF DisplayInv, OverrideIsPursued, Queued
  <2> QED
    BY <2>1, <2>2
<1>2. CASE override = 0
  <2>1. ~Queued
    BY <1>2, DisplayAssumption DEF Queued, DisplayInv, DisplayType
  <2>2. resize = {}
    <3> SUFFICES ASSUME NEW z \in resize PROVE FALSE
      OBVIOUS
    <3>1. z.size # 0 /\ Mine(z) = {}
      BY DisplayAssumption DEF Mine, DisplayInv, DisplayType, Resizing
    <3> QED
      BY <1>2, <2>1, <3>1 DEF DisplayInv, OverrideIsPursued
  <2>3. broken # "lost" => broken = "no"
    BY <1>2 DEF DisplayInv, DisplayType, OverrideIsPursued
  <2>4. broken = "no" => xvfb = want
    BY <1>2, <2>2 DEF DisplayInv, XvfbIsWanted
  <2>5. Reported = xvfb
    BY <1>2 DEF Reported
  <2> QED
    BY <1>2, <2>3, <2>4, <2>5
<1> QED
  BY <1>1, <1>2

(* The display reports the size granted last, and comes to have it         *)
(* (backgroundResizeXvfb, clearViewportOverride), whatever order fast      *)
(* requests, those that resize within the request, their goroutines and    *)
(* failures come in, up to the failures that XvfbConverges excepts.        *)
THEOREM DisplayConverges == DisplaySpec => []XvfbConverges
<1>1. DisplayInit => DisplayInv
  BY DisplayInitHolds
<1>2. DisplayInv /\ [DisplayNext]_displayVars => DisplayInv'
  BY DisplayNextHolds
<1>3. DisplayInv => XvfbConverges
  BY DisplayInvSuffices
<1> QED
  BY <1>1, <1>2, <1>3, PTL DEF DisplaySpec

-----------------------------------------------------------------------------
(* Fork identity. *)

(* The inductive invariant: the stages before the API answers, and those   *)
(* after the wrapper has taken an identity; how far a request is that has  *)
(* written its payload, and the requests that were admitted.               *)
Early == {"services", "seeded", "prepared", "armed"}
Late == {"taken", "applied", "probing", "up"}
Written == {"waiting", "matched", "204", "500", "lost"}
Joined == {p \in Posts : post[p] \notin {"new", "409"}}

ForkType ==
    /\ wait \in BOOLEAN /\ api \in BOOLEAN /\ apiLife \in Nat
    /\ bootStage \in Early \cup {"waiting", "exited"} \cup Late
    /\ post \in [Posts -> {"new", "409", "admitted", "reset"} \cup Written]
    /\ name \in [Posts -> Names \cup {Nobody}]
    /\ \A p \in Posts : post[p] = "new" <=> name[p] = Nobody

(* Where no identity is awaited, requests are turned away.                 *)
NothingAwaited == \A p \in Posts : post[p] \in {"new", "409"}

(* Where one is, the API runs once the wrapper waits for it.               *)
ApiIsLate ==
    /\ api => bootStage \in Late \cup {"waiting"}
    /\ apiLife > 1 => bootStage \in Late \cup {"waiting", "exited"}
    /\ bootStage \in Early => identity = Nobody /\ \A p \in Posts : post[p] = "new"

WrittenBy(n) == \E p \in Posts : post[p] \in Written /\ name[p] = n

(* The files of an earlier start are gone.                                 *)
FilesNameIt ==
    bootStage \in {"armed", "waiting"} \cup Late =>
        /\ readyFile
        /\ payload # Nobody => WrittenBy(payload)
        /\ marker \in {Nobody, identity}
        /\ marker # Nobody => bootStage = "up"

(* One identity is taken, of a request, and stays.                         *)
TakenOnce ==
    /\ bootStage \in Late => identity # Nobody
    /\ bootStage = "waiting" => identity = Nobody
    /\ identity # Nobody => WrittenBy(identity)

(* What the API remembers, or is about to answer, comes from that identity.*)
MemoryIsOwn ==
    /\ hook \in {NoHook, Nobody, identity}
    /\ bound \in {Nobody, identity} /\ served \in {Nobody, identity}
    /\ read.by \in {"s2", "token"} => read.saw = identity /\ identity # Nobody
    /\ read.by = "config" => read.saw # Nobody
    /\ \/ token \in {NoToken, BootToken}
       \/ identity # Nobody /\ \E p \in Posts : name[p] # Nobody /\ token = TokenOf(name[p])

(* What the services run with, and who was told so.                        *)
ServicesRunWithIt ==
    /\ bootStage \in {"armed", "waiting", "taken", "applied"} => envoy = Stopped
    /\ bootStage \in {"applied", "probing", "up"} => env = Env(identity)
    /\ bootStage \in {"probing", "up"} => \A k \in Credentials : envoy[k] \in {Nobody, identity}
    /\ \A p \in Posts : post[p] \in {"matched", "204"} =>
        name[p] = identity /\ env = Env(identity) /\ bootStage \in {"up", "exited"}

AloneItStays ==
    bootStage \in Late /\ (\A p, q \in Joined : p = q) =>
        payload = identity /\ (bootStage = "up" => marker = identity)

Awaited ==
    /\ ApiIsLate /\ FilesNameIt /\ TakenOnce
    /\ MemoryIsOwn /\ ServicesRunWithIt /\ AloneItStays

ForkInv == ForkType /\ IF wait THEN Awaited ELSE NothingAwaited

-----------------------------------------------------------------------------
(* A payload sets the variables it has to itself, and clears the others.   *)
LEMMA EnvIsItsOwn ==
    ASSUME NEW n PROVE \A k \in Keys : Env(n)[k] \in {n, Nobody}
  BY DEF Env

(* Up to the ready file nobody has named an identity.                      *)
LEMMA EarlySteps ==
    ASSUME ForkType, wait, Awaited,
           SeedEnvoy \/ PageLoaded \/ Arm \/ StartApi
    PROVE  Awaited'
<1> USE DEF SeedEnvoy, PageLoaded, Arm, StartApi, At, EnvoyAfterInit, Stopped,
       ForkType, Awaited, wrapperVars, handoff, postVars, memoryVars, Early, Late
<1>1. ApiIsLate'
  <2>1. CASE SeedEnvoy \/ PageLoaded
    <3>1. /\ bootStage \in Early /\ bootStage' \in Early
          /\ UNCHANGED <<api, apiLife, identity, post>>
      BY <2>1
    <3> QED
      BY <3>1, ApiIsLate DEF ApiIsLate
  <2>2. CASE Arm
    BY <2>2 DEF ApiIsLate
  <2>3. CASE StartApi
    BY <2>3 DEF ApiIsLate
  <2> QED
    BY <2>1, <2>2, <2>3
<1>2. FilesNameIt'
  BY DEF FilesNameIt, ApiIsLate, TakenOnce, WrittenBy, Written
<1>3. TakenOnce'
  BY DEF TakenOnce, ApiIsLate, FilesNameIt, WrittenBy, Written
<1>4. MemoryIsOwn'
  BY DEF MemoryIsOwn, TakenOnce, ApiIsLate, FilesNameIt, WrittenBy
<1>5. ServicesRunWithIt'
  BY DEF ServicesRunWithIt, ApiIsLate, TakenOnce
<1>6. AloneItStays'
  BY DEF AloneItStays, ApiIsLate, Joined
<1> QED
  BY <1>1, <1>2, <1>3, <1>4, <1>5, <1>6

(* The payload that is taken was written by a request.                     *)
LEMMA TakePayloadStep ==
    ASSUME ForkType, wait, Awaited,
           TakePayload
    PROVE  Awaited'
<1> USE DEF TakePayload, At, ForkType, Awaited, wrapperVars, handoff, postVars,
       memoryVars, Early, Late
<1>1. ApiIsLate'
  BY DEF ApiIsLate, TakenOnce
<1>2. FilesNameIt'
  BY DEF FilesNameIt, ApiIsLate, TakenOnce, WrittenBy, Written
<1>3. TakenOnce'
  BY DEF TakenOnce, ApiIsLate, FilesNameIt, WrittenBy, Written
<1>4. MemoryIsOwn'
  BY DEF MemoryIsOwn, TakenOnce, ApiIsLate, FilesNameIt, WrittenBy
<1>5. ServicesRunWithIt'
  BY DEF ServicesRunWithIt, ApiIsLate, TakenOnce
<1>6. AloneItStays'
  BY DEF AloneItStays, ApiIsLate, Joined
<1> QED
  BY <1>1, <1>2, <1>3, <1>4, <1>5, <1>6

(* The environment is replaced before the services run with it, and the    *)
(* marker is written after that.                                           *)
LEMMA LateSteps ==
    ASSUME ForkType, wait, Awaited,
           Apply \/ InitEnvoy \/ FinishBoot
    PROVE  Awaited'
<1> USE DEF Apply, InitEnvoy, FinishBoot, At, EnvoyAfterInit, Stopped, ForkType,
       Awaited, wrapperVars, handoff, postVars, memoryVars, Early, Late
<1>1. ApiIsLate'
  BY DEF ApiIsLate, TakenOnce
<1>2. FilesNameIt'
  BY DEF FilesNameIt, ApiIsLate, TakenOnce, WrittenBy, Written
<1>3. TakenOnce'
  BY DEF TakenOnce, ApiIsLate, FilesNameIt, WrittenBy, Written
<1>4. MemoryIsOwn'
  BY DEF MemoryIsOwn, TakenOnce, ApiIsLate, FilesNameIt, WrittenBy
<1>5. ServicesRunWithIt'
  <2>1. CASE Apply
    BY <2>1 DEF ServicesRunWithIt
  <2>2. CASE InitEnvoy
    <3>1. \A k \in Credentials : env[k] \in {Nobody, identity}
      BY <2>2, EnvIsItsOwn DEF ServicesRunWithIt, Credentials, Keys
    <3>2. \A k \in Credentials : envoy[k] = Nobody
      BY <2>2 DEF ServicesRunWithIt
    <3>3. \A k \in Credentials : envoy'[k] \in {Nobody, identity}
      BY <2>2, <3>1, <3>2
    <3> QED
      BY <2>2, <3>3 DEF ServicesRunWithIt
  <2>3. CASE FinishBoot
    BY <2>3 DEF ServicesRunWithIt
  <2> QED
    BY <2>1, <2>2, <2>3
<1>6. AloneItStays'
  BY DEF AloneItStays, ApiIsLate, Joined
<1> QED
  BY <1>1, <1>2, <1>3, <1>4, <1>5, <1>6

(* The wrapper ends, and with it everything.                               *)
LEMMA ExitStep ==
    ASSUME ForkType, wait, Awaited,
           Exit
    PROVE  Awaited'
<1> USE DEF Exit, Stopped, Unread, ForkType, Awaited, wrapperVars, handoff,
       postVars, memoryVars, Early, Late
<1>1. ApiIsLate'
  BY DEF ApiIsLate, TakenOnce
<1>2. FilesNameIt'
  BY DEF FilesNameIt, ApiIsLate, TakenOnce, WrittenBy, Written
<1>3. TakenOnce'
  BY DEF TakenOnce, ApiIsLate, FilesNameIt, WrittenBy, Written
<1>4. MemoryIsOwn'
  BY DEF MemoryIsOwn, TakenOnce, ApiIsLate, FilesNameIt, WrittenBy
<1>5. ServicesRunWithIt'
  BY DEF ServicesRunWithIt, ApiIsLate, TakenOnce
<1>6. AloneItStays'
  BY DEF AloneItStays, ApiIsLate, Joined
<1> QED
  BY <1>1, <1>2, <1>3, <1>4, <1>5, <1>6

(* The API loses its memory, and what it had admitted.                     *)
LEMMA CrashSteps ==
    ASSUME ForkType, wait, Awaited,
           ApiCrash \/ ApiRestart
    PROVE  Awaited'
<1> USE DEF ApiCrash, ApiRestart, Unread, ForkType, Awaited, wrapperVars,
       handoff, postVars, memoryVars, Early, Late
<1>1. ApiIsLate'
  BY DEF ApiIsLate, TakenOnce
<1>2. FilesNameIt'
  BY DEF FilesNameIt, ApiIsLate, TakenOnce, WrittenBy, Written
<1>3. TakenOnce'
  BY DEF TakenOnce, ApiIsLate, FilesNameIt, WrittenBy, Written
<1>4. MemoryIsOwn'
  <2>1. MemoryIsOwn /\ UNCHANGED <<name, identity, served, token>>
    OBVIOUS
  <2>2. \/ hook' = NoHook /\ bound' = Nobody /\ read' = Unread
        \/ UNCHANGED <<hook, bound, read>>
    OBVIOUS
  <2> HIDE DEF ApiCrash, ApiRestart, Unread, ForkType, Awaited, wrapperVars, handoff,
       postVars, memoryVars, Early, Late
  <2>3. CASE hook' = NoHook /\ bound' = Nobody /\ read' = Unread
    <3>1. read'.by = "none"
      BY <2>3 DEF Unread
    <3> QED
      BY <2>1, <2>3, <3>1 DEF MemoryIsOwn
  <2>4. CASE UNCHANGED <<hook, bound, read>>
    BY <2>1, <2>4 DEF MemoryIsOwn
  <2> QED
    BY <2>2, <2>3, <2>4
<1>5. ServicesRunWithIt'
  BY DEF ServicesRunWithIt, ApiIsLate, TakenOnce
<1>6. AloneItStays'
  <2>1. Joined' = Joined
    BY DEF Joined
  <2>2. AloneItStays /\ UNCHANGED <<bootStage, payload, identity, marker>>
    OBVIOUS
  <2> HIDE DEF ApiCrash, ApiRestart, Unread, ForkType, Awaited, wrapperVars, handoff,
       postVars, memoryVars
  <2> QED
    BY <2>1, <2>2 DEF AloneItStays
<1> QED
  BY <1>1, <1>2, <1>3, <1>4, <1>5, <1>6

(* A reader of two files may see them change in between: what it makes of  *)
(* them is the identity, or nobody's.                                      *)
LEMMA ReaderRemembers ==
    ASSUME ForkType, wait, Awaited,
           Resolve \/ ResolveFromPayload \/ AskToken \/ TokenFromPayload \/ AskConfig \/ Config
    PROVE  MemoryIsOwn'
<1>1. /\ readyFile /\ marker \in {Nobody, identity}
      /\ payload # Nobody => \E p \in Posts : payload = name[p]
      /\ UNCHANGED <<identity, name, hook>>
  BY DEF Resolve, ResolveFromPayload, AskToken, TokenFromPayload, AskConfig, Config, ForkType,
     Awaited, ApiIsLate, FilesNameIt, WrittenBy, wrapperVars, postVars
<1>2. MemoryIsOwn
  BY DEF Awaited
<1>3. CASE Resolve
  BY <1>1, <1>2, <1>3 DEF Resolve, Reads, MemoryIsOwn
<1>4. CASE ResolveFromPayload
  <2>1. /\ read.saw = identity /\ read' = Unread /\ UNCHANGED <<served, token>>
        /\ bound' \in {Nobody, Env(identity)["stream"]}
    BY <1>2, <1>4 DEF ResolveFromPayload, Agrees, MemoryIsOwn
  <2>2. bound' \in {Nobody, identity}
    BY <2>1, EnvIsItsOwn DEF Keys
  <2> QED
    BY <1>1, <1>2, <2>1, <2>2 DEF MemoryIsOwn, Unread
<1>5. CASE AskToken
  <2>1. UNCHANGED <<bound, served>>
    BY <1>5 DEF AskToken
  <2>2. CASE marker # Nobody
    <3>1. read' = [by |-> "token", saw |-> identity] /\ identity # Nobody /\ token' = token
      BY <1>1, <1>5, <2>2 DEF AskToken, Reads
    <3> QED
      BY <1>1, <1>2, <2>1, <3>1 DEF MemoryIsOwn
  <2>3. CASE marker = Nobody
    <3>1. read' = read /\ token' = BootToken
      BY <1>5, <2>3 DEF AskToken
    <3> QED
      BY <1>1, <1>2, <2>1, <3>1 DEF MemoryIsOwn
  <2> QED
    BY <2>2, <2>3
<1>6. CASE TokenFromPayload
  <2>1. /\ identity # Nobody /\ read' = Unread /\ UNCHANGED <<bound, served>>
        /\ token' = IF payload = Nobody THEN BootToken ELSE TokenOf(payload)
    BY <1>2, <1>6 DEF TokenFromPayload, MemoryIsOwn
  <2> QED
    BY <1>1, <1>2, <2>1 DEF MemoryIsOwn, Unread
<1>7. CASE AskConfig
  <2>1. /\ read' = [by |-> "config", saw |-> payload] /\ payload # Nobody
        /\ UNCHANGED <<bound, served, token>>
    BY <1>7 DEF AskConfig, Reads
  <2> QED
    BY <1>1, <1>2, <2>1 DEF MemoryIsOwn
<1>8. CASE Config
  <2>1. /\ read.saw # Nobody /\ read' = Unread /\ UNCHANGED <<bound, token>>
        /\ served' = IF marker = read.saw THEN read.saw ELSE served
    BY <1>2, <1>8 DEF Config, MatchesMarker, MemoryIsOwn
  <2> QED
    BY <1>1, <1>2, <2>1 DEF MemoryIsOwn, Unread
<1> QED
  BY <1>3, <1>4, <1>5, <1>6, <1>7, <1>8

(* They only read.                                                         *)
LEMMA ReaderSteps ==
    ASSUME ForkType, wait, Awaited,
           Resolve \/ ResolveFromPayload \/ AskToken \/ TokenFromPayload \/ AskConfig \/ Config
    PROVE  Awaited'
<1>1. /\ MemoryIsOwn'
      /\ UNCHANGED <<bootStage, env, envoy, identity, readyFile, payload, marker, apiLife, api, post, name>>
  BY ReaderRemembers
  DEF Resolve, ResolveFromPayload, AskToken, TokenFromPayload, AskConfig, Config, wrapperVars,
      handoff, postVars
<1>2. ApiIsLate' /\ FilesNameIt' /\ TakenOnce'
  BY <1>1 DEF Awaited, ApiIsLate, FilesNameIt, TakenOnce, WrittenBy
<1>3. ServicesRunWithIt' /\ AloneItStays'
  BY <1>1 DEF Awaited, ServicesRunWithIt, AloneItStays, Joined
<1> QED
  BY <1>1, <1>2, <1>3 DEF Awaited

(* A request that is admitted joins those that were; who has written his   *)
(* payload keeps having written it.                                        *)
LEMMA WrittenStays ==
    ASSUME ForkType, NEW p \in Posts, Request(p)
    PROVE  \A n : WrittenBy(n) => WrittenBy(n)'
<1> SUFFICES ASSUME NEW n, NEW q \in Posts, post[q] \in Written, name[q] = n
             PROVE  post'[q] \in Written /\ name'[q] = n
  BY DEF WrittenBy
<1> QED
  BY DEF Request, Admit, ResetMarker, WritePayload, SeeMarker, TimeOut, Answer, Moves, ForkType,
     Written, postVars

(* A request leaves the wrapper alone, and the API only answers while it   *)
(* runs.                                                                   *)
LEMMA RequestFrame ==
    ASSUME ForkType, wait, Awaited, NEW p \in Posts, Request(p)
    PROVE  /\ UNCHANGED <<bootStage, env, envoy, identity, readyFile, apiLife, api, bound, read, served, token>>
           /\ bootStage \in Late \cup {"waiting"} /\ bootStage \notin Early
<1>1. api /\ UNCHANGED <<bootStage, env, envoy, identity, readyFile, apiLife, api, bound, read, served, token>>
  BY DEF Request, Admit, ResetMarker, WritePayload, SeeMarker, TimeOut, Answer, wrapperVars,
     handoff, memoryVars
<1> QED
  BY <1>1 DEF Awaited, ApiIsLate, Late, Early

(* Only one whose payload the wrapper has taken sees its marker.           *)
LEMMA MarkerIsSeen ==
    ASSUME ForkType, wait, Awaited, NEW p \in Posts, SeeMarker(p)
    PROVE  name[p] = identity /\ bootStage = "up"
<1>1. marker = name[p] /\ name[p] # Nobody /\ api
  BY DEF SeeMarker, MatchesMarker, Moves, ForkType
<1> QED
  BY <1>1 DEF Awaited, ApiIsLate, FilesNameIt

(* Requests write the files, each step by step, and speak of the identity  *)
(* only when the marker names theirs.                                      *)
LEMMA RequestSteps ==
    ASSUME ForkType, wait, Awaited, NEW p \in Posts, Request(p)
    PROVE  Awaited'
<1>1. /\ UNCHANGED <<bootStage, env, envoy, identity, readyFile, apiLife, api, bound, read, served, token>>
      /\ bootStage \in Late \cup {"waiting"} /\ bootStage \notin Early
  BY RequestFrame
<1>2. \A n : WrittenBy(n) => WrittenBy(n)'
  BY WrittenStays
<1>3. ApiIsLate'
  BY <1>1 DEF Awaited, ApiIsLate
<1>4. TakenOnce'
  BY <1>1, <1>2 DEF Awaited, TakenOnce
<1>5. FilesNameIt'
  <2>1. marker' \in {marker, Nobody}
    BY DEF Request, Admit, ResetMarker, WritePayload, SeeMarker, TimeOut, Answer, handoff
  <2>2. CASE WritePayload(p)
    <3>1. payload' = name[p] /\ post'[p] = "waiting" /\ name' = name
      BY <2>2 DEF WritePayload, Moves, ForkType
    <3>2. WrittenBy(payload)'
      BY <3>1 DEF WrittenBy, Written
    <3> QED
      BY <1>1, <2>1, <3>2 DEF Awaited, FilesNameIt, Late
  <2>3. CASE ~WritePayload(p)
    <3>1. payload' = payload
      BY <2>3 DEF Request, Admit, ResetMarker, SeeMarker, TimeOut, Answer, handoff
    <3> QED
      BY <1>1, <1>2, <2>1, <3>1 DEF Awaited, FilesNameIt
  <2> QED
    BY <2>2, <2>3
<1>6. MemoryIsOwn'
  <2>1. \A q \in Posts : name[q] # Nobody => name'[q] = name[q]
    BY DEF Request, Admit, ResetMarker, WritePayload, SeeMarker, TimeOut, Answer, Moves, ForkType,
       postVars
  <2>2. hook' \in {hook, Nobody, identity}
    <3>1. CASE Answer(p)
      <4>1. name[p] = identity /\ hook' = Env(name[p])["stream"]
        BY <3>1 DEF Answer, Moves, Awaited, ServicesRunWithIt
      <4> QED
        BY <4>1, EnvIsItsOwn DEF Keys
    <3>2. CASE ~Answer(p)
      BY <3>2 DEF Request, Admit, ResetMarker, WritePayload, SeeMarker, TimeOut, memoryVars
    <3> QED
      BY <3>1, <3>2
  <2> QED
    BY <1>1, <2>1, <2>2 DEF Awaited, MemoryIsOwn
<1>7. ServicesRunWithIt'
  <2>1. ASSUME NEW q \in Posts, post'[q] \in {"matched", "204"}
        PROVE  name'[q] = identity /\ env = Env(identity) /\ bootStage \in {"up", "exited"}
    <3>1. CASE SeeMarker(p) /\ q = p
      BY <3>1, MarkerIsSeen DEF Awaited, ServicesRunWithIt, SeeMarker
    <3>2. CASE ~(SeeMarker(p) /\ q = p)
      <4>1. post[q] \in {"matched", "204"} /\ name'[q] = name[q]
        BY <2>1, <3>2
        DEF Request, Admit, ResetMarker, WritePayload, SeeMarker, TimeOut, Answer, Moves, ForkType
      <4> QED
        BY <4>1 DEF Awaited, ServicesRunWithIt
    <3> QED
      BY <3>1, <3>2
  <2> QED
    BY <1>1, <2>1 DEF Awaited, ServicesRunWithIt
<1>8. AloneItStays'
  <2>1. SUFFICES ASSUME bootStage \in Late, \A a, b \in Joined' : a = b
                 PROVE  payload' = identity /\ (bootStage = "up" => marker' = identity)
    BY <1>1 DEF AloneItStays
  <2>2. PICK q \in Posts : post[q] \in Written /\ name[q] = identity
    BY <2>1 DEF Awaited, TakenOnce, WrittenBy
  <2>3. q \in Joined /\ q \in Joined' /\ Joined \subseteq Joined'
    BY <2>2 DEF Joined, Written, Request, Admit, ResetMarker, WritePayload, SeeMarker, TimeOut,
       Answer, Moves, ForkType
  <2>4. payload = identity /\ (bootStage = "up" => marker = identity)
    BY <2>1, <2>3 DEF Awaited, AloneItStays
  <2>5. ~ResetMarker(p) /\ ~WritePayload(p)
    <3>1. ASSUME ResetMarker(p) \/ WritePayload(p)
          PROVE  FALSE
      <4>1. p \in Joined /\ post[p] \notin Written
        BY <3>1 DEF ResetMarker, WritePayload, Moves, Joined, Written
      <4> QED
        BY <2>1, <2>2, <2>3, <4>1
    <3> QED
      BY <3>1
  <2> QED
    BY <2>4, <2>5 DEF Request, Admit, SeeMarker, TimeOut, Answer, handoff
<1> QED
  BY <1>3, <1>4, <1>5, <1>6, <1>7, <1>8 DEF Awaited

-----------------------------------------------------------------------------
(* A step of the API, of a request or of a reader.                         *)
ApiStep ==
    \/ \E p \in Posts : Request(p)
    \/ Resolve \/ ResolveFromPayload \/ AskToken \/ TokenFromPayload \/ AskConfig \/ Config

(* The wrapper's steps keep what every variable is.                        *)
LEMMA WrapperType ==
    ASSUME ForkType, Wrapper \/ ApiCrash \/ ApiRestart
    PROVE  ForkType'
<1>1. wait' = wait /\ name' = name
  BY DEF Wrapper, SeedEnvoy, PageLoaded, Arm, StartApi, TakePayload, Apply, InitEnvoy, FinishBoot,
     Exit, ApiCrash, ApiRestart, postVars
<1>2. api' \in BOOLEAN
  BY DEF Wrapper, SeedEnvoy, PageLoaded, Arm, StartApi, TakePayload, Apply, InitEnvoy, FinishBoot,
     Exit, ApiCrash, ApiRestart, ForkType
<1>3. apiLife' \in Nat
  BY DEF Wrapper, SeedEnvoy, PageLoaded, Arm, StartApi, TakePayload, Apply, InitEnvoy, FinishBoot,
     Exit, ApiCrash, ApiRestart, ForkType
<1>4. bootStage' \in Early \cup {"waiting", "exited"} \cup Late
  BY DEF Wrapper, SeedEnvoy, PageLoaded, Arm, StartApi, TakePayload, Apply, InitEnvoy, FinishBoot,
     Exit, ApiCrash, ApiRestart, ForkType, At, Early, Late, wrapperVars
<1>5. /\ post' \in [Posts -> {"new", "409", "admitted", "reset"} \cup Written]
      /\ \A p \in Posts : post'[p] = "new" <=> post[p] = "new"
  BY DEF Wrapper, SeedEnvoy, PageLoaded, Arm, StartApi, TakePayload, Apply, InitEnvoy, FinishBoot,
     Exit, ApiCrash, ApiRestart, ForkType, Written, postVars
<1> QED
  BY <1>1, <1>2, <1>3, <1>4, <1>5 DEF ForkType

(* So do the steps of the API.                                             *)
LEMMA ApiType ==
    ASSUME ForkType, ApiStep
    PROVE  ForkType'
<1>1. UNCHANGED <<wait, bootStage, apiLife, api>>
  BY DEF ApiStep, Request, Admit, ResetMarker, WritePayload, SeeMarker, TimeOut, Answer, Resolve,
     ResolveFromPayload, AskToken, TokenFromPayload, AskConfig, Config, wrapperVars
<1>2. /\ post' \in [Posts -> {"new", "409", "admitted", "reset"} \cup Written]
      /\ name' \in [Posts -> Names \cup {Nobody}]
      /\ \A p \in Posts : post'[p] = "new" <=> name'[p] = Nobody
  <2>1. CASE \E p \in Posts : Request(p)
    <3>1. PICK p \in Posts : Request(p)
      BY <2>1
    <3>2. CASE \E n \in Names : Admit(p, n)
      BY <3>2, ForkAssumption DEF Admit, Moves, ForkType
    <3>3. CASE ~\E n \in Names : Admit(p, n)
      BY <3>1, <3>3 DEF Request, ResetMarker, WritePayload, SeeMarker, TimeOut, Answer, Moves,
         ForkType, Written
    <3> QED
      BY <3>2, <3>3
  <2>2. CASE ~\E p \in Posts : Request(p)
    BY <2>2 DEF ApiStep, Resolve, ResolveFromPayload, AskToken, TokenFromPayload, AskConfig, Config,
       postVars, ForkType
  <2> QED
    BY <2>1, <2>2
<1> QED
  BY <1>1, <1>2 DEF ForkType

(* Where nothing is awaited no request gets past the first question.       *)
LEMMA NothingStays ==
    ASSUME ForkType, ~wait, NothingAwaited, ForkNext
    PROVE  NothingAwaited'
<1>1. CASE \E p \in Posts : Request(p)
  BY <1>1 DEF Request, Admit, ResetMarker, WritePayload, SeeMarker, TimeOut, Answer, Moves,
     ForkType, NothingAwaited
<1>2. CASE Exit \/ ApiCrash
  BY <1>2 DEF Exit, ApiCrash, NothingAwaited
<1>3. CASE ~(Exit \/ ApiCrash) /\ ~\E p \in Posts : Request(p)
  <2>1. post' = post
    BY <1>3 DEF ForkNext, Wrapper, SeedEnvoy, PageLoaded, Arm, StartApi, TakePayload, Apply, InitEnvoy,
       FinishBoot, ApiRestart, Resolve, ResolveFromPayload, AskToken, TokenFromPayload, AskConfig, Config,
       postVars
  <2> QED
    BY <2>1 DEF NothingAwaited
<1> QED
  BY <1>1, <1>2, <1>3

(* A container may start with the files of an earlier one.                 *)
LEMMA ForkInitHolds ==
    ForkInit => ForkInv
<1> SUFFICES ASSUME ForkInit
             PROVE  ForkInv
  OBVIOUS
<1>1. ForkType
  BY DEF ForkInit, ForkType, Early, Late, Written
<1>2. Awaited
  BY DEF ForkInit, Awaited, ApiIsLate, FilesNameIt, TakenOnce, MemoryIsOwn, ServicesRunWithIt,
     AloneItStays, Early, Late, Unread, NoHook
<1>3. NothingAwaited
  BY DEF ForkInit, NothingAwaited
<1> QED
  BY <1>1, <1>2, <1>3 DEF ForkInv

(* Every step keeps the invariant, and so does the passing of time.        *)
LEMMA ForkNextHolds ==
    ASSUME ForkInv, [ForkNext]_forkVars
    PROVE  ForkInv'
<1>1. CASE ForkNext
  <2>1. wait' = wait
    BY <1>1 DEF ForkNext, Wrapper, SeedEnvoy, PageLoaded, Arm, StartApi, TakePayload, Apply, InitEnvoy,
       FinishBoot, Exit, ApiCrash, ApiRestart, Request, Admit, ResetMarker, WritePayload, SeeMarker, TimeOut,
       Answer, Resolve, ResolveFromPayload, AskToken, TokenFromPayload, AskConfig, Config
  <2>2. ForkType'
    BY <1>1, WrapperType, ApiType DEF ForkInv, ForkNext, ApiStep
  <2>3. CASE wait
    <3>1. ForkType /\ Awaited
      BY <2>3 DEF ForkInv
    <3>2. Awaited'
      BY <1>1, <2>3, <3>1, EarlySteps, TakePayloadStep, LateSteps, ExitStep, CrashSteps, RequestSteps,
         ReaderSteps DEF ForkNext, Wrapper
    <3> QED
      BY <2>1, <2>2, <2>3, <3>2 DEF ForkInv
  <2>4. CASE ~wait
    BY <1>1, <2>1, <2>2, <2>4, NothingStays DEF ForkInv
  <2> QED
    BY <2>3, <2>4
<1>2. CASE UNCHANGED forkVars
  <2> USE <1>2 DEF forkVars, wrapperVars, handoff, postVars, memoryVars
  <2>1. ForkType' = ForkType /\ NothingAwaited' = NothingAwaited
    BY DEF ForkType, NothingAwaited
  <2>2. /\ ApiIsLate' = ApiIsLate /\ FilesNameIt' = FilesNameIt /\ TakenOnce' = TakenOnce
        /\ MemoryIsOwn' = MemoryIsOwn /\ ServicesRunWithIt' = ServicesRunWithIt
        /\ AloneItStays' = AloneItStays
    BY DEF ApiIsLate, FilesNameIt, TakenOnce, WrittenBy, MemoryIsOwn, ServicesRunWithIt,
       AloneItStays, Joined
  <2> QED
    BY <2>1, <2>2 DEF ForkInv, Awaited
<1> QED
  BY <1>1, <1>2

-----------------------------------------------------------------------------
(* One request alone is every request that was admitted.                   *)
LEMMA AloneIsAll ==
    ASSUME Cardinality(Joined) = 1
    PROVE  \A p, q \in Joined : p = q
<1>1. IsFiniteSet(Joined)
  BY FS_Subset, ForkAssumption DEF Joined
<1>2. PICK p : Joined = {p}
  BY <1>1, FS_Singleton
<1> QED
  BY <1>2

(* What the invariant means for those outside.                             *)
LEMMA InvIsItself ==
    ASSUME ForkInv
    PROVE  ForkIsItself
<1>1. IdentityIsOwn
  <2> SUFFICES ASSUME wait PROVE  IdentityIsOwn
    BY DEF IdentityIsOwn
  <2>1. TokenIsOwn
    <3>1. CASE token \in {NoToken, BootToken}
      BY <3>1 DEF TokenIsOwn
    <3>2. CASE token \notin {NoToken, BootToken}
      <4>1. identity # Nobody
        BY <3>2 DEF ForkInv, Awaited, MemoryIsOwn
      <4>2. PICK p \in Posts : token = TokenOf(name[p])
        BY <3>2 DEF ForkInv, Awaited, MemoryIsOwn
      <4>3. /\ token["name"] = name[p]
            /\ token["jwt"] = IF "jwt" \in Gives[name[p]] THEN name[p] ELSE Boot
        BY <4>2 DEF TokenOf, Credentials
      <4> QED
        BY <4>1, <4>3 DEF TokenIsOwn
    <3> QED
      BY <3>1, <3>2
  <2> QED
    BY <2>1
    DEF ForkInv, IdentityIsOwn, Awaited, MemoryIsOwn, ServicesRunWithIt, Stopped, Credentials
<1>2. AcceptedIsApplied
  BY DEF ForkInv, AcceptedIsApplied, Awaited, NothingAwaited, ServicesRunWithIt
<1>3. FilesStay
  <2>1. SUFFICES ASSUME bootStage = "up", wait, Cardinality(Joined) = 1
                 PROVE  marker = identity /\ payload = identity
    BY DEF FilesStay, Joined
  <2> QED
    BY <2>1, AloneIsAll DEF ForkInv, Awaited, AloneItStays, Late
<1> QED
  BY <1>1, <1>2, <1>3 DEF ForkIsItself

(* A fork speaks for itself only: the stream, the extension and Envoy have *)
(* its identity or none, and the provider (resolve) tells its name with    *)
(* its JWT, or with the JWT of the source of the snapshot if the payload   *)
(* brings none.  The control plane hears of success (forkIdentityHandler)  *)
(* only when applyForkIdentityPayload is through, and one request leaves   *)
(* files that a later life finds.                                          *)
THEOREM ForkSpeaksForItself == ForkSpec => []ForkIsItself
<1>1. ForkInit => ForkInv
  BY ForkInitHolds
<1>2. ForkInv /\ [ForkNext]_forkVars => ForkInv'
  BY ForkNextHolds
<1>3. ForkInv => ForkIsItself
  BY InvIsItself
<1> QED
  BY <1>1, <1>2, <1>3, PTL DEF ForkSpec

-----------------------------------------------------------------------------
(* The configuration of Chromium. *)

(* The inductive invariant: what the requests that stand have written, and *)
(* what the one that has the lock has added to it.                         *)
Contents == {b.token : b \in Bodies}
Answers == {"ok", "refused", "failed", "kept"}
Steps == {"new", "commit", "write", "load", "stop", "start", "wait", "relocate",
          "verify", "done"}

Standing(p) == {body[q].token : q \in {w \in Requests : Stands(w) /\ p \in body[w].places}}
Own(r, p) == IF p \in body[r].places THEN {body[r].token} ELSE {}

ConfigType ==
    /\ body \in [Requests -> Bodies] /\ pc \in [Requests -> Steps]
    /\ stage \in [Requests -> Stages] /\ outcome \in [Requests -> Answers]
    /\ answer \in [Requests -> Answers \cup {"none"}]
    /\ files \in [Places -> SUBSET Contents] /\ snap \in [Places -> SUBSET Contents]

(* chromiumConfigMu: a request has it from its first step to its answer.   *)
OneConfigures ==
    /\ \A r \in Requests : r \in holder <=> pc[r] \notin {"new", "done"}
    /\ holder \subseteq Requests /\ \A q, r \in holder : q = r
    /\ \A r \in Requests : answer[r] # "none" <=> pc[r] = "done"
    /\ \A r \in Requests : pc[r] = "new" => outcome[r] = "ok" /\ stage[r] = "first"

Untouched == \A p \in Places : files[p] = Standing(p)
Added(r) == \A p \in Places : files[p] = Standing(p) \cup Own(r, p)
CanRollBack(r) ==
    /\ \A p \in Places : snap[p] = Standing(p)
    /\ IsExtension(r) => body[r].token \notin snap["dir"]

(* Before it has written, and after a roll-back, a request has left no     *)
(* trace; otherwise it stands, or can be rolled back.                      *)
BeforeWrite(r) == pc[r] = "commit" \/ (pc[r] = "stop" /\ body[r].api = "configure")

Writing(r) ==
    /\ outcome[r] = "ok" /\ stage[r] = "first" /\ CanRollBack(r)
    /\ \A p \in Places : files[p] \in {snap[p], snap[p] \cup Own(r, p)}

Restarting(r) ==
    /\ outcome[r] \in {"ok", "kept"} => Added(r)
    /\ outcome[r] \in {"refused", "failed"} => Untouched
    /\ (outcome[r] = "ok" /\ body[r].api \in {"upload", "force"}) => CanRollBack(r)
    /\ pc[r] = "load" => /\ outcome[r] = "ok" /\ Unpacked(r)
                         /\ body[r].api \in {"upload", "prefer_cdp"}
    /\ pc[r] = "verify" => outcome[r] = "ok"

FilesOf(r) ==
    /\ BeforeWrite(r) => outcome[r] = "ok" /\ stage[r] = "first" /\ Untouched
    /\ pc[r] = "write" => Writing(r)
    /\ ~BeforeWrite(r) /\ pc[r] # "write" => Restarting(r)

FilesInv ==
    /\ ConfigType /\ OneConfigures
    /\ holder = {} => Untouched
    /\ \A r \in holder : FilesOf(r)

(* What a request may ask.                                                 *)
LEMMA BodyIsOne ==
    ASSUME ConfigType, NEW r \in Requests
    PROVE  /\ body[r] \in Bodies /\ body[r].token \in Contents
           /\ body[r].api \in {"upload", "force", "configure", "prefer_cdp", "patch"}
           /\ body[r].places \subseteq Places
           /\ IsExtension(r) \/ \E p \in Places : body[r].places = {p}
           /\ body[r].api \in {"upload", "force", "prefer_cdp"} => IsExtension(r)
<1>1. body[r] \in Bodies /\ body[r].token \in Contents
  BY DEF ConfigType, Contents
<1> QED
  BY <1>1, BodiesAssumption DEF IsExtension

(* While nobody answers the same requests stand.                           *)
LEMMA SameStand ==
    ASSUME body' = body, answer' = answer
    PROVE  /\ \A p \in Places : Standing(p)' = Standing(p)
           /\ \A r \in Requests : \A p \in Places : Own(r, p)' = Own(r, p)
           /\ \A r \in Requests : /\ IsExtension(r)' <=> IsExtension(r)
                                  /\ Unpacked(r)' <=> Unpacked(r)
  BY DEF Standing, Stands, Own, IsExtension, Unpacked

(* A step of Chromium or of its manager, or of a start command, concerns   *)
(* none of the files.                                                      *)
LEMMA ChromiumConfigures ==
    ASSUME FilesInv, UNCHANGED <<requestVars, files, snap>>
    PROVE  FilesInv'
<1>1. UNCHANGED <<body, pc, holder, stage, outcome, answer, files, snap>>
  BY DEF requestVars
<1>2. OneConfigures' /\ ConfigType'
  BY <1>1 DEF FilesInv, OneConfigures, ConfigType
<1>3. Untouched' <=> Untouched
  BY <1>1 DEF Untouched, Standing, Stands
<1>4. ASSUME NEW r \in holder PROVE FilesOf(r)'
  <2>1. r \in Requests /\ FilesOf(r)
    BY DEF FilesInv, OneConfigures
  <2>2. FilesOf(r)' <=> FilesOf(r)
    BY <1>1, <1>3, <2>1, SameStand
    DEF FilesOf, BeforeWrite, Writing, Restarting, Added, CanRollBack
  <2> QED
    BY <2>1, <2>2
<1> QED
  BY <1>1, <1>2, <1>3, <1>4 DEF FilesInv

(* A request that goes on keeps the lock.                                  *)
LEMMA GoesOn ==
    ASSUME FilesInv, ConfigType', NEW r \in holder, NEW w \in Steps \ {"new", "done"},
           Goto(r, w), holder' = holder, answer' = answer,
           \A q \in Requests \ {r} : outcome'[q] = outcome[q] /\ stage'[q] = stage[q],
           FilesOf(r)'
    PROVE  FilesInv'
<1> USE DEF FilesInv, OneConfigures
<1>1. r \in Requests /\ holder = {r}
  OBVIOUS
<1>2. pc'[r] = w /\ \A q \in Requests \ {r} : pc'[q] = pc[q]
  BY <1>1 DEF Goto, ConfigType
<1>3. OneConfigures'
  BY <1>1, <1>2
<1> QED
  BY <1>1, <1>3

(* A request that answers leaves what it says it does.                     *)
LEMMA AnswerHolds ==
    ASSUME FilesInv, ConfigType', NEW r \in holder, NEW a \in Answers, Finish(r, a),
           body' = body,
           \A q \in Requests \ {r} : outcome'[q] = outcome[q] /\ stage'[q] = stage[q],
           \A p \in Places : files'[p] =
               Standing(p) \cup (IF a \in {"ok", "kept"} THEN Own(r, p) ELSE {})
    PROVE  FilesInv'
<1> USE DEF FilesInv, OneConfigures
<1>1. r \in Requests /\ holder = {r} /\ answer[r] = "none"
  OBVIOUS
<1>2. /\ pc'[r] = "done" /\ \A q \in Requests \ {r} : pc'[q] = pc[q]
      /\ answer'[r] = a /\ \A q \in Requests \ {r} : answer'[q] = answer[q]
      /\ holder' = {}
  BY <1>1 DEF Finish, Goto, ConfigType
<1>3. OneConfigures'
  BY <1>1, <1>2 DEF Answers
<1>4. ASSUME NEW p \in Places PROVE files'[p] = Standing(p)'
  <2>1. ~Stands(r) /\ (Stands(r)' <=> a \in {"ok", "kept"})
    BY <1>1, <1>2 DEF Stands
  <2>2. \A q \in Requests \ {r} : Stands(q)' <=> Stands(q)
    BY <1>2 DEF Stands
  <2>3. Standing(p)' = Standing(p) \cup (IF a \in {"ok", "kept"} THEN Own(r, p) ELSE {})
    BY <1>1, <2>1, <2>2 DEF Standing, Own
  <2> QED
    BY <2>3
<1> QED
  BY <1>2, <1>3, <1>4 DEF Untouched

(* The request with the lock is the one that takes a step.                 *)
LEMMA MoverHolds ==
    ASSUME FilesInv, NEW r \in Requests, pc[r] \notin {"new", "done"}
    PROVE  /\ r \in holder /\ holder = {r} /\ FilesOf(r)
           /\ answer[r] = "none"
  BY DEF FilesInv, OneConfigures

(* One lemma for every step of a request: it preserves FilesInv.           *)
LEMMA LockStepHolds ==
    ASSUME FilesInv, NEW r \in Requests, Lock(r)
    PROVE  FilesInv'
<1> DEFINE w == IF body[r].api = "configure" THEN "stop" ELSE "commit"
<1>1. /\ pc[r] = "new" /\ holder = {} /\ holder' = {r} /\ Goto(r, w)
      /\ UNCHANGED <<body, stage, outcome, answer, files, snap>>
  BY DEF Lock, fileVars
<1>2. /\ pc'[r] = w /\ \A q \in Requests \ {r} : pc'[q] = pc[q]
      /\ pc' \in [Requests -> Steps]
  BY <1>1 DEF Goto, FilesInv, ConfigType, Steps
<1>3. ConfigType'
  BY <1>1, <1>2 DEF FilesInv, ConfigType
<1>4. OneConfigures'
  BY <1>1, <1>2 DEF FilesInv, OneConfigures
<1>5. Untouched'
  BY <1>1, SameStand DEF FilesInv, Untouched
<1>6. FilesOf(r)'
  BY <1>1, <1>2, <1>5 DEF FilesInv, OneConfigures, FilesOf, BeforeWrite
<1> QED
  BY <1>1, <1>3, <1>4, <1>6 DEF FilesInv

(* A roll-back of an extension leaves what stands.                         *)
LEMMA RollBackRestores ==
    ASSUME FilesInv, NEW r \in Requests, CanRollBack(r), IsExtension(r),
           \A p \in Places : files[p] \in {snap[p], snap[p] \cup Own(r, p)}
    PROVE  /\ RolledBack(r) \in [Places -> SUBSET Contents]
           /\ \A p \in Places : RolledBack(r)[p] = Standing(p)
<1>1. files \in [Places -> SUBSET Contents] /\ snap \in [Places -> SUBSET Contents]
  BY DEF FilesInv, ConfigType
<1>2. /\ RolledBack(r)["dir"] = files["dir"] \ {body[r].token}
      /\ RolledBack(r)["policy"] = snap["policy"]
      /\ RolledBack(r)["flags"] = snap["flags"]
      /\ RolledBack(r) \in [Places -> SUBSET Contents]
  BY <1>1 DEF RolledBack, Places
<1>3. RolledBack(r)["dir"] = snap["dir"]
  BY <1>2 DEF CanRollBack, Own, Places
<1> QED
  BY <1>2, <1>3 DEF CanRollBack, Places

(* A request that could not write leaves what stands.                      *)
LEMMA AbandonLeaves ==
    ASSUME FilesInv, NEW r \in Requests, NEW a \in {"refused", "failed"}, Abandon(r, a),
           pc[r] \in {"commit", "write"}, body' = body, stage' = stage,
           files' \in [Places -> SUBSET Contents], snap' = snap,
           \A p \in Places : files'[p] = Standing(p)
    PROVE  FilesInv'
<1>1. r \in holder /\ holder = {r}
  BY MoverHolds
<1>2. CASE body[r].api = "configure"
  <2>1. /\ Goto(r, "start") /\ outcome' = [outcome EXCEPT ![r] = a]
        /\ holder' = holder /\ answer' = answer
    BY <1>2 DEF Abandon
  <2>2. ConfigType'
    BY <2>1 DEF Goto, FilesInv, ConfigType, Steps, Answers
  <2>3. outcome'[r] = a /\ \A q \in Requests \ {r} : outcome'[q] = outcome[q]
    BY <2>1 DEF FilesInv, ConfigType
  <2>4. pc'[r] = "start"
    BY <2>1 DEF Goto, FilesInv, ConfigType
  <2>5. Untouched'
    BY <2>1, SameStand DEF Untouched
  <2>6. FilesOf(r)'
    BY <2>3, <2>4, <2>5 DEF FilesOf, BeforeWrite, Restarting
  <2> QED
    BY <1>1, <2>1, <2>2, <2>3, <2>6, GoesOn DEF Steps
<1>3. CASE body[r].api # "configure"
  <2>1. Finish(r, a) /\ outcome' = outcome
    BY <1>3 DEF Abandon
  <2>2. ConfigType'
    BY <2>1 DEF Finish, Goto, FilesInv, ConfigType, Steps, Answers
  <2> QED
    BY <1>1, <2>1, <2>2, AnswerHolds DEF Answers
<1> QED
  BY <1>2, <1>3

(* commitPreparedExtensions remembers the files, or finds the name taken.  *)
LEMMA CommitStepHolds ==
    ASSUME FilesInv, NEW r \in Requests, Commit(r)
    PROVE  FilesInv'
<1>1. /\ pc[r] = "commit"
      /\ UNCHANGED <<body, stage, files>>
  BY DEF Commit
<1>2. r \in holder /\ outcome[r] = "ok" /\ stage[r] = "first" /\ Untouched
  BY <1>1, MoverHolds DEF FilesOf, BeforeWrite
<1>3. CASE IsExtension(r) /\ body[r].token \in files["dir"]
  <2>1. Abandon(r, "refused") /\ snap' = snap
    BY <1>3 DEF Commit
  <2> QED
    BY <1>1, <1>2, <2>1, AbandonLeaves DEF Untouched, FilesInv, ConfigType
<1>4. CASE ~(IsExtension(r) /\ body[r].token \in files["dir"])
  <2>1. snap' = files /\ Goto(r, "write") /\ UNCHANGED <<holder, answer, outcome>>
    BY <1>4 DEF Commit
  <2>2. pc'[r] = "write" /\ ConfigType'
    BY <1>1, <2>1 DEF Goto, FilesInv, ConfigType, Steps
  <2>3. CanRollBack(r)' /\ \A p \in Places : files'[p] = snap'[p]
    BY <1>1, <1>2, <1>4, <2>1, SameStand DEF CanRollBack, Untouched
  <2>4. FilesOf(r)'
    BY <1>1, <1>2, <2>1, <2>2, <2>3 DEF FilesOf, BeforeWrite, Writing
  <2> QED
    BY <1>1, <1>2, <2>1, <2>2, <2>4, GoesOn DEF Steps
<1> QED
  BY <1>3, <1>4

(* Each write adds what the request brings to one of its places.           *)
LEMMA WriteStepHolds ==
    ASSUME FilesInv, NEW r \in Requests, Write(r)
    PROVE  FilesInv'
<1> DEFINE p0 == NextPlace(r)
<1>1. /\ pc[r] = "write" /\ Missing(r) # {}
      /\ files' = [files EXCEPT ![p0] = @ \cup {body[r].token}]
      /\ UNCHANGED <<body, pc, holder, stage, outcome, answer, snap>>
  BY DEF Write, requestVars
<1>2. r \in holder /\ Writing(r)
  BY <1>1, MoverHolds DEF FilesOf, BeforeWrite
<1>3. p0 \in body[r].places /\ p0 \in Places
  BY <1>1, BodyIsOne DEF NextPlace, Missing, FilesInv, Places
<1>4. /\ files'[p0] = files[p0] \cup Own(r, p0)
      /\ \A p \in Places \ {p0} : files'[p] = files[p]
      /\ files' \in [Places -> SUBSET Contents]
  BY <1>1, <1>3, BodyIsOne DEF FilesInv, ConfigType, Own
<1>5. ConfigType'
  BY <1>1, <1>4 DEF FilesInv, ConfigType
<1>6. \A p \in Places : files'[p] \in {snap[p], snap[p] \cup Own(r, p)}
  BY <1>2, <1>4 DEF Writing
<1>7. Writing(r)'
  BY <1>1, <1>2, <1>6, SameStand DEF Writing, CanRollBack
<1>8. FilesOf(r)'
  BY <1>1, <1>7 DEF FilesOf, BeforeWrite
<1>9. Goto(r, "write")
  BY <1>1 DEF Goto, FilesInv, ConfigType
<1> QED
  BY <1>1, <1>2, <1>5, <1>8, <1>9, GoesOn DEF Steps

(* A write that fails is rolled back; one of a single file has not been.   *)
LEMMA WriteFailsHolds ==
    ASSUME FilesInv, NEW r \in Requests, WriteFails(r)
    PROVE  FilesInv'
<1>1. /\ pc[r] = "write" /\ Missing(r) # {} /\ Abandon(r, "failed")
      /\ files' = IF IsExtension(r) THEN RolledBack(r) ELSE files
      /\ UNCHANGED <<body, stage, snap>>
  BY DEF WriteFails
<1>2. Writing(r)
  BY <1>1, MoverHolds DEF FilesOf, BeforeWrite
<1>3. CASE IsExtension(r)
  BY <1>1, <1>2, <1>3, RollBackRestores, AbandonLeaves DEF Writing
<1>4. CASE ~IsExtension(r)
  <2>1. PICK p1 \in Places : body[r].places = {p1}
    BY <1>4, BodyIsOne DEF FilesInv
  <2>2. body[r].token \notin files[p1]
    BY <1>1, <2>1 DEF Missing
  <2>3. \A p \in Places : files[p] = snap[p]
    BY <1>2, <2>1, <2>2 DEF Writing, Own
  <2>4. files' = files /\ \A p \in Places : files'[p] = Standing(p)
    BY <1>1, <1>2, <1>4, <2>3 DEF Writing, CanRollBack
  <2> QED
    BY <1>1, <2>4, AbandonLeaves DEF FilesInv, ConfigType
<1> QED
  BY <1>3, <1>4

(* With nothing missing all that the request brings is there.              *)
LEMMA CommittedStepHolds ==
    ASSUME FilesInv, NEW r \in Requests, Committed(r)
    PROVE  FilesInv'
<1> DEFINE w == CASE body[r].api = "configure" -> "start"
                  [] body[r].api \in {"upload", "prefer_cdp"} /\ Unpacked(r) -> "load"
                  [] OTHER -> "stop"
<1>1. /\ pc[r] = "write" /\ Missing(r) = {} /\ Goto(r, w)
      /\ UNCHANGED <<body, holder, stage, outcome, answer, files, snap>>
  BY DEF Committed, fileVars
<1>2. r \in holder /\ Writing(r)
  BY <1>1, MoverHolds DEF FilesOf, BeforeWrite
<1>3. w \in {"start", "load", "stop"}
      /\ (w = "stop" => body[r].api # "configure")
      /\ (w = "load" => body[r].api \in {"upload", "prefer_cdp"} /\ Unpacked(r))
  <2>1. CASE body[r].api = "configure"
    BY <2>1
  <2>2. CASE body[r].api # "configure" /\ body[r].api \in {"upload", "prefer_cdp"} /\ Unpacked(r)
    BY <2>2
  <2>3. CASE body[r].api # "configure" /\ ~(body[r].api \in {"upload", "prefer_cdp"} /\ Unpacked(r))
    BY <2>3
  <2> QED
    BY <2>1, <2>2, <2>3
<1>4. pc'[r] = w /\ ConfigType'
  BY <1>1, <1>3 DEF Goto, FilesInv, ConfigType, Steps
<1>5. \A p \in Places : files[p] = snap[p] \cup Own(r, p)
  BY <1>1, <1>2 DEF Writing, Missing, Own
<1>6. CanRollBack(r)' /\ Added(r)'
  BY <1>1, <1>2, <1>5, SameStand DEF Writing, CanRollBack, Added
<1>7. outcome'[r] = "ok" /\ (Unpacked(r)' <=> Unpacked(r))
  BY <1>1, <1>2, SameStand DEF Writing
<1>8. FilesOf(r)'
  <2> HIDE DEF w
  <2> QED
    BY <1>1, <1>3, <1>4, <1>6, <1>7 DEF FilesOf, BeforeWrite, Restarting
<1> QED
  BY <1>1, <1>2, <1>3, <1>4, <1>8, GoesOn DEF Steps

(* A request that goes on after its writes, and changes nothing that it    *)
(* will answer, leaves the files as they are.                              *)
LEMMA RestartGoesOn ==
    ASSUME FilesInv, NEW r \in Requests, Restarting(r), ~BeforeWrite(r),
           pc[r] \notin {"new", "write", "done"},
           NEW w \in {"stop", "start", "wait", "relocate", "verify"}, Goto(r, w),
           w = "stop" => body[r].api # "configure",
           w = "verify" => outcome[r] = "ok",
           \A q \in Requests \ {r} : stage'[q] = stage[q],
           stage' \in [Requests -> Stages],
           UNCHANGED <<body, holder, answer, outcome, files, snap>>
    PROVE  FilesInv'
<1>1. r \in holder
  BY MoverHolds
<1>2. pc'[r] = w /\ ConfigType'
  BY DEF Goto, FilesInv, ConfigType, Steps
<1>3. (Added(r)' <=> Added(r)) /\ (Untouched' <=> Untouched)
      /\ (CanRollBack(r)' <=> CanRollBack(r))
  BY SameStand DEF Added, Untouched, CanRollBack
<1>4. FilesOf(r)'
  BY <1>2, <1>3 DEF FilesOf, BeforeWrite, Restarting
<1> QED
  BY <1>1, <1>2, <1>4, GoesOn DEF Steps

(* A request that answers what it was to answer.                           *)
LEMMA RestartAnswers ==
    ASSUME FilesInv, NEW r \in Requests, Restarting(r),
           pc[r] \notin {"new", "write", "done"},
           NEW a \in Answers, Finish(r, a),
           a \in {"ok", "kept"} <=> outcome[r] \in {"ok", "kept"},
           UNCHANGED <<body, stage, outcome, files, snap>>
    PROVE  FilesInv'
<1>1. r \in holder
  BY MoverHolds
<1>2. ConfigType'
  BY DEF Finish, Goto, FilesInv, ConfigType, Steps
<1>3. outcome[r] \in Answers
  BY DEF FilesInv, ConfigType
<1>4. CASE outcome[r] \in {"ok", "kept"}
  <2>1. \A p \in Places : files'[p] = Standing(p) \cup Own(r, p)
    BY <1>4 DEF Restarting, Added
  <2> QED
    BY <1>1, <1>2, <1>4, <2>1, AnswerHolds
<1>5. CASE outcome[r] \in {"refused", "failed"}
  <2>1. \A p \in Places : files'[p] = Standing(p) \cup {}
    BY <1>5 DEF Restarting, Untouched
  <2> QED
    BY <1>1, <1>2, <1>5, <2>1, AnswerHolds
<1> QED
  BY <1>3, <1>4, <1>5 DEF Answers

(* An extension that is loaded over CDP, or could not be, is written.      *)
LEMMA LoadStepsHold ==
    ASSUME FilesInv, NEW r \in Requests, Load(r) \/ LoadFails(r)
    PROVE  FilesInv'
<1>1. pc[r] = "load" /\ Restarting(r) /\ ~BeforeWrite(r) /\ outcome[r] = "ok"
      /\ body[r].api # "configure"
  <2>1. pc[r] = "load"
    BY DEF Load, LoadFails
  <2> QED
    BY <2>1, MoverHolds DEF FilesOf, BeforeWrite, Restarting
<1>2. CASE Load(r)
  <2>1. Finish(r, "ok") /\ UNCHANGED <<body, stage, outcome, files, snap>>
    BY <1>2 DEF Load
  <2> QED
    BY <1>1, <2>1, RestartAnswers DEF Answers
<1>3. CASE LoadFails(r)
  <2>1. /\ Goto(r, "stop") /\ stage' = [stage EXCEPT ![r] = "fallback"]
        /\ UNCHANGED <<body, holder, outcome, answer, files, snap>>
    BY <1>3 DEF LoadFails
  <2>2. /\ \A q \in Requests \ {r} : stage'[q] = stage[q]
        /\ stage' \in [Requests -> Stages]
    BY <2>1 DEF FilesInv, ConfigType, Stages
  <2> QED
    BY <1>1, <2>1, <2>2, RestartGoesOn
<1> QED
  BY <1>2, <1>3

(* Chromium is stopped: configure goes on to write, the others have.       *)
LEMMA StopStepHolds ==
    ASSUME FilesInv, NEW r \in Requests, Stop(r)
    PROVE  FilesInv'
<1> DEFINE w == IF body[r].api = "configure" /\ stage[r] = "first"
                THEN "commit" ELSE "start"
<1>1. /\ pc[r] = "stop" /\ Goto(r, w)
      /\ UNCHANGED <<body, holder, stage, outcome, answer, files, snap>>
  BY DEF Stop, fileVars
<1>2. r \in holder /\ FilesOf(r)
  BY <1>1, MoverHolds
<1>3. CASE body[r].api = "configure"
  <2>1. outcome[r] = "ok" /\ stage[r] = "first" /\ Untouched /\ w = "commit"
    BY <1>1, <1>2, <1>3 DEF FilesOf, BeforeWrite
  <2>2. pc'[r] = "commit" /\ ConfigType' /\ Goto(r, "commit")
    BY <1>1, <2>1 DEF Goto, FilesInv, ConfigType, Steps
  <2>3. Untouched'
    BY <1>1, <2>1, SameStand DEF Untouched
  <2>4. FilesOf(r)'
    BY <1>1, <2>1, <2>2, <2>3 DEF FilesOf, BeforeWrite
  <2> QED
    BY <1>1, <1>2, <2>2, <2>4, GoesOn DEF Steps
<1>4. CASE body[r].api # "configure"
  <2>1. Restarting(r) /\ ~BeforeWrite(r) /\ Goto(r, "start")
    BY <1>1, <1>2, <1>4 DEF FilesOf, BeforeWrite
  <2> QED
    BY <1>1, <2>1, RestartGoesOn DEF FilesInv, ConfigType
<1> QED
  BY <1>3, <1>4

(* A start, and the DevTools that answer.                                  *)
LEMMA StartAndReadyHold ==
    ASSUME FilesInv, NEW r \in Requests, Start(r) \/ Ready(r)
    PROVE  FilesInv'
<1>1. CASE Start(r)
  <2>1. /\ pc[r] = "start" /\ Goto(r, "wait")
        /\ UNCHANGED <<body, holder, stage, outcome, answer, files, snap>>
    BY <1>1 DEF Start, fileVars
  <2>2. Restarting(r) /\ ~BeforeWrite(r)
    BY <2>1, MoverHolds DEF FilesOf, BeforeWrite
  <2> QED
    BY <2>1, <2>2, RestartGoesOn DEF FilesInv, ConfigType
<1>2. CASE Ready(r)
  <2>1. /\ pc[r] = "wait" /\ Goto(r, "relocate")
        /\ UNCHANGED <<body, holder, stage, outcome, answer, files, snap>>
    BY <1>2 DEF Ready, fileVars
  <2>2. Restarting(r) /\ ~BeforeWrite(r)
    BY <2>1, MoverHolds DEF FilesOf, BeforeWrite
  <2> QED
    BY <2>1, <2>2, RestartGoesOn DEF FilesInv, ConfigType
<1> QED
  BY <1>1, <1>2

(* What follows a restart that failed, or an extension that is not there.  *)
LEMMA FailedHolds ==
    ASSUME FilesInv, NEW r \in Requests, pc[r] \in {"stop", "wait", "verify"}, Failed(r),
           UNCHANGED <<body, snap>>
    PROVE  FilesInv'
<1>1. r \in holder /\ FilesOf(r) /\ outcome[r] \in Answers
  BY MoverHolds DEF FilesInv, ConfigType
<1>2. CASE body[r].api \in {"upload", "force"} /\ outcome[r] = "ok"
  <2>1. /\ files' = RolledBack(r) /\ Goto(r, "stop")
        /\ stage' = [stage EXCEPT ![r] = "rollback"]
        /\ outcome' = [outcome EXCEPT ![r] = "failed"]
        /\ UNCHANGED <<holder, answer>>
    BY <1>2 DEF Failed, RollBack
  <2>2. Restarting(r) /\ CanRollBack(r) /\ Added(r) /\ IsExtension(r)
    BY <1>1, <1>2, BodyIsOne DEF FilesInv, FilesOf, BeforeWrite, Restarting
  <2>3. \A p \in Places : files[p] \in {snap[p], snap[p] \cup Own(r, p)}
    BY <2>2 DEF CanRollBack, Added
  <2>4. files' \in [Places -> SUBSET Contents] /\ \A p \in Places : files'[p] = Standing(p)
    BY <2>1, <2>2, <2>3, RollBackRestores
  <2>5. /\ pc'[r] = "stop" /\ pc' \in [Requests -> Steps] /\ outcome'[r] = "failed"
        /\ outcome' \in [Requests -> Answers] /\ stage' \in [Requests -> Stages]
        /\ \A q \in Requests \ {r} : outcome'[q] = outcome[q] /\ stage'[q] = stage[q]
    BY <2>1 DEF Goto, FilesInv, ConfigType, Steps, Answers, Stages
  <2>6. ConfigType'
    BY <2>1, <2>4, <2>5 DEF FilesInv, ConfigType
  <2>7. Untouched'
    BY <2>1, <2>4, SameStand DEF Untouched
  <2>8. FilesOf(r)'
    BY <1>2, <2>5, <2>7 DEF FilesOf, BeforeWrite, Restarting
  <2> QED
    BY <1>1, <2>1, <2>5, <2>6, <2>8, GoesOn DEF Steps
<1> DEFINE TriesAgain == /\ body[r].api \in {"configure", "prefer_cdp"} /\ pc[r] = "wait"
                         /\ stage[r] # "again" /\ outcome[r] = "ok"
<1>3. CASE TriesAgain
  <2>1. /\ Goto(r, "start") /\ stage' = [stage EXCEPT ![r] = "again"]
        /\ outcome' = [outcome EXCEPT ![r] = "kept"]
        /\ UNCHANGED <<files, holder, answer>>
    BY <1>3 DEF Failed
  <2>2. Restarting(r) /\ Added(r)
    BY <1>1, <1>3 DEF FilesOf, BeforeWrite, Restarting
  <2>3. /\ pc'[r] = "start" /\ pc' \in [Requests -> Steps] /\ outcome'[r] = "kept"
        /\ outcome' \in [Requests -> Answers] /\ stage' \in [Requests -> Stages]
        /\ \A q \in Requests \ {r} : outcome'[q] = outcome[q] /\ stage'[q] = stage[q]
    BY <2>1 DEF Goto, FilesInv, ConfigType, Steps, Answers, Stages
  <2>4. ConfigType'
    BY <2>1, <2>3 DEF FilesInv, ConfigType
  <2>5. Added(r)'
    BY <2>1, <2>2, SameStand DEF Added
  <2>6. FilesOf(r)'
    BY <2>3, <2>5 DEF FilesOf, BeforeWrite, Restarting
  <2> QED
    BY <1>1, <2>1, <2>3, <2>4, <2>6, GoesOn DEF Steps
<1>4. CASE ~(body[r].api \in {"upload", "force"} /\ outcome[r] = "ok") /\ ~TriesAgain
  <2> DEFINE a == IF outcome[r] # "ok" THEN outcome[r]
                  ELSE IF body[r].api = "configure" /\ pc[r] = "stop"
                  THEN "failed" ELSE "kept"
  <2>1. Finish(r, a) /\ UNCHANGED <<files, stage, outcome>>
    BY <1>4 DEF Failed
  <2>2. CASE body[r].api = "configure" /\ pc[r] = "stop"
    <3>1. outcome[r] = "ok" /\ Untouched /\ a = "failed"
      BY <1>1, <2>2 DEF FilesOf, BeforeWrite
    <3>2. \A p \in Places : files'[p] = Standing(p) \cup {}
      BY <2>1, <3>1 DEF Untouched
    <3>3. Finish(r, "failed")
      BY <2>1, <3>1
    <3>4. ConfigType'
      BY <2>1, <3>3 DEF Finish, Goto, FilesInv, ConfigType, Steps, Answers
    <3> QED
      BY <1>1, <2>1, <3>2, <3>3, <3>4, AnswerHolds DEF Answers
  <2>3. CASE ~(body[r].api = "configure" /\ pc[r] = "stop")
    <3>1. Restarting(r)
      BY <1>1, <2>3 DEF FilesOf, BeforeWrite
    <3>2. a \in Answers /\ (a \in {"ok", "kept"} <=> outcome[r] \in {"ok", "kept"})
      BY <1>1, <2>3 DEF Answers
    <3> QED
      BY <2>1, <3>1, <3>2, RestartAnswers
  <2> QED
    BY <2>2, <2>3
<1> QED
  BY <1>2, <1>3, <1>4

(* The steps that fail after the writes.                                   *)
LEMMA FailuresHold ==
    ASSUME FilesInv, NEW r \in Requests, StartFails(r) \/ StopFails(r) \/ VerifyFails(r)
    PROVE  FilesInv'
<1>1. Failed(r) /\ pc[r] \in {"stop", "wait", "verify"} /\ UNCHANGED <<body, snap>>
  BY DEF StartFails, StopFails, VerifyFails
<1> QED
  BY <1>1, FailedHolds

(* The steps after a restart that went well.                               *)
LEMMA RelocateAndVerifyHold ==
    ASSUME FilesInv, NEW r \in Requests,
           Verify(r) \/ \E ok \in BOOLEAN : Relocate(r, ok)
    PROVE  FilesInv'
<1>1. /\ pc[r] \in {"relocate", "verify"}
      /\ UNCHANGED <<body, stage, outcome, files, snap>>
  BY DEF Verify, Relocate, fileVars
<1>2. Restarting(r) /\ ~BeforeWrite(r) /\ outcome[r] \in Answers
  BY <1>1, MoverHolds DEF FilesOf, BeforeWrite, FilesInv, ConfigType
<1>3. CASE Verify(r)
  <2>1. Finish(r, "ok") /\ outcome[r] = "ok"
    BY <1>2, <1>3 DEF Verify, Restarting
  <2> QED
    BY <1>1, <1>2, <2>1, RestartAnswers DEF Answers
<1>4. ASSUME NEW ok \in BOOLEAN, Relocate(r, ok) PROVE FilesInv'
  <2>1. CASE ok
    <3>1. Succeeded(r)
      BY <1>4, <2>1 DEF Relocate
    <3>2. CASE outcome[r] # "ok"
      <4>1. Finish(r, outcome[r])
        BY <3>1, <3>2 DEF Succeeded
      <4> QED
        BY <1>1, <1>2, <4>1, RestartAnswers
    <3>3. CASE /\ outcome[r] = "ok" /\ Unpacked(r)
               /\ (body[r].api = "upload" \/ stage[r] = "fallback")
      <4>1. Goto(r, "verify") /\ UNCHANGED <<holder, answer>>
        BY <3>1, <3>3 DEF Succeeded
      <4> QED
        BY <1>1, <1>2, <3>3, <4>1, RestartGoesOn DEF FilesInv, ConfigType
    <3>4. CASE outcome[r] = "ok" /\ ~(Unpacked(r) /\ (body[r].api = "upload"
                                                       \/ stage[r] = "fallback"))
      <4>1. Finish(r, "ok")
        BY <3>1, <3>4 DEF Succeeded
      <4> QED
        BY <1>1, <1>2, <3>4, <4>1, RestartAnswers DEF Answers
    <3> QED
      BY <3>2, <3>3, <3>4
  <2>2. CASE ~ok
    <3>1. Finish(r, IF outcome[r] = "ok" THEN "kept" ELSE outcome[r])
      BY <1>4, <2>2 DEF Relocate
    <3> QED
      BY <1>1, <1>2, <3>1, RestartAnswers DEF Answers
  <2> QED
    BY <2>1, <2>2
<1> QED
  BY <1>3, <1>4

(* FilesInv is inductive.                                                  *)
LEMMA ConfigNextHolds == ASSUME FilesInv, [Next]_vars PROVE FilesInv'
<1>1. CASE Environment
  <2>1. UNCHANGED <<requestVars, files, snap>>
    BY <1>1 DEF Environment, fileVars
  <2> QED
    BY <2>1, ChromiumConfigures
<1>2. CASE \E m \in commands : StartCommand(m)
  <2>1. UNCHANGED <<requestVars, files, snap>>
    BY <1>2 DEF StartCommand
  <2> QED
    BY <2>1, ChromiumConfigures
<1>3. ASSUME NEW r \in Requests, Step(r) PROVE FilesInv'
  BY <1>3, LockStepHolds, CommitStepHolds, WriteStepHolds, WriteFailsHolds, CommittedStepHolds,
     LoadStepsHold, StopStepHolds, StartAndReadyHold, FailuresHold, RelocateAndVerifyHold DEF Step
<1>4. CASE UNCHANGED vars
  <2>1. UNCHANGED <<requestVars, files, snap>>
    BY <1>4 DEF vars, fileVars
  <2> QED
    BY <2>1, ChromiumConfigures
<1> QED
  BY <1>1, <1>2, <1>3, <1>4 DEF Next

(* No request has begun, and the files are empty.                          *)
LEMMA ConfigInitHolds == ASSUME Init PROVE FilesInv
<1> USE DEF Init
<1>1. ConfigType
  BY DEF ConfigType, Steps, Stages, Answers
<1>2. OneConfigures
  BY DEF OneConfigures
<1>3. Untouched
  BY DEF Untouched, Standing, Stands
<1> QED
  BY <1>1, <1>2, <1>3 DEF FilesInv

(* Whenever chromiumConfigMu is free the directory, the policy and the     *)
(* flags hold what was granted or left installed, and nothing of a request *)
(* that was refused or rolled back: for any number of requests and bodies, *)
(* wherever each of them failed and Chromium crashed.                      *)
THEOREM FilesStayTogether == Spec => []FilesAgree
<1>1. FilesInv => FilesAgree
  BY DEF FilesInv, FilesAgree, Untouched, Standing
<1> QED
  BY <1>1, ConfigInitHolds, ConfigNextHolds, PTL DEF Spec

(* What a request that was granted was granted for.                        *)
ServedFor(r) ==
    /\ ready[r] # 0 => ready[r] > since[r]
    /\ (browser # "none" /\ ~late) => Effective(r)

ServedType ==
    /\ sup \in {"RUNNING", "STOPPED"} /\ life \in Nat
    /\ ready \in [Requests -> Nat] /\ since \in [Requests -> Nat]
    /\ commands \subseteq Requests \X Stages

(* Who has stopped Chromium and is well finds a later life with what it    *)
(* has written, unless a late start came before.                           *)
Renewed(r) ==
    life > since[r] /\ (late \/ \A p \in body[r].places : body[r].token \in launched[p])

RestartOf(r) ==
    /\ (pc[r] \in {"commit", "write"} /\ body[r].api = "configure") =>
        /\ browser # "none" => life > since[r] /\ late
        /\ late \/ sup = "STOPPED"
    /\ (/\ pc[r] \in {"start", "wait", "relocate", "verify"}
        /\ outcome[r] = "ok" /\ browser # "none") => Renewed(r)
    /\ outcome[r] = "ok" =>
        /\ pc[r] \in {"relocate", "verify"} => ready[r] > since[r]
        /\ pc[r] \notin {"relocate", "verify"} => ready[r] = 0

ServedInv ==
    /\ FilesInv /\ ServedType
    /\ \A r \in Requests : since[r] <= life /\ (pc[r] = "new" => ready[r] = 0)
    /\ \A r \in holder : RestartOf(r)
    /\ \A r \in Requests : answer[r] = "ok" => ServedFor(r)

(* Chromium goes, or stays as it is, perhaps with an extension more, or is *)
(* launched with the files of that moment.                                 *)
BrowserKept ==
    \/ browser' = "none"
    \/ browser # "none" /\ launched' = launched /\ loaded \subseteq loaded' /\ late' = late
    \/ launched' = files

(* What stands is in the files at every moment, also while another request *)
(* writes and takes back.                                                  *)
LEMMA StandingIsThere ==
    ASSUME FilesInv, NEW p \in Places
    PROVE  Standing(p) \subseteq files[p]
<1>1. CASE holder = {}
  BY <1>1 DEF FilesInv, Untouched
<1>2. CASE holder # {}
  <2>1. PICK r \in holder : FilesOf(r)
    BY <1>2 DEF FilesInv
  <2>2. outcome[r] \in Answers
    BY DEF FilesInv, OneConfigures, ConfigType
  <2>3. CASE BeforeWrite(r)
    BY <2>1, <2>3 DEF FilesOf, Untouched
  <2>4. CASE pc[r] = "write"
    BY <2>1, <2>4 DEF FilesOf, Writing, CanRollBack
  <2>5. CASE ~BeforeWrite(r) /\ pc[r] # "write"
    BY <2>1, <2>2, <2>5 DEF FilesOf, Restarting, Added, Untouched, Answers
  <2> QED
    BY <2>3, <2>4, <2>5
<1> QED
  BY <1>1, <1>2

(* A request that has been granted stays served.                           *)
LEMMA GrantedStays ==
    ASSUME ServedInv, BrowserKept, body' = body, NEW r \in Requests, answer[r] = "ok",
           ready'[r] = ready[r], since'[r] = since[r]
    PROVE  ServedFor(r)'
<1>1. ServedFor(r)
  BY DEF ServedInv
<1>2. ASSUME (browser # "none" /\ ~late)' PROVE Effective(r)'
  <2>1. CASE browser # "none" /\ launched' = launched /\ loaded \subseteq loaded' /\ late' = late
    <3>1. Effective(r)
      BY <1>1, <1>2, <2>1 DEF ServedFor
    <3>2. Unpacked(r)' <=> Unpacked(r)
      BY DEF Unpacked
    <3> QED
      BY <2>1, <3>1, <3>2 DEF Effective
  <2>2. CASE launched' = files
    <3>1. \A p \in body[r].places : p \in Places /\ body[r].token \in Standing(p)
      BY BodyIsOne DEF ServedInv, FilesInv, Standing, Stands
    <3>2. \A p \in body[r].places : body[r].token \in files[p]
      BY <3>1, StandingIsThere DEF ServedInv
    <3> QED
      BY <2>2, <3>2 DEF Effective
  <2> QED
    BY <1>2, <2>1, <2>2 DEF BrowserKept
<1> QED
  BY <1>1, <1>2 DEF ServedFor

(* A step of the request with the lock that does not answer.               *)
LEMMA ServedGoesOn ==
    ASSUME ServedInv, FilesInv', ServedType', BrowserKept, NEW r \in holder,
           NEW w \in Steps \ {"new", "done"}, Goto(r, w),
           UNCHANGED <<body, holder, answer, life>>,
           \A q \in Requests \ {r} : ready'[q] = ready[q] /\ since'[q] = since[q],
           since'[r] <= life, RestartOf(r)'
    PROVE  ServedInv'
<1>1. r \in Requests /\ holder = {r} /\ answer[r] = "none"
  BY DEF ServedInv, FilesInv, OneConfigures
<1>2. pc'[r] = w /\ \A q \in Requests \ {r} : pc'[q] = pc[q]
  BY <1>1 DEF Goto, ServedInv, FilesInv, ConfigType
<1>3. \A q \in Requests : since'[q] <= life' /\ (pc'[q] = "new" => ready'[q] = 0)
  BY <1>1, <1>2 DEF ServedInv
<1>4. ASSUME NEW q \in Requests, answer'[q] = "ok" PROVE ServedFor(q)'
  <2>1. q # r /\ answer[q] = "ok"
    BY <1>1, <1>4
  <2> QED
    BY <2>1, GrantedStays
<1> QED
  BY <1>1, <1>3, <1>4 DEF ServedInv

(* A step of the request with the lock that answers.                       *)
LEMMA ServedAnswers ==
    ASSUME ServedInv, FilesInv', ServedType', BrowserKept, NEW r \in holder,
           NEW a \in Answers, Finish(r, a), UNCHANGED <<body, life, ready, since>>,
           a = "ok" => ServedFor(r)'
    PROVE  ServedInv'
<1>1. r \in Requests /\ answer[r] = "none"
  BY DEF ServedInv, FilesInv, OneConfigures
<1>2. /\ pc'[r] = "done" /\ \A q \in Requests \ {r} : pc'[q] = pc[q]
      /\ answer'[r] = a /\ \A q \in Requests \ {r} : answer'[q] = answer[q]
      /\ holder' = {}
  BY <1>1 DEF Finish, Goto, ServedInv, FilesInv, ConfigType
<1>3. \A q \in Requests : since'[q] <= life' /\ (pc'[q] = "new" => ready'[q] = 0)
  BY <1>1, <1>2 DEF ServedInv
<1>4. ASSUME NEW q \in Requests, answer'[q] = "ok" PROVE ServedFor(q)'
  <2>1. CASE q = r
    BY <1>2, <1>4, <2>1
  <2>2. CASE q # r
    BY <1>2, <1>4, <2>2, GrantedStays
  <2> QED
    BY <2>1, <2>2
<1> QED
  BY <1>2, <1>3, <1>4 DEF ServedInv

(* A step of Chromium or of a start command: whoever is at work has what   *)
(* it has written in the life that is launched.                            *)
LEMMA ServedWhileChromiumMoves ==
    ASSUME ServedInv, ServedType', BrowserKept, UNCHANGED <<requestVars, files, snap, ready, since>>,
           life' >= life, late => late',
           \/ browser' = "none" /\ life' = life
           \/ browser # "none" /\ life' = life /\ launched' = launched
           \/ life' > life /\ launched' = files,
           \A r \in holder : (pc[r] \in {"commit", "write"} /\ body[r].api = "configure") =>
               /\ browser' # "none" => browser # "none" \/ (life' > life /\ late')
               /\ sup' = sup \/ late'
    PROVE  ServedInv'
<1>1. FilesInv' /\ UNCHANGED <<body, pc, holder, stage, outcome, answer, files, ready, since>>
  BY ChromiumConfigures DEF ServedInv, requestVars
<1>2. \A q \in Requests : since'[q] <= life' /\ (pc'[q] = "new" => ready'[q] = 0)
  BY <1>1 DEF ServedInv, ServedType
<1>3. \A q \in Requests : answer'[q] = "ok" => ServedFor(q)'
  BY <1>1, GrantedStays
<1>4. ASSUME NEW r \in holder PROVE RestartOf(r)'
  <2>1. /\ r \in Requests /\ RestartOf(r) /\ FilesOf(r) /\ since[r] <= life
        /\ life \in Nat /\ life' \in Nat /\ since[r] \in Nat
    BY DEF ServedInv, FilesInv, OneConfigures, ServedType
  <2>2. ASSUME pc[r] \in {"commit", "write"}, body[r].api = "configure"
        PROVE  /\ browser' # "none" => life' > since[r] /\ late'
               /\ late' \/ sup' = "STOPPED"
    BY <2>1, <2>2 DEF RestartOf
  <2>3. ASSUME pc[r] \in {"start", "wait", "relocate", "verify"}, outcome[r] = "ok",
               browser' # "none"
        PROVE  Renewed(r)'
    <3>1. CASE browser # "none" /\ life' = life /\ launched' = launched
      BY <1>1, <2>1, <2>3, <3>1 DEF RestartOf, Renewed
    <3>2. CASE life' > life /\ launched' = files
      <4>1. Added(r)
        BY <2>1, <2>3 DEF FilesOf, BeforeWrite, Restarting
      <4>2. body[r].places \subseteq Places
        BY <2>1, BodyIsOne DEF ServedInv, FilesInv
      <4> QED
        BY <1>1, <2>1, <3>2, <4>1, <4>2 DEF Renewed, Added, Own
    <3> QED
      BY <2>3, <3>1, <3>2
  <2> QED
    BY <1>1, <2>1, <2>2, <2>3 DEF RestartOf
<1> QED
  BY <1>1, <1>2, <1>3, <1>4 DEF ServedInv

(* A start command in flight that nobody waits for is late.                *)
LEMMA StartCommandServes ==
    ASSUME ServedInv, NEW m \in commands, StartCommand(m)
    PROVE  ServedInv'
<1>1. /\ commands' = commands \ {m}
      /\ UNCHANGED <<requestVars, files, snap, ready, since>>
  BY DEF StartCommand
<1>2. CASE /\ sup = "STOPPED" /\ Launch /\ sup' = "RUNNING"
           /\ launched' = files /\ loaded' = {} /\ late' = (late \/ ~Waiting(m))
  <2>1. life' = life + 1 /\ browser' = "starting" /\ life \in Nat
    BY <1>2 DEF Launch, ServedInv, ServedType
  <2>2. ServedType'
    BY <1>1, <1>2, <2>1 DEF ServedInv, ServedType
  <2>3. ASSUME NEW r \in holder, pc[r] \in {"commit", "write"} PROVE late'
    <3>1. m[1] \in Requests /\ \A q \in holder : q = r
      BY DEF ServedInv, ServedType, FilesInv, OneConfigures
    <3>2. pc[m[1]] # "wait"
      <4>1. CASE m[1] \in holder
        BY <2>3, <3>1, <4>1
      <4>2. CASE m[1] \notin holder
        BY <3>1, <4>2 DEF ServedInv, FilesInv, OneConfigures
      <4> QED
        BY <4>1, <4>2
    <3> QED
      BY <1>2, <3>2 DEF Waiting
  <2>4. late => late'
    BY <1>2
  <2>5. life' > life /\ BrowserKept
    BY <1>2, <2>1 DEF BrowserKept
  <2> QED
    BY <1>1, <1>2, <2>1, <2>2, <2>3, <2>4, <2>5, ServedWhileChromiumMoves
<1>3. CASE UNCHANGED <<chromeVars, launched, loaded, late>>
  <2>1. UNCHANGED <<sup, life, browser, launched, loaded, late>>
    BY <1>3 DEF chromeVars
  <2>2. ServedType' /\ life \in Nat
    BY <1>1, <2>1 DEF ServedInv, ServedType
  <2>3. BrowserKept /\ (browser' = "none" \/ browser # "none")
    BY <2>1 DEF BrowserKept
  <2> QED
    BY <1>1, <2>1, <2>2, <2>3, ServedWhileChromiumMoves
<1> QED
  BY <1>2, <1>3 DEF StartCommand

(* Chromium crashes, comes back and is announced; the tail is restarted.   *)
LEMMA EnvironmentServes == ASSUME ServedInv, Environment PROVE ServedInv'
<1>1. /\ UNCHANGED <<requestVars, files, snap, ready, since>>
      /\ UNCHANGED <<commands, late>>
  BY DEF Environment, fileVars, startVars
<1>2. CASE Autorestart /\ launched' = files /\ loaded' = {}
  <2>1. /\ life' = life + 1 /\ browser' = "starting" /\ sup' = sup /\ life \in Nat
        /\ sup = "RUNNING"
    BY <1>2 DEF Autorestart, Launch, ServedInv, ServedType
  <2>2. ServedType'
    BY <1>1, <2>1 DEF ServedInv, ServedType
  <2>3. ASSUME NEW r \in holder, pc[r] \in {"commit", "write"}, body[r].api = "configure"
        PROVE  late'
    <3>1. RestartOf(r)
      BY DEF ServedInv
    <3> QED
      BY <1>1, <2>1, <2>3, <3>1 DEF RestartOf
  <2>4. life' > life /\ BrowserKept
    BY <1>2, <2>1 DEF BrowserKept
  <2> QED
    BY <1>1, <1>2, <2>1, <2>2, <2>3, <2>4, ServedWhileChromiumMoves
<1>3. CASE /\ Announce \/ Serve \/ Crash \/ ManagerStep \/ TailRestarts
           /\ UNCHANGED fileVars
  <2>1. /\ sup' = sup /\ life' = life /\ life \in Nat
        /\ browser' = "none" \/ browser # "none" \/ browser' = browser
        /\ launched' = launched /\ loaded' = loaded
    <3>1. UNCHANGED <<launched, loaded>>
      BY <1>3 DEF fileVars
    <3>2. life \in Nat
      BY DEF ServedInv, ServedType
    <3> QED
      BY <1>3, <3>1, <3>2 DEF Announce, Serve, Crash, ManagerStep, ReadLine, Broadcast,
         TailRestarts, chromeVars
  <2>2. ServedType'
    BY <1>1, <2>1 DEF ServedInv, ServedType
  <2>3. BrowserKept /\ (browser' = "none" \/ browser # "none")
    BY <1>1, <2>1 DEF BrowserKept
  <2> QED
    BY <1>1, <2>1, <2>2, <2>3, ServedWhileChromiumMoves
<1> QED
  BY <1>2, <1>3 DEF Environment

(* What does not concern Chromium.                                         *)
LEMMA QuietStep ==
    ASSUME ServedInv, UNCHANGED <<sup, life, browser, launched, loaded, late>>
    PROVE  BrowserKept
  BY DEF BrowserKept

(* A request that begins.                                                  *)
LEMMA LockServes ==
    ASSUME ServedInv, NEW r \in Requests, Lock(r)
    PROVE  ServedInv'
<1>1. /\ pc[r] = "new" /\ holder = {} /\ holder' = {r}
      /\ Goto(r, IF body[r].api = "configure" THEN "stop" ELSE "commit")
      /\ UNCHANGED <<sup, life, browser, launched, loaded, late>>
      /\ UNCHANGED <<body, answer, outcome, ready, since, commands>>
  BY DEF Lock, upstreamVars, chromeVars, fileVars, startVars
<1>2. BrowserKept /\ FilesInv' /\ ServedType'
  BY <1>1, QuietStep, LockStepHolds DEF ServedInv, ServedType
<1>3. /\ pc'[r] = (IF body[r].api = "configure" THEN "stop" ELSE "commit")
      /\ \A q \in Requests \ {r} : pc'[q] = pc[q]
  BY <1>1 DEF Goto, ServedInv, FilesInv, ConfigType
<1>4. RestartOf(r)'
  BY <1>1, <1>3 DEF ServedInv, RestartOf
<1>5. \A q \in Requests : answer'[q] = "ok" => ServedFor(q)'
  BY <1>1, <1>2, GrantedStays
<1>6. \A q \in Requests : since'[q] <= life' /\ (pc'[q] = "new" => ready'[q] = 0)
  BY <1>1, <1>3 DEF ServedInv
<1> QED
  BY <1>1, <1>2, <1>4, <1>5, <1>6 DEF ServedInv

(* A request that could not write is not granted.                          *)
LEMMA AbandonIsNoGrant ==
    ASSUME NEW r \in Requests, NEW a \in {"refused", "failed"}, Abandon(r, a), FilesInv
    PROVE  \/ /\ Goto(r, "start") /\ outcome'[r] # "ok" /\ UNCHANGED <<holder, answer>>
           \/ Finish(r, a)
  BY DEF Abandon, FilesInv, ConfigType

(* Nor is one whose restart failed.                                        *)
LEMMA FailedIsNoGrant ==
    ASSUME NEW r \in Requests, Failed(r), FilesInv
    PROVE  \/ /\ Goto(r, "stop") \/ Goto(r, "start")
              /\ outcome'[r] # "ok" /\ UNCHANGED <<holder, answer>>
           \/ \E a \in Answers \ {"ok"} : Finish(r, a)
<1>1. /\ outcome[r] \in Answers
      /\ \A a \in Answers : outcome' = [outcome EXCEPT ![r] = a] => outcome'[r] = a
  BY DEF FilesInv, ConfigType
<1>2. CASE body[r].api \in {"upload", "force"} /\ outcome[r] = "ok"
  BY <1>1, <1>2 DEF Failed, RollBack, Answers
<1> DEFINE TriesAgain == /\ body[r].api \in {"configure", "prefer_cdp"} /\ pc[r] = "wait"
                         /\ stage[r] # "again" /\ outcome[r] = "ok"
<1>3. CASE TriesAgain
  <2>1. /\ Goto(r, "start") /\ outcome' = [outcome EXCEPT ![r] = "kept"]
        /\ UNCHANGED <<files, holder, answer>>
    BY <1>3 DEF Failed
  <2> QED
    BY <1>1, <2>1 DEF Answers
<1>4. CASE ~(body[r].api \in {"upload", "force"} /\ outcome[r] = "ok") /\ ~TriesAgain
  <2>1. Finish(r, IF outcome[r] # "ok" THEN outcome[r]
                  ELSE IF body[r].api = "configure" /\ pc[r] = "stop"
                  THEN "failed" ELSE "kept")
    BY <1>4 DEF Failed
  <2> QED
    BY <1>1, <2>1 DEF Answers
<1> QED
  BY <1>2, <1>3, <1>4

(* Such a step leaves everybody else served.                               *)
LEMMA NoGrantServes ==
    ASSUME ServedInv, FilesInv', ServedType', BrowserKept, NEW r \in Requests,
           pc[r] \notin {"new", "done"},
           UNCHANGED <<body, life, ready, since>>,
           \/ /\ Goto(r, "stop") \/ Goto(r, "start")
              /\ outcome'[r] # "ok" /\ UNCHANGED <<holder, answer>>
           \/ \E a \in Answers \ {"ok"} : Finish(r, a)
    PROVE  ServedInv'
<1>1. r \in holder
  BY MoverHolds DEF ServedInv
<1>2. ASSUME NEW w \in {"stop", "start"}, Goto(r, w), outcome'[r] # "ok",
             UNCHANGED <<holder, answer>>
      PROVE  ServedInv'
  <2>1. pc'[r] = w
    BY <1>2 DEF Goto, ServedInv, FilesInv, ConfigType
  <2>2. RestartOf(r)' /\ since'[r] <= life
    BY <1>2, <2>1 DEF RestartOf, ServedInv
  <2> QED
    BY <1>1, <1>2, <2>2, ServedGoesOn DEF Steps
<1>3. ASSUME NEW a \in Answers \ {"ok"}, Finish(r, a) PROVE ServedInv'
  BY <1>1, <1>3, ServedAnswers
<1> QED
  BY <1>2, <1>3

(* While a request writes, those granted before stay served.               *)
LEMMA WritesServe ==
    ASSUME ServedInv, NEW r \in Requests,
           Commit(r) \/ Write(r) \/ WriteFails(r) \/ Committed(r)
    PROVE  ServedInv'
<1>1. /\ pc[r] \in {"commit", "write"}
      /\ UNCHANGED <<sup, life, browser, launched, loaded, late>>
      /\ UNCHANGED <<body, ready, since, commands>>
  BY DEF Commit, Write, WriteFails, Committed, upstreamVars, chromeVars, requestVars, fileVars,
     startVars
<1>2. FilesInv' /\ BrowserKept /\ ServedType'
  <2>1. FilesInv'
    BY CommitStepHolds, WriteStepHolds, WriteFailsHolds, CommittedStepHolds DEF ServedInv
  <2> QED
    BY <1>1, <2>1, QuietStep DEF ServedInv, ServedType
<1>3. /\ r \in holder /\ RestartOf(r) /\ since[r] <= life /\ FilesOf(r)
      /\ pc \in [Requests -> Steps]
  BY <1>1, MoverHolds DEF ServedInv, FilesInv, ConfigType
<1>4. outcome[r] = "ok" /\ ready[r] = 0
  BY <1>1, <1>3 DEF FilesOf, BeforeWrite, Writing, RestartOf
<1>5. ASSUME NEW w \in {"write", "load", "stop", "start"}, Goto(r, w),
             UNCHANGED <<holder, answer, outcome>>,
             w = "write" \/ (w = "start" => body[r].api = "configure")
      PROVE  ServedInv'
  <2>1. pc'[r] = w
    BY <1>3, <1>5 DEF Goto
  <2>2. ASSUME w = "start", browser # "none" PROVE Renewed(r)'
    BY <1>1, <1>3, <1>5, <2>2 DEF RestartOf, Renewed
  <2>3. RestartOf(r)'
    BY <1>1, <1>3, <1>4, <1>5, <2>1, <2>2 DEF RestartOf
  <2> QED
    BY <1>1, <1>2, <1>3, <1>5, <2>3, ServedGoesOn DEF Steps
<1>6. ASSUME NEW a \in {"refused", "failed"}, Abandon(r, a) PROVE ServedInv'
  <2>1. \/ /\ Goto(r, "start") /\ outcome'[r] # "ok" /\ UNCHANGED <<holder, answer>>
        \/ Finish(r, a)
    BY <1>6, AbandonIsNoGrant DEF ServedInv
  <2> QED
    BY <1>1, <1>2, <2>1, NoGrantServes DEF Answers
<1>7. CASE Commit(r)
  BY <1>5, <1>6, <1>7 DEF Commit
<1>8. CASE Write(r)
  <2>1. pc[r] = "write" /\ pc' = pc /\ UNCHANGED <<holder, answer, outcome>>
    BY <1>8 DEF Write, requestVars
  <2>2. Goto(r, "write")
    BY <1>3, <2>1 DEF Goto
  <2> QED
    BY <1>5, <2>1, <2>2
<1>9. CASE WriteFails(r)
  BY <1>6, <1>9 DEF WriteFails
<1>10. CASE Committed(r)
  <2> DEFINE w == CASE body[r].api = "configure" -> "start"
                    [] body[r].api \in {"upload", "prefer_cdp"} /\ Unpacked(r) -> "load"
                    [] OTHER -> "stop"
  <2>1. Goto(r, w) /\ UNCHANGED <<holder, answer, outcome>>
    BY <1>10 DEF Committed
  <2>2. CASE body[r].api = "configure"
    BY <1>5, <2>1, <2>2
  <2>3. CASE body[r].api # "configure" /\ body[r].api \in {"upload", "prefer_cdp"} /\ Unpacked(r)
    BY <1>5, <2>1, <2>3
  <2>4. CASE body[r].api # "configure" /\ ~(body[r].api \in {"upload", "prefer_cdp"} /\ Unpacked(r))
    BY <1>5, <2>1, <2>4
  <2> QED
    BY <2>2, <2>3, <2>4
<1> QED
  BY <1>7, <1>8, <1>9, <1>10

(* An extension that was loaded over CDP is in the current life.           *)
LEMMA LoadServes ==
    ASSUME ServedInv, NEW r \in Requests, Load(r) \/ LoadFails(r)
    PROVE  ServedInv'
<1>1. /\ pc[r] = "load" /\ loaded \subseteq loaded'
      /\ UNCHANGED <<sup, life, browser, launched, late>>
      /\ UNCHANGED <<body, outcome, ready, since, commands>>
  BY DEF Load, LoadFails, upstreamVars, chromeVars, startVars
<1>2. FilesInv' /\ BrowserKept /\ ServedType'
  BY <1>1, LoadStepsHold DEF ServedInv, ServedType, BrowserKept
<1>3. /\ r \in holder /\ RestartOf(r) /\ since[r] <= life /\ Unpacked(r) /\ outcome[r] = "ok"
      /\ pc \in [Requests -> Steps]
  BY <1>1, MoverHolds DEF ServedInv, FilesInv, ConfigType, FilesOf, BeforeWrite, Restarting
<1>4. ready[r] = 0
  BY <1>1, <1>3 DEF RestartOf
<1>5. CASE Load(r)
  <2>1. Finish(r, "ok") /\ loaded' = loaded \cup {body[r].token}
    BY <1>5 DEF Load
  <2>2. Effective(r)'
    BY <1>1, <1>3, <2>1 DEF Effective, Unpacked
  <2> QED
    BY <1>1, <1>2, <1>3, <1>4, <2>1, <2>2, ServedAnswers DEF ServedFor, Answers
<1>6. CASE LoadFails(r)
  <2>1. Goto(r, "stop") /\ UNCHANGED <<holder, answer>>
    BY <1>6 DEF LoadFails
  <2>2. pc'[r] = "stop"
    BY <1>3, <2>1 DEF Goto
  <2>3. RestartOf(r)'
    BY <1>1, <1>4, <2>2 DEF RestartOf
  <2> QED
    BY <1>1, <1>2, <1>3, <2>1, <2>3, ServedGoesOn DEF Steps
<1> QED
  BY <1>5, <1>6

(* Whoever stops Chromium remembers which life that was.                   *)
LEMMA StopServes ==
    ASSUME ServedInv, NEW r \in Requests, Stop(r)
    PROVE  ServedInv'
<1> DEFINE w == IF body[r].api = "configure" /\ stage[r] = "first"
                THEN "commit" ELSE "start"
<1>1. /\ pc[r] = "stop" /\ sup' = "STOPPED" /\ browser' = "none" /\ Goto(r, w)
      /\ since' = [since EXCEPT ![r] = life]
      /\ UNCHANGED <<life, body, holder, outcome, answer, ready, commands>>
  BY DEF Stop, startVars
<1>2. /\ since'[r] = life /\ \A q \in Requests \ {r} : since'[q] = since[q]
      /\ since' \in [Requests -> Nat] /\ life \in Nat
  BY <1>1 DEF ServedInv, ServedType
<1>3. FilesInv' /\ BrowserKept /\ ServedType'
  BY <1>1, <1>2, StopStepHolds DEF ServedInv, ServedType, BrowserKept
<1>4. r \in holder /\ RestartOf(r) /\ pc \in [Requests -> Steps]
  BY <1>1, MoverHolds DEF ServedInv, FilesInv, ConfigType
<1>5. pc'[r] = w /\ w \in {"commit", "start"}
  BY <1>1, <1>4 DEF Goto
<1>6. outcome[r] = "ok" => ready[r] = 0
  BY <1>1, <1>4 DEF RestartOf
<1>7. RestartOf(r)'
  BY <1>1, <1>5, <1>6 DEF RestartOf
<1>8. since'[r] <= life
  BY <1>2
<1> QED
  BY <1>1, <1>2, <1>3, <1>4, <1>5, <1>7, <1>8, ServedGoesOn DEF Steps

(* startChromiumAndWait sends its command.                                 *)
LEMMA StartServes ==
    ASSUME ServedInv, NEW r \in Requests, Start(r)
    PROVE  ServedInv'
<1>1. /\ pc[r] = "start" /\ Goto(r, "wait") /\ commands' = commands \cup {Me(r)}
      /\ UNCHANGED <<sup, life, browser, launched, loaded, late>>
      /\ UNCHANGED <<body, holder, outcome, answer, ready, since>>
  BY DEF Start, chromeVars, fileVars
<1>2. Me(r) \in Requests \X Stages
  BY DEF Me, ServedInv, FilesInv, ConfigType
<1>3. FilesInv' /\ BrowserKept /\ ServedType'
  BY <1>1, <1>2, StartAndReadyHold, QuietStep DEF ServedInv, ServedType
<1>4. r \in holder /\ RestartOf(r) /\ since[r] <= life /\ pc \in [Requests -> Steps]
  BY <1>1, MoverHolds DEF ServedInv, FilesInv, ConfigType
<1>5. pc'[r] = "wait"
  BY <1>1, <1>4 DEF Goto
<1>6. RestartOf(r)'
  BY <1>1, <1>4, <1>5 DEF RestartOf, Renewed
<1> QED
  BY <1>1, <1>3, <1>4, <1>6, ServedGoesOn DEF Steps

(* The URL a request finds ready is that of the life that runs.            *)
LEMMA ReadyServes ==
    ASSUME ServedInv, NEW r \in Requests, Ready(r)
    PROVE  ServedInv'
<1>1. /\ pc[r] = "wait" /\ Goto(r, "relocate")
      /\ UNCHANGED <<sup, life, browser, launched, loaded, late>>
      /\ UNCHANGED <<body, holder, outcome, answer, commands, since>>
  BY DEF Ready, chromeVars, fileVars
<1>2. browser = "serving" /\ ready' = [ready EXCEPT ![r] = life]
  BY DEF Ready, TryReady
<1>3. /\ ready'[r] = life /\ \A q \in Requests \ {r} : ready'[q] = ready[q]
      /\ ready' \in [Requests -> Nat]
  BY <1>2 DEF ServedInv, ServedType
<1>4. FilesInv' /\ BrowserKept /\ ServedType'
  BY <1>1, <1>3, StartAndReadyHold, QuietStep DEF ServedInv, ServedType
<1>5. r \in holder /\ RestartOf(r) /\ since[r] <= life /\ pc \in [Requests -> Steps]
  BY <1>1, MoverHolds DEF ServedInv, FilesInv, ConfigType
<1>6. pc'[r] = "relocate"
  BY <1>1, <1>5 DEF Goto
<1>7. outcome[r] = "ok" => Renewed(r)
  BY <1>1, <1>2, <1>5 DEF RestartOf
<1>8. RestartOf(r)'
  BY <1>1, <1>3, <1>6, <1>7 DEF RestartOf, Renewed
<1> QED
  BY <1>1, <1>3, <1>4, <1>5, <1>8, ServedGoesOn DEF Steps

(* The steps that fail grant nothing.                                      *)
LEMMA FailuresServe ==
    ASSUME ServedInv, NEW r \in Requests, StartFails(r) \/ StopFails(r) \/ VerifyFails(r)
    PROVE  ServedInv'
<1>1. /\ pc[r] \in {"stop", "wait", "verify"} /\ Failed(r)
      /\ UNCHANGED <<body, life, ready, since, launched, loaded, late, commands>>
      /\ \/ sup' = "STOPPED" /\ browser' = "none"
         \/ UNCHANGED <<sup, browser>>
  BY DEF StartFails, StopFails, VerifyFails, upstreamVars, chromeVars, startVars
<1>2. FilesInv' /\ BrowserKept /\ ServedType'
  BY <1>1, FailuresHold DEF ServedInv, ServedType, BrowserKept
<1> QED
  BY <1>1, <1>2, FailedIsNoGrant, NoGrantServes DEF ServedInv

(* A request is granted when the life it waited for has what it wrote.     *)
LEMMA RelocateAndVerifyServe ==
    ASSUME ServedInv, NEW r \in Requests,
           Verify(r) \/ \E ok \in BOOLEAN : Relocate(r, ok)
    PROVE  ServedInv'
<1>1. /\ pc[r] \in {"relocate", "verify"}
      /\ UNCHANGED <<sup, life, browser, launched, loaded, late>>
      /\ UNCHANGED <<body, outcome, ready, since, commands>>
  BY DEF Verify, Relocate, upstreamVars, chromeVars, fileVars, startVars
<1>2. FilesInv' /\ BrowserKept /\ ServedType'
  BY <1>1, RelocateAndVerifyHold, QuietStep DEF ServedInv, ServedType
<1>3. /\ r \in holder /\ RestartOf(r) /\ since[r] <= life /\ outcome[r] \in Answers
      /\ pc \in [Requests -> Steps]
  BY <1>1, MoverHolds DEF ServedInv, FilesInv, ConfigType
<1>4. outcome[r] = "ok" => ready[r] > since[r]
  BY <1>1, <1>3 DEF RestartOf
<1>5. CASE Verify(r)
  <2>1. Finish(r, "ok") /\ Effective(r) /\ outcome[r] = "ok"
    <3>1. Finish(r, "ok") /\ Effective(r) /\ pc[r] = "verify"
      BY <1>5 DEF Verify
    <3> QED
      BY <3>1, MoverHolds DEF ServedInv, FilesOf, BeforeWrite, Restarting
  <2>2. ServedFor(r)'
    BY <1>1, <1>4, <2>1 DEF ServedFor, Effective, Unpacked
  <2> QED
    BY <1>1, <1>2, <1>3, <2>1, <2>2, ServedAnswers DEF Answers
<1>6. ASSUME NEW ok \in BOOLEAN, Relocate(r, ok) PROVE ServedInv'
  <2>1. pc[r] = "relocate"
    BY <1>6 DEF Relocate
  <2>2. CASE ~ok \/ outcome[r] # "ok"
    <3>1. PICK a \in Answers \ {"ok"} : Finish(r, a)
      BY <1>3, <1>6, <2>2 DEF Relocate, Succeeded, Answers
    <3> QED
      BY <1>1, <1>2, <1>3, <3>1, ServedAnswers
  <2>3. CASE ok /\ outcome[r] = "ok"
    <3>1. Succeeded(r)
      BY <1>6, <2>3 DEF Relocate
    <3>2. browser # "none" => Renewed(r)
      BY <1>3, <2>1, <2>3 DEF RestartOf
    <3>3. CASE Unpacked(r) /\ (body[r].api = "upload" \/ stage[r] = "fallback")
      <4>1. Goto(r, "verify") /\ UNCHANGED <<holder, answer>>
        BY <2>3, <3>1, <3>3 DEF Succeeded
      <4>2. pc'[r] = "verify"
        BY <1>3, <4>1 DEF Goto
      <4>3. RestartOf(r)'
        BY <1>1, <1>4, <2>3, <3>2, <4>2 DEF RestartOf, Renewed
      <4> QED
        BY <1>1, <1>2, <1>3, <4>1, <4>3, ServedGoesOn DEF Steps
    <3>4. CASE ~(Unpacked(r) /\ (body[r].api = "upload" \/ stage[r] = "fallback"))
      <4>1. Finish(r, "ok")
        BY <2>3, <3>1, <3>4 DEF Succeeded
      <4>2. ServedFor(r)'
        BY <1>1, <1>4, <2>3, <3>2 DEF ServedFor, Effective, Renewed
      <4> QED
        BY <1>1, <1>2, <1>3, <4>1, <4>2, ServedAnswers DEF Answers
    <3> QED
      BY <3>3, <3>4
  <2> QED
    BY <2>2, <2>3
<1> QED
  BY <1>5, <1>6

(* ServedInv is inductive.                                                 *)
LEMMA ServedNextHolds == ASSUME ServedInv, [Next]_vars PROVE ServedInv'
<1>1. ASSUME NEW r \in Requests, Step(r) PROVE ServedInv'
  BY <1>1, LockServes, WritesServe, LoadServes, StopServes, StartServes, ReadyServes,
     FailuresServe, RelocateAndVerifyServe DEF Step
<1>2. CASE UNCHANGED vars
  <2>1. /\ UNCHANGED <<sup, life, browser, launched, loaded, late, commands>>
        /\ UNCHANGED <<requestVars, files, snap, ready, since>>
    BY <1>2 DEF vars, upstreamVars, chromeVars, fileVars, startVars
  <2>2. ServedType' /\ BrowserKept /\ life \in Nat
    BY <2>1, QuietStep DEF ServedInv, ServedType
  <2>3. browser' = "none" \/ browser # "none"
    BY <2>1
  <2> QED
    BY <2>1, <2>2, <2>3, ServedWhileChromiumMoves
<1> QED
  BY <1>1, <1>2, EnvironmentServes, StartCommandServes DEF Next

(* Nothing has been granted yet.                                           *)
LEMMA ServedInitHolds == ASSUME Init PROVE ServedInv
<1>1. FilesInv
  BY ConfigInitHolds
<1>2. ServedType /\ holder = {}
  BY DEF Init, UpstreamInit, ServedType
<1>3. \A r \in Requests : since[r] <= life /\ ready[r] = 0 /\ answer[r] # "ok"
  BY DEF Init, UpstreamInit
<1> QED
  BY <1>1, <1>2, <1>3 DEF ServedInv

(* A request that was granted was granted for a life later than the one it *)
(* stopped, and Chromium runs with what it asked for, unless a start that  *)
(* had been given up on launched it: also after crashes, and while other   *)
(* requests write, fail and roll back.                                     *)
THEOREM GrantIsServed == Spec => []GrantedIsServed
<1>1. ServedInv => GrantedIsServed
  BY DEF ServedInv, ServedFor, GrantedIsServed
<1> QED
  BY <1>1, ServedInitHolds, ServedNextHolds, PTL DEF Spec

-----------------------------------------------------------------------------
(* Live views. *)

States == Frames \cup {None}
Emitting == {"emit", "emitScan", "lost", "leave"}
Watching == {"poll", "emit", "emitScan", "scan"}

ViewType ==
    /\ exists \subseteq Frames /\ Top \in exists /\ focus \in exists \cup {None}
    /\ dirty \subseteq Frames
    /\ subs \subseteq Clients /\ latest \in States
    /\ channel \in [Clients -> States \cup {Nothing}] /\ shown \in [Clients -> States \cup {Nothing}]
    /\ timer \in Nat /\ timers \in Nat /\ closed \in BOOLEAN
    /\ run \in 0..runs /\ runs \in 0..MaxRuns
    /\ runStage \in [Runs -> {"none", "idle", "dialing", "on", "ended", "over"}]

LinkType ==
    /\ poller \in [Frames -> {"none", "inject"} \cup Watching \cup Emitting]
    /\ known \in [Frames -> BOOLEAN] /\ newer \in [Frames -> SUBSET Frames]
    /\ counted \in [Frames -> SUBSET Frames] /\ missed \in BOOLEAN
    /\ emits \in [Frames -> States \cup {Nothing}]
    /\ scan \in [at : {"no", "asked", "walk"}, again : BOOLEAN, tree : SUBSET Frames]

(* The run is one that has not ended, and those to come have not begun.    *)
RunGoes ==
    /\ run # 0 => runStage[run] \in {"idle", "dialing", "on", "ended"} /\ ~closed
    /\ \A r \in Runs : r > runs => runStage[r] = "none"

(* The linger timer waits for the last subscriber's run.                   *)
TimerWaits == timer # 0 => subs = {}

(* A connection that is over has left nothing behind.                      *)
LinkGone ==
    ~On => /\ \A f \in Frames : /\ poller[f] = "none" /\ ~known[f] /\ counted[f] = {}
                                /\ emits[f] = Nothing
           /\ scan = NoScan

(* A report is the truth until the page changes again.                     *)
ReportsAreTrue ==
    /\ \A f \in Frames : known[f] => poller[f] \in Watching
    /\ \A f \in exists \ dirty : poller[f] \in Watching => (known[f] <=> f = focus)
    /\ Top \notin dirty /\ poller[Top] \in Watching => counted[Top] = exists

(* The reports are in the order of their numbers.                          *)
NewerIsAnOrder ==
    /\ \A f \in Frames : f \notin newer[f]
    /\ \A f, g \in Frames : g \in newer[f] => newer[g] \subseteq newer[f]

(* One goroutine publishes at a time; either what it has taken is what all *)
(* of them know, or another one will publish.                              *)
Pending == \E f \in Frames : poller[f] \in Emitting /\ emits[f] = Nothing

OneEmits ==
    /\ \A f \in Frames : emits[f] # Nothing => poller[f] \in Emitting
    /\ \A f, g \in Frames : emits[f] # Nothing /\ emits[g] # Nothing => f = g
    /\ Pending \/ \A f \in Frames : emits[f] # Nothing => emits[f] = Merged
    /\ On => Pending \/ latest = Merged \/ \E f \in Frames : emits[f] # Nothing

(* The page, and what it embeds, is watched or will be found, unless a     *)
(* scan has failed or the number of frames has not told of a change.       *)
Found(f) ==
    \/ poller[f] # "none"
    \/ scan.at = "asked" \/ scan.again
    \/ scan.at = "walk" /\ f \in scan.tree

FramesAreFound ==
    /\ scan.at = "no" => scan = NoScan
    /\ \A f \in exists : poller[f] # "leave"
    /\ On /\ ~missed => Found(Top)
    /\ On /\ ~missed /\ poller[Top] \notin {"emitScan", "scan"} =>
        \A f \in counted[Top] \cap exists : Found(f)

FocusInv ==
    /\ ViewType /\ LinkType /\ RunGoes /\ TimerWaits /\ LinkGone /\ ReportsAreTrue
    /\ NewerIsAnOrder /\ OneEmits /\ FramesAreFound /\ WatchedWhileSubscribed /\ LatestIsLive /\ NewestReaches

(* What they know does not change with anything else.                      *)
LEMMA MergedStays ==
    ASSUME known' = known, newer' = newer
    PROVE  Merged' = Merged
  BY DEF Merged, Focused

(* Of the reports that tell of a focused field, one is the newest.         *)
LEMMA MergedIsAState ==
    ASSUME LinkType, NewerIsAnOrder
    PROVE  Merged \in States
<1>1. CASE Focused = {}
  BY <1>1 DEF Merged, States
<1>2. CASE Focused # {}
  <2> DEFINE Count(f) == Cardinality(newer[f])
             Counts == {Count(f) : f \in Focused}
             Less == OpToRel(<, Nat)
  <2>1. IsFiniteSet(Frames)
    BY FocusAssumption, FS_AddElement DEF Frames
  <2>2. \A f \in Frames : newer[f] \in SUBSET Frames /\ IsFiniteSet(newer[f])
    BY <2>1, FS_Subset DEF LinkType
  <2>3. \A f \in Frames : Count(f) \in Nat
    BY <2>2, FS_CardinalityType
  <2>4. Focused \subseteq Frames
    BY DEF Focused
  <2>5. Counts \subseteq Nat /\ Counts # {}
    BY <1>2, <2>3, <2>4
  <2>6. PICK n \in Counts : \A m \in Counts : <<m, n>> \notin Less
    <3> HIDE DEF Less, Counts
    <3> QED
      BY <2>5, NatLessThanWellFounded, WFMin DEF Less
  <2>7. \A m \in Counts : ~ (m < n)
    BY <2>5, <2>6 DEF OpToRel
  <2>8. PICK f \in Focused : n = Count(f)
    OBVIOUS
  <2>9. ASSUME NEW g \in newer[f] \cap Focused
        PROVE  FALSE
    <3>1. newer[g] \subseteq newer[f] /\ g \notin newer[g] /\ g \in newer[f]
      BY <2>4, <2>9 DEF NewerIsAnOrder
    <3>2. Count(g) <= Count(f) /\ Count(g) # Count(f)
      BY <2>2, <2>4, <3>1, FS_Subset
    <3>3. Count(g) < Count(f)
      BY <2>3, <2>4, <3>2
    <3> QED
      BY <2>7, <2>8, <3>3
  <2> QED
    BY <1>2, <2>4, <2>9 DEF Merged, States
<1> QED
  BY <1>1, <1>2

(* The focus moves in the page.                                            *)
LEMMA FocusMoveFocus ==
    ASSUME FocusInv, NEW f \in Frames \cup {None}, MoveFocus(f)
    PROVE  FocusInv'
<1>0. /\ FocusAssumption /\ ViewType /\ LinkType /\ RunGoes /\ TimerWaits /\ LinkGone
      /\ ReportsAreTrue /\ NewerIsAnOrder /\ OneEmits /\ FramesAreFound
      /\ WatchedWhileSubscribed /\ LatestIsLive /\ NewestReaches
  BY FocusAssumption DEF FocusInv
<1>m. Merged' = Merged
  BY MergedStays DEF MoveFocus, linkVars, frameVars
<1>1. ViewType'
  BY <1>0 DEF MoveFocus, clientVars, timerVars, runVars, ViewType
<1>2. LinkType'
  BY <1>0 DEF MoveFocus, linkVars, frameVars, LinkType
<1>3. RunGoes'
  BY <1>0 DEF MoveFocus, runVars, RunGoes
<1>4. TimerWaits'
  BY <1>0 DEF MoveFocus, clientVars, timerVars, TimerWaits
<1>5. LinkGone'
  BY <1>0 DEF MoveFocus, runVars, linkVars, frameVars, LinkGone, On
<1>6. ReportsAreTrue'
  BY <1>0 DEF MoveFocus, linkVars, frameVars, ReportsAreTrue, ViewType, Frames,
       None, Top
<1>7. OneEmits'
  BY <1>0, <1>m DEF MoveFocus, runVars, linkVars, frameVars, OneEmits, Pending, On
<1>8. FramesAreFound'
  BY <1>0 DEF MoveFocus, runVars, linkVars, frameVars, FramesAreFound, Found, On
<1>9. WatchedWhileSubscribed'
  BY <1>0 DEF MoveFocus, clientVars, timerVars, runVars, WatchedWhileSubscribed
<1>10. LatestIsLive'
  BY <1>0 DEF MoveFocus, runVars, LatestIsLive
<1>11. NewestReaches'
  BY <1>0 DEF MoveFocus, clientVars, NewestReaches
<1>12. NewerIsAnOrder'
  BY <1>0 DEF MoveFocus, linkVars, frameVars, NewerIsAnOrder
<1> QED
  BY <1>1, <1>2, <1>3, <1>4, <1>5, <1>6, <1>7, <1>8, <1>9, <1>10, <1>11, <1>12 DEF
       FocusInv

(* The page embeds a frame.                                                *)
LEMMA FocusAddFrame ==
    ASSUME FocusInv, NEW f \in Inner, AddFrame(f)
    PROVE  FocusInv'
<1>0. /\ FocusAssumption /\ ViewType /\ LinkType /\ RunGoes /\ TimerWaits /\ LinkGone
      /\ ReportsAreTrue /\ NewerIsAnOrder /\ OneEmits /\ FramesAreFound
      /\ WatchedWhileSubscribed /\ LatestIsLive /\ NewestReaches
  BY FocusAssumption DEF FocusInv
<1>m. Merged' = Merged
  BY MergedStays DEF AddFrame, linkVars, frameVars
<1>1. ViewType'
  BY <1>0 DEF AddFrame, clientVars, timerVars, runVars, ViewType, Frames
<1>2. LinkType'
  BY <1>0 DEF AddFrame, linkVars, frameVars, LinkType
<1>3. RunGoes'
  BY <1>0 DEF AddFrame, runVars, RunGoes
<1>4. TimerWaits'
  BY <1>0 DEF AddFrame, clientVars, timerVars, TimerWaits
<1>5. LinkGone'
  BY <1>0 DEF AddFrame, runVars, linkVars, frameVars, LinkGone, On
<1>6. ReportsAreTrue'
  BY <1>0 DEF AddFrame, linkVars, frameVars, ReportsAreTrue
<1>7. OneEmits'
  BY <1>0, <1>m DEF AddFrame, runVars, linkVars, frameVars, OneEmits, Pending, On
<1>8. FramesAreFound'
  BY <1>0 DEF AddFrame, runVars, linkVars, frameVars, FramesAreFound, Found, On
<1>9. WatchedWhileSubscribed'
  BY <1>0 DEF AddFrame, clientVars, timerVars, runVars, WatchedWhileSubscribed
<1>10. LatestIsLive'
  BY <1>0 DEF AddFrame, runVars, LatestIsLive
<1>11. NewestReaches'
  BY <1>0 DEF AddFrame, clientVars, NewestReaches
<1>12. NewerIsAnOrder'
  BY <1>0 DEF AddFrame, linkVars, frameVars, NewerIsAnOrder
<1> QED
  BY <1>1, <1>2, <1>3, <1>4, <1>5, <1>6, <1>7, <1>8, <1>9, <1>10, <1>11, <1>12 DEF
       FocusInv

(* A frame goes.                                                           *)
LEMMA FocusRemoveFrame ==
    ASSUME FocusInv, NEW f \in Inner, RemoveFrame(f)
    PROVE  FocusInv'
<1>0. /\ FocusAssumption /\ ViewType /\ LinkType /\ RunGoes /\ TimerWaits /\ LinkGone
      /\ ReportsAreTrue /\ NewerIsAnOrder /\ OneEmits /\ FramesAreFound
      /\ WatchedWhileSubscribed /\ LatestIsLive /\ NewestReaches
  BY FocusAssumption DEF FocusInv
<1>m. Merged' = Merged
  BY MergedStays DEF RemoveFrame, linkVars, frameVars
<1>1. ViewType'
  BY <1>0 DEF RemoveFrame, clientVars, timerVars, runVars, ViewType, Top
<1>2. LinkType'
  BY <1>0 DEF RemoveFrame, linkVars, frameVars, LinkType
<1>3. RunGoes'
  BY <1>0 DEF RemoveFrame, runVars, RunGoes
<1>4. TimerWaits'
  BY <1>0 DEF RemoveFrame, clientVars, timerVars, TimerWaits
<1>5. LinkGone'
  BY <1>0 DEF RemoveFrame, runVars, linkVars, frameVars, LinkGone, On
<1>6. ReportsAreTrue'
  BY <1>0 DEF RemoveFrame, linkVars, frameVars, ReportsAreTrue, ViewType, Frames,
       None
<1>7. OneEmits'
  BY <1>0, <1>m DEF RemoveFrame, runVars, linkVars, frameVars, OneEmits, Pending, On
<1>8. FramesAreFound'
  BY <1>0 DEF RemoveFrame, runVars, linkVars, frameVars, FramesAreFound, Found, On
<1>9. WatchedWhileSubscribed'
  BY <1>0 DEF RemoveFrame, clientVars, timerVars, runVars, WatchedWhileSubscribed
<1>10. LatestIsLive'
  BY <1>0 DEF RemoveFrame, runVars, LatestIsLive
<1>11. NewestReaches'
  BY <1>0 DEF RemoveFrame, clientVars, NewestReaches
<1>12. NewerIsAnOrder'
  BY <1>0 DEF RemoveFrame, linkVars, frameVars, NewerIsAnOrder
<1> QED
  BY <1>1, <1>2, <1>3, <1>4, <1>5, <1>6, <1>7, <1>8, <1>9, <1>10, <1>11, <1>12 DEF
       FocusInv

(* A live view subscribes, and may start a run.                            *)
LEMMA FocusSubscribe ==
    ASSUME FocusInv, NEW c \in Clients, Subscribe(c)
    PROVE  FocusInv'
<1>0. /\ FocusAssumption /\ ViewType /\ LinkType /\ RunGoes /\ TimerWaits /\ LinkGone
      /\ ReportsAreTrue /\ NewerIsAnOrder /\ OneEmits /\ FramesAreFound
      /\ WatchedWhileSubscribed /\ LatestIsLive /\ NewestReaches
  BY FocusAssumption DEF FocusInv
<1>m. Merged' = Merged
  BY MergedStays DEF Subscribe, linkVars, frameVars
<1>1. ViewType'
  BY <1>0 DEF Subscribe, browserVars, ViewType
<1>2. LinkType'
  BY <1>0 DEF Subscribe, linkVars, frameVars, LinkType
<1>3. RunGoes'
  BY <1>0 DEF Subscribe, RunGoes, ViewType, Runs
<1>4. TimerWaits'
  BY <1>0 DEF Subscribe, TimerWaits
<1>5. LinkGone'
  BY <1>0 DEF Subscribe, linkVars, frameVars, LinkGone, On
<1>6. ReportsAreTrue'
  BY <1>0 DEF Subscribe, browserVars, linkVars, frameVars, ReportsAreTrue
<1>7. OneEmits'
  BY <1>0, <1>m DEF Subscribe, linkVars, frameVars, OneEmits, Pending, On, ViewType,
       Runs
<1>8. FramesAreFound'
  BY <1>0 DEF Subscribe, browserVars, linkVars, frameVars, FramesAreFound, Found,
       ViewType, On, Runs
<1>9. WatchedWhileSubscribed'
  BY <1>0 DEF Subscribe, WatchedWhileSubscribed, ViewType
<1>10. LatestIsLive'
  BY <1>0 DEF Subscribe, LatestIsLive
<1>11. NewestReaches'
  BY <1>0 DEF Subscribe, NewestReaches, ViewType, States, Frames, Nothing, None, Top
<1>12. NewerIsAnOrder'
  BY <1>0 DEF Subscribe, linkVars, frameVars, NewerIsAnOrder
<1> QED
  BY <1>1, <1>2, <1>3, <1>4, <1>5, <1>6, <1>7, <1>8, <1>9, <1>10, <1>11, <1>12 DEF
       FocusInv

(* It is given a state.                                                    *)
LEMMA FocusReceive ==
    ASSUME FocusInv, NEW c \in Clients, Receive(c)
    PROVE  FocusInv'
<1>0. /\ FocusAssumption /\ ViewType /\ LinkType /\ RunGoes /\ TimerWaits /\ LinkGone
      /\ ReportsAreTrue /\ NewerIsAnOrder /\ OneEmits /\ FramesAreFound
      /\ WatchedWhileSubscribed /\ LatestIsLive /\ NewestReaches
  BY FocusAssumption DEF FocusInv
<1>m. Merged' = Merged
  BY MergedStays DEF Receive, linkVars, frameVars
<1>1. ViewType'
  BY <1>0 DEF Receive, browserVars, timerVars, runVars, ViewType
<1>2. LinkType'
  BY <1>0 DEF Receive, linkVars, frameVars, LinkType
<1>3. RunGoes'
  BY <1>0 DEF Receive, runVars, RunGoes
<1>4. TimerWaits'
  BY <1>0 DEF Receive, timerVars, TimerWaits
<1>5. LinkGone'
  BY <1>0 DEF Receive, runVars, linkVars, frameVars, LinkGone, On
<1>6. ReportsAreTrue'
  BY <1>0 DEF Receive, browserVars, linkVars, frameVars, ReportsAreTrue
<1>7. OneEmits'
  BY <1>0, <1>m DEF Receive, runVars, linkVars, frameVars, OneEmits, Pending, On
<1>8. FramesAreFound'
  BY <1>0 DEF Receive, browserVars, runVars, linkVars, frameVars, FramesAreFound,
       Found, On
<1>9. WatchedWhileSubscribed'
  BY <1>0 DEF Receive, runVars, WatchedWhileSubscribed
<1>10. LatestIsLive'
  BY <1>0 DEF Receive, runVars, LatestIsLive
<1>11. NewestReaches'
  BY <1>0 DEF Receive, NewestReaches, ViewType
<1>12. NewerIsAnOrder'
  BY <1>0 DEF Receive, linkVars, frameVars, NewerIsAnOrder
<1> QED
  BY <1>1, <1>2, <1>3, <1>4, <1>5, <1>6, <1>7, <1>8, <1>9, <1>10, <1>11, <1>12 DEF
       FocusInv

(* It goes, and the last one starts the timer.                             *)
LEMMA FocusUnsubscribe ==
    ASSUME FocusInv, NEW c \in Clients, Unsubscribe(c)
    PROVE  FocusInv'
<1>0. /\ FocusAssumption /\ ViewType /\ LinkType /\ RunGoes /\ TimerWaits /\ LinkGone
      /\ ReportsAreTrue /\ NewerIsAnOrder /\ OneEmits /\ FramesAreFound
      /\ WatchedWhileSubscribed /\ LatestIsLive /\ NewestReaches
  BY FocusAssumption DEF FocusInv
<1>m. Merged' = Merged
  BY MergedStays DEF Unsubscribe, linkVars, frameVars
<1>1. ViewType'
  BY <1>0 DEF Unsubscribe, browserVars, timerVars, runVars, ViewType
<1>2. LinkType'
  BY <1>0 DEF Unsubscribe, linkVars, frameVars, LinkType
<1>3. RunGoes'
  BY <1>0 DEF Unsubscribe, runVars, RunGoes
<1>4. TimerWaits'
  BY <1>0 DEF Unsubscribe, timerVars, TimerWaits
<1>5. LinkGone'
  BY <1>0 DEF Unsubscribe, runVars, linkVars, frameVars, LinkGone, On
<1>6. ReportsAreTrue'
  BY <1>0 DEF Unsubscribe, browserVars, linkVars, frameVars, ReportsAreTrue
<1>7. OneEmits'
  BY <1>0, <1>m DEF Unsubscribe, runVars, linkVars, frameVars, OneEmits, Pending, On
<1>8. FramesAreFound'
  BY <1>0 DEF Unsubscribe, browserVars, runVars, linkVars, frameVars,
       FramesAreFound, Found, On
<1>9. WatchedWhileSubscribed'
  BY <1>0 DEF Unsubscribe, runVars, WatchedWhileSubscribed, ViewType
<1>10. LatestIsLive'
  BY <1>0 DEF Unsubscribe, runVars, LatestIsLive
<1>11. NewestReaches'
  BY <1>0 DEF Unsubscribe, NewestReaches
<1>12. NewerIsAnOrder'
  BY <1>0 DEF Unsubscribe, linkVars, frameVars, NewerIsAnOrder
<1> QED
  BY <1>1, <1>2, <1>3, <1>4, <1>5, <1>6, <1>7, <1>8, <1>9, <1>10, <1>11, <1>12 DEF
       FocusInv

(* A timer expires.                                                        *)
LEMMA FocusExpire ==
    ASSUME FocusInv, NEW t \in 1..timers, Expire(t)
    PROVE  FocusInv'
<1>0. /\ FocusAssumption /\ ViewType /\ LinkType /\ RunGoes /\ TimerWaits /\ LinkGone
      /\ ReportsAreTrue /\ NewerIsAnOrder /\ OneEmits /\ FramesAreFound
      /\ WatchedWhileSubscribed /\ LatestIsLive /\ NewestReaches
  BY FocusAssumption DEF FocusInv
<1>m. Merged' = Merged
  BY MergedStays DEF Expire, linkVars, frameVars
<1>1. ViewType'
  BY <1>0 DEF Expire, browserVars, clientVars, runVars, ViewType
<1>2. LinkType'
  BY <1>0 DEF Expire, linkVars, frameVars, LinkType
<1>3. RunGoes'
  BY <1>0 DEF Expire, runVars, RunGoes
<1>4. TimerWaits'
  BY <1>0 DEF Expire, clientVars, TimerWaits
<1>5. LinkGone'
  BY <1>0 DEF Expire, runVars, linkVars, frameVars, LinkGone, On
<1>6. ReportsAreTrue'
  BY <1>0 DEF Expire, browserVars, linkVars, frameVars, ReportsAreTrue
<1>7. OneEmits'
  BY <1>0, <1>m DEF Expire, runVars, linkVars, frameVars, OneEmits, Pending, On
<1>8. FramesAreFound'
  BY <1>0 DEF Expire, browserVars, runVars, linkVars, frameVars, FramesAreFound,
       Found, On
<1>9. WatchedWhileSubscribed'
  BY <1>0 DEF Expire, clientVars, runVars, WatchedWhileSubscribed
<1>10. LatestIsLive'
  BY <1>0 DEF Expire, runVars, LatestIsLive
<1>11. NewestReaches'
  BY <1>0 DEF Expire, clientVars, NewestReaches
<1>12. NewerIsAnOrder'
  BY <1>0 DEF Expire, linkVars, frameVars, NewerIsAnOrder
<1> QED
  BY <1>1, <1>2, <1>3, <1>4, <1>5, <1>6, <1>7, <1>8, <1>9, <1>10, <1>11, <1>12 DEF
       FocusInv

(* Its callback stops the run, if it is still meant.                       *)
LEMMA FocusLinger ==
    ASSUME FocusInv, NEW t \in 1..timers, Linger(t)
    PROVE  FocusInv'
<1>0. /\ FocusAssumption /\ ViewType /\ LinkType /\ RunGoes /\ TimerWaits /\ LinkGone
      /\ ReportsAreTrue /\ NewerIsAnOrder /\ OneEmits /\ FramesAreFound
      /\ WatchedWhileSubscribed /\ LatestIsLive /\ NewestReaches
  BY FocusAssumption DEF FocusInv
<1>1. ViewType'
  BY <1>0 DEF Linger, StopRun, browserVars, clientVars, ViewType, States
<1>2. LinkType'
  <2>1. poller' \in [Frames -> {"none", "inject"} \cup Watching \cup Emitting]
    BY <1>0 DEF Linger, StopRun, NoLink, linkVars, frameVars, LinkType
  <2>2. known' \in [Frames -> BOOLEAN] /\ newer' \in [Frames -> SUBSET Frames]
    BY <1>0 DEF Linger, StopRun, NoLink, linkVars, frameVars, LinkType
  <2>3. counted' \in [Frames -> SUBSET Frames] /\ missed' \in BOOLEAN
    BY <1>0 DEF Linger, StopRun, NoLink, linkVars, frameVars, LinkType
  <2>4. emits' \in [Frames -> States \cup {Nothing}]
    BY <1>0 DEF Linger, StopRun, NoLink, linkVars, LinkType
  <2>5. scan' \in [at : {"no", "asked", "walk"}, again : BOOLEAN, tree : SUBSET Frames]
    <3>1. scan' = scan \/ scan' = NoScan
      BY <1>0 DEF Linger, StopRun, NoLink, linkVars
    <3>2. NoScan \in [at : {"no", "asked", "walk"}, again : BOOLEAN, tree : SUBSET Frames]
      BY DEF NoScan
    <3> QED
      BY <1>0, <3>1, <3>2 DEF LinkType
  <2> QED
    BY <2>1, <2>2, <2>3, <2>4, <2>5 DEF LinkType
<1>3. RunGoes'
  BY <1>0 DEF Linger, StopRun, RunGoes
<1>4. TimerWaits'
  BY <1>0 DEF Linger, clientVars, TimerWaits
<1>5. LinkGone'
  BY <1>0 DEF Linger, StopRun, NoLink, linkVars, frameVars, LinkGone, On
<1>6. ReportsAreTrue'
  BY <1>0 DEF Linger, StopRun, NoLink, browserVars, linkVars, frameVars,
       ReportsAreTrue, ViewType, Watching
<1>7. OneEmits'
  <2>1. \/ emits' = emits /\ known' = known /\ newer' = newer /\ poller' = poller
           /\ latest' = latest /\ (On' => On)
        \/ emits' = [f \in Frames |-> Nothing] /\ ~On'
    BY <1>0 DEF Linger, StopRun, NoLink, linkVars, frameVars, On
  <2>2. CASE /\ emits' = emits /\ known' = known /\ newer' = newer /\ poller' = poller
             /\ latest' = latest /\ (On' => On)
    BY <1>0, <2>2, MergedStays DEF OneEmits, Pending
  <2>3. CASE emits' = [f \in Frames |-> Nothing] /\ ~On'
    BY <2>3 DEF OneEmits
  <2> QED
    BY <2>1, <2>2, <2>3
<1>8. FramesAreFound'
  BY <1>0 DEF Linger, StopRun, NoLink, browserVars, linkVars, frameVars,
       FramesAreFound, Found, ViewType, On
<1>9. WatchedWhileSubscribed'
  BY <1>0 DEF Linger, StillMeant, StopRun, clientVars, WatchedWhileSubscribed,
       TimerWaits
<1>10. LatestIsLive'
  BY <1>0 DEF Linger, StopRun, LatestIsLive
<1>11. NewestReaches'
  BY <1>0 DEF Linger, StillMeant, clientVars, NewestReaches, TimerWaits
<1>12. NewerIsAnOrder'
  BY <1>0 DEF Linger, StopRun, NoLink, linkVars, frameVars, NewerIsAnOrder
<1> QED
  BY <1>1, <1>2, <1>3, <1>4, <1>5, <1>6, <1>7, <1>8, <1>9, <1>10, <1>11, <1>12 DEF
       FocusInv

(* The watcher is closed.                                                  *)
LEMMA FocusClose ==
    ASSUME FocusInv, Close
    PROVE  FocusInv'
<1>0. /\ FocusAssumption /\ ViewType /\ LinkType /\ RunGoes /\ TimerWaits /\ LinkGone
      /\ ReportsAreTrue /\ NewerIsAnOrder /\ OneEmits /\ FramesAreFound
      /\ WatchedWhileSubscribed /\ LatestIsLive /\ NewestReaches
  BY FocusAssumption DEF FocusInv
<1>1. ViewType'
  BY <1>0 DEF Close, StopRun, browserVars, clientVars, ViewType, States
<1>2. LinkType'
  <2>1. poller' \in [Frames -> {"none", "inject"} \cup Watching \cup Emitting]
    BY <1>0 DEF Close, StopRun, NoLink, linkVars, frameVars, LinkType
  <2>2. known' \in [Frames -> BOOLEAN] /\ newer' \in [Frames -> SUBSET Frames]
    BY <1>0 DEF Close, StopRun, NoLink, linkVars, frameVars, LinkType
  <2>3. counted' \in [Frames -> SUBSET Frames] /\ missed' \in BOOLEAN
    BY <1>0 DEF Close, StopRun, NoLink, linkVars, frameVars, LinkType
  <2>4. emits' \in [Frames -> States \cup {Nothing}]
    BY <1>0 DEF Close, StopRun, NoLink, linkVars, LinkType
  <2>5. scan' \in [at : {"no", "asked", "walk"}, again : BOOLEAN, tree : SUBSET Frames]
    <3>1. scan' = scan \/ scan' = NoScan
      BY <1>0 DEF Close, StopRun, NoLink, linkVars
    <3>2. NoScan \in [at : {"no", "asked", "walk"}, again : BOOLEAN, tree : SUBSET Frames]
      BY DEF NoScan
    <3> QED
      BY <1>0, <3>1, <3>2 DEF LinkType
  <2> QED
    BY <2>1, <2>2, <2>3, <2>4, <2>5 DEF LinkType
<1>3. RunGoes'
  BY <1>0 DEF Close, StopRun, RunGoes
<1>4. TimerWaits'
  BY <1>0 DEF Close, TimerWaits
<1>5. LinkGone'
  BY <1>0 DEF Close, StopRun, NoLink, linkVars, frameVars, LinkGone, On
<1>6. ReportsAreTrue'
  BY <1>0 DEF Close, StopRun, NoLink, browserVars, linkVars, frameVars,
       ReportsAreTrue, ViewType, Watching
<1>7. OneEmits'
  <2>1. \/ emits' = emits /\ known' = known /\ newer' = newer /\ poller' = poller
           /\ latest' = latest /\ (On' => On)
        \/ emits' = [f \in Frames |-> Nothing] /\ ~On'
    BY <1>0 DEF Close, StopRun, NoLink, linkVars, frameVars, On
  <2>2. CASE /\ emits' = emits /\ known' = known /\ newer' = newer /\ poller' = poller
             /\ latest' = latest /\ (On' => On)
    BY <1>0, <2>2, MergedStays DEF OneEmits, Pending
  <2>3. CASE emits' = [f \in Frames |-> Nothing] /\ ~On'
    BY <2>3 DEF OneEmits
  <2> QED
    BY <2>1, <2>2, <2>3
<1>8. FramesAreFound'
  BY <1>0 DEF Close, StopRun, NoLink, browserVars, linkVars, frameVars,
       FramesAreFound, ViewType, On
<1>9. WatchedWhileSubscribed'
  BY <1>0 DEF Close, StopRun, WatchedWhileSubscribed
<1>10. LatestIsLive'
  BY <1>0 DEF Close, StopRun, LatestIsLive
<1>11. NewestReaches'
  BY <1>0 DEF Close, NewestReaches
<1>12. NewerIsAnOrder'
  BY <1>0 DEF Close, StopRun, NoLink, linkVars, frameVars, NewerIsAnOrder
<1> QED
  BY <1>1, <1>2, <1>3, <1>4, <1>5, <1>6, <1>7, <1>8, <1>9, <1>10, <1>11, <1>12 DEF
       FocusInv

(* A run dials.                                                            *)
LEMMA FocusDial ==
    ASSUME FocusInv, NEW r \in Runs, Dial(r)
    PROVE  FocusInv'
<1>0. /\ FocusAssumption /\ ViewType /\ LinkType /\ RunGoes /\ TimerWaits /\ LinkGone
      /\ ReportsAreTrue /\ NewerIsAnOrder /\ OneEmits /\ FramesAreFound
      /\ WatchedWhileSubscribed /\ LatestIsLive /\ NewestReaches
  BY FocusAssumption DEF FocusInv
<1>m. Merged' = Merged
  BY MergedStays DEF Dial, linkVars, frameVars
<1>1. ViewType'
  BY <1>0 DEF Dial, Goes, browserVars, clientVars, timerVars, ViewType
<1>2. LinkType'
  BY <1>0 DEF Dial, linkVars, frameVars, LinkType
<1>3. RunGoes'
  BY <1>0 DEF Dial, Goes, RunGoes
<1>4. TimerWaits'
  BY <1>0 DEF Dial, clientVars, timerVars, TimerWaits
<1>5. LinkGone'
  BY <1>0 DEF Dial, Goes, linkVars, frameVars, LinkGone, On
<1>6. ReportsAreTrue'
  BY <1>0 DEF Dial, browserVars, linkVars, frameVars, ReportsAreTrue
<1>7. OneEmits'
  BY <1>0, <1>m DEF Dial, Goes, linkVars, OneEmits, On, LinkGone
<1>8. FramesAreFound'
  BY <1>0 DEF Dial, Goes, browserVars, linkVars, frameVars, FramesAreFound, On
<1>9. WatchedWhileSubscribed'
  BY <1>0 DEF Dial, clientVars, timerVars, WatchedWhileSubscribed
<1>10. LatestIsLive'
  BY <1>0 DEF Dial, Goes, LatestIsLive
<1>11. NewestReaches'
  BY <1>0 DEF Dial, clientVars, NewestReaches
<1>12. NewerIsAnOrder'
  BY <1>0 DEF Dial, linkVars, frameVars, NewerIsAnOrder
<1> QED
  BY <1>1, <1>2, <1>3, <1>4, <1>5, <1>6, <1>7, <1>8, <1>9, <1>10, <1>11, <1>12 DEF
       FocusInv

(* It ends.                                                                *)
LEMMA FocusQuit ==
    ASSUME FocusInv, NEW r \in Runs, Quit(r)
    PROVE  FocusInv'
<1>0. /\ FocusAssumption /\ ViewType /\ LinkType /\ RunGoes /\ TimerWaits /\ LinkGone
      /\ ReportsAreTrue /\ NewerIsAnOrder /\ OneEmits /\ FramesAreFound
      /\ WatchedWhileSubscribed /\ LatestIsLive /\ NewestReaches
  BY FocusAssumption DEF FocusInv
<1>m. Merged' = Merged
  BY MergedStays DEF Quit, linkVars, frameVars
<1>1. ViewType'
  BY <1>0 DEF Quit, Goes, browserVars, clientVars, timerVars, ViewType
<1>2. LinkType'
  BY <1>0 DEF Quit, linkVars, frameVars, LinkType
<1>3. RunGoes'
  BY <1>0 DEF Quit, Goes, RunGoes
<1>4. TimerWaits'
  BY <1>0 DEF Quit, clientVars, timerVars, TimerWaits
<1>5. LinkGone'
  BY <1>0 DEF Quit, Goes, linkVars, frameVars, LinkGone, On
<1>6. ReportsAreTrue'
  BY <1>0 DEF Quit, browserVars, linkVars, frameVars, ReportsAreTrue
<1>7. OneEmits'
  BY <1>0, <1>m DEF Quit, Goes, linkVars, frameVars, OneEmits, Pending, On
<1>8. FramesAreFound'
  BY <1>0 DEF Quit, Goes, browserVars, linkVars, frameVars, FramesAreFound, Found,
       On
<1>9. WatchedWhileSubscribed'
  BY <1>0 DEF Quit, clientVars, timerVars, WatchedWhileSubscribed
<1>10. LatestIsLive'
  BY <1>0 DEF Quit, Goes, LatestIsLive
<1>11. NewestReaches'
  BY <1>0 DEF Quit, clientVars, NewestReaches
<1>12. NewerIsAnOrder'
  BY <1>0 DEF Quit, linkVars, frameVars, NewerIsAnOrder
<1> QED
  BY <1>1, <1>2, <1>3, <1>4, <1>5, <1>6, <1>7, <1>8, <1>9, <1>10, <1>11, <1>12 DEF
       FocusInv

(* It is connected.                                                        *)
LEMMA FocusConnect ==
    ASSUME FocusInv, NEW r \in Runs, Connect(r)
    PROVE  FocusInv'
<1>0. /\ FocusAssumption /\ ViewType /\ LinkType /\ RunGoes /\ TimerWaits /\ LinkGone
      /\ ReportsAreTrue /\ NewerIsAnOrder /\ OneEmits /\ FramesAreFound
      /\ WatchedWhileSubscribed /\ LatestIsLive /\ NewestReaches
  BY FocusAssumption DEF FocusInv
<1>1. ViewType'
  BY <1>0 DEF Connect, Goes, browserVars, clientVars, timerVars, ViewType
<1>2. LinkType'
  <2>1. poller' \in [Frames -> {"none", "inject"} \cup Watching \cup Emitting]
    BY <1>0 DEF Connect, linkVars, frameVars, LinkType
  <2>2. known' \in [Frames -> BOOLEAN] /\ newer' \in [Frames -> SUBSET Frames]
    BY <1>0 DEF Connect, linkVars, frameVars, LinkType
  <2>3. counted' \in [Frames -> SUBSET Frames] /\ missed' \in BOOLEAN
    BY <1>0 DEF Connect, linkVars, frameVars, LinkType
  <2>4. emits' \in [Frames -> States \cup {Nothing}]
    BY <1>0 DEF Connect, linkVars, LinkType
  <2>5. scan' \in [at : {"no", "asked", "walk"}, again : BOOLEAN, tree : SUBSET Frames]
    BY <1>0 DEF Connect, linkVars, LinkType, NoScan
  <2> QED
    BY <2>1, <2>2, <2>3, <2>4, <2>5 DEF LinkType
<1>3. RunGoes'
  BY <1>0 DEF Connect, Goes, RunGoes
<1>4. TimerWaits'
  BY <1>0 DEF Connect, clientVars, timerVars, TimerWaits
<1>5. LinkGone'
  BY <1>0 DEF Connect, Goes, linkVars, frameVars, LinkGone, On, ViewType, Runs
<1>6. ReportsAreTrue'
  BY <1>0 DEF Connect, browserVars, linkVars, frameVars, ReportsAreTrue
<1>7. OneEmits'
  <2>1. Merged' = Merged /\ emits' = emits /\ poller' = poller /\ latest' = latest
    BY <1>0, MergedStays DEF Connect, linkVars, frameVars
  <2>2. CASE r # run
    <3>1. On' = On
      BY <1>0, <2>2 DEF Connect, Goes, On
    <3> QED
      BY <1>0, <2>1, <3>1 DEF OneEmits, Pending
  <2>3. CASE r = run
    <3>1. ~On /\ latest = None
      BY <1>0, <2>3 DEF Connect, Goes, On, LatestIsLive
    <3>2. Merged = None /\ \A f \in Frames : emits[f] = Nothing
      BY <1>0, <3>1 DEF LinkGone, Merged, Focused
    <3> QED
      BY <2>1, <3>1, <3>2 DEF OneEmits, Pending
  <2> QED
    BY <2>2, <2>3
<1>8. FramesAreFound'
  BY <1>0 DEF Connect, Goes, browserVars, linkVars, frameVars, FramesAreFound,
       Found, LinkType, LinkGone, On
<1>9. WatchedWhileSubscribed'
  BY <1>0 DEF Connect, clientVars, timerVars, WatchedWhileSubscribed
<1>10. LatestIsLive'
  BY <1>0 DEF Connect, Goes, LatestIsLive
<1>11. NewestReaches'
  BY <1>0 DEF Connect, clientVars, NewestReaches
<1>12. NewerIsAnOrder'
  BY <1>0 DEF Connect, linkVars, frameVars, NewerIsAnOrder
<1> QED
  BY <1>1, <1>2, <1>3, <1>4, <1>5, <1>6, <1>7, <1>8, <1>9, <1>10, <1>11, <1>12 DEF
       FocusInv

(* It is not.                                                              *)
LEMMA FocusDialFails ==
    ASSUME FocusInv, NEW r \in Runs, DialFails(r)
    PROVE  FocusInv'
<1>0. /\ FocusAssumption /\ ViewType /\ LinkType /\ RunGoes /\ TimerWaits /\ LinkGone
      /\ ReportsAreTrue /\ NewerIsAnOrder /\ OneEmits /\ FramesAreFound
      /\ WatchedWhileSubscribed /\ LatestIsLive /\ NewestReaches
  BY FocusAssumption DEF FocusInv
<1>m. Merged' = Merged
  BY MergedStays DEF DialFails, linkVars, frameVars
<1>1. ViewType'
  BY <1>0 DEF DialFails, Goes, browserVars, clientVars, timerVars, ViewType
<1>2. LinkType'
  BY <1>0 DEF DialFails, linkVars, frameVars, LinkType
<1>3. RunGoes'
  BY <1>0 DEF DialFails, Goes, RunGoes
<1>4. TimerWaits'
  BY <1>0 DEF DialFails, clientVars, timerVars, TimerWaits
<1>5. LinkGone'
  BY <1>0 DEF DialFails, Goes, linkVars, frameVars, LinkGone, On
<1>6. ReportsAreTrue'
  BY <1>0 DEF DialFails, browserVars, linkVars, frameVars, ReportsAreTrue
<1>7. OneEmits'
  BY <1>0, <1>m DEF DialFails, Goes, linkVars, frameVars, OneEmits, Pending, On
<1>8. FramesAreFound'
  BY <1>0 DEF DialFails, Goes, browserVars, linkVars, frameVars, FramesAreFound,
       Found, On
<1>9. WatchedWhileSubscribed'
  BY <1>0 DEF DialFails, clientVars, timerVars, WatchedWhileSubscribed
<1>10. LatestIsLive'
  BY <1>0 DEF DialFails, Goes, LatestIsLive
<1>11. NewestReaches'
  BY <1>0 DEF DialFails, clientVars, NewestReaches
<1>12. NewerIsAnOrder'
  BY <1>0 DEF DialFails, linkVars, frameVars, NewerIsAnOrder
<1> QED
  BY <1>1, <1>2, <1>3, <1>4, <1>5, <1>6, <1>7, <1>8, <1>9, <1>10, <1>11, <1>12 DEF
       FocusInv

(* The connection is lost, or given up.                                    *)
LEMMA FocusDisconnect ==
    ASSUME FocusInv, NEW r \in Runs, Disconnect(r)
    PROVE  FocusInv'
<1>0. /\ FocusAssumption /\ ViewType /\ LinkType /\ RunGoes /\ TimerWaits /\ LinkGone
      /\ ReportsAreTrue /\ NewerIsAnOrder /\ OneEmits /\ FramesAreFound
      /\ WatchedWhileSubscribed /\ LatestIsLive /\ NewestReaches
  BY FocusAssumption DEF FocusInv
<1>1. ViewType'
  BY <1>0 DEF Disconnect, Goes, browserVars, clientVars, timerVars, ViewType
<1>2. LinkType'
  <2>1. poller' \in [Frames -> {"none", "inject"} \cup Watching \cup Emitting]
    BY <1>0 DEF Disconnect, NoLink, linkVars, frameVars, LinkType
  <2>2. known' \in [Frames -> BOOLEAN] /\ newer' \in [Frames -> SUBSET Frames]
    BY <1>0 DEF Disconnect, NoLink, linkVars, frameVars, LinkType
  <2>3. counted' \in [Frames -> SUBSET Frames] /\ missed' \in BOOLEAN
    BY <1>0 DEF Disconnect, NoLink, linkVars, frameVars, LinkType
  <2>4. emits' \in [Frames -> States \cup {Nothing}]
    BY <1>0 DEF Disconnect, NoLink, linkVars, LinkType
  <2>5. scan' \in [at : {"no", "asked", "walk"}, again : BOOLEAN, tree : SUBSET Frames]
    <3>1. scan' = scan \/ scan' = NoScan
      BY <1>0 DEF Disconnect, NoLink, linkVars
    <3>2. NoScan \in [at : {"no", "asked", "walk"}, again : BOOLEAN, tree : SUBSET Frames]
      BY DEF NoScan
    <3> QED
      BY <1>0, <3>1, <3>2 DEF LinkType
  <2> QED
    BY <2>1, <2>2, <2>3, <2>4, <2>5 DEF LinkType
<1>3. RunGoes'
  BY <1>0 DEF Disconnect, Goes, RunGoes
<1>4. TimerWaits'
  BY <1>0 DEF Disconnect, clientVars, timerVars, TimerWaits
<1>5. LinkGone'
  BY <1>0 DEF Disconnect, Goes, NoLink, linkVars, frameVars, LinkGone, On
<1>6. ReportsAreTrue'
  BY <1>0 DEF Disconnect, NoLink, browserVars, linkVars, frameVars, ReportsAreTrue,
       ViewType, Watching
<1>7. OneEmits'
  <2>1. \/ emits' = emits /\ known' = known /\ newer' = newer /\ poller' = poller
           /\ latest' = latest /\ (On' => On)
        \/ emits' = [f \in Frames |-> Nothing] /\ ~On'
    BY <1>0 DEF Disconnect, Goes, NoLink, linkVars, frameVars, On, ViewType
  <2>2. CASE /\ emits' = emits /\ known' = known /\ newer' = newer /\ poller' = poller
             /\ latest' = latest /\ (On' => On)
    BY <1>0, <2>2, MergedStays DEF OneEmits, Pending
  <2>3. CASE emits' = [f \in Frames |-> Nothing] /\ ~On'
    BY <2>3 DEF OneEmits
  <2> QED
    BY <2>1, <2>2, <2>3
<1>8. FramesAreFound'
  BY <1>0 DEF Disconnect, Goes, NoLink, browserVars, linkVars, frameVars,
       FramesAreFound, Found, ViewType, On
<1>9. WatchedWhileSubscribed'
  BY <1>0 DEF Disconnect, clientVars, timerVars, WatchedWhileSubscribed
<1>10. LatestIsLive'
  BY <1>0 DEF Disconnect, Goes, LatestIsLive
<1>11. NewestReaches'
  BY <1>0 DEF Disconnect, clientVars, NewestReaches
<1>12. NewerIsAnOrder'
  BY <1>0 DEF Disconnect, NoLink, linkVars, frameVars, NewerIsAnOrder
<1> QED
  BY <1>1, <1>2, <1>3, <1>4, <1>5, <1>6, <1>7, <1>8, <1>9, <1>10, <1>11, <1>12 DEF
       FocusInv

(* The empty state is published, unless the run has ended.                 *)
LEMMA FocusReset ==
    ASSUME FocusInv, NEW r \in Runs, Reset(r)
    PROVE  FocusInv'
<1>0. /\ FocusAssumption /\ ViewType /\ LinkType /\ RunGoes /\ TimerWaits /\ LinkGone
      /\ ReportsAreTrue /\ NewerIsAnOrder /\ OneEmits /\ FramesAreFound
      /\ WatchedWhileSubscribed /\ LatestIsLive /\ NewestReaches
  BY FocusAssumption DEF FocusInv
<1>m. Merged' = Merged
  BY MergedStays DEF Reset, linkVars, frameVars
<1>1. ViewType'
  BY <1>0 DEF Reset, Goes, Publish, browserVars, timerVars, ViewType, States
<1>2. LinkType'
  BY <1>0 DEF Reset, linkVars, frameVars, LinkType
<1>3. RunGoes'
  BY <1>0 DEF Reset, Goes, RunGoes
<1>4. TimerWaits'
  BY <1>0 DEF Reset, timerVars, TimerWaits
<1>5. LinkGone'
  BY <1>0 DEF Reset, Goes, linkVars, frameVars, LinkGone, On
<1>6. ReportsAreTrue'
  BY <1>0 DEF Reset, browserVars, linkVars, frameVars, ReportsAreTrue
<1>7. OneEmits'
  BY <1>0, <1>m DEF Reset, Goes, Publish, linkVars, frameVars, OneEmits, Pending, On
<1>8. FramesAreFound'
  BY <1>0 DEF Reset, Goes, browserVars, linkVars, frameVars, FramesAreFound, Found,
       On
<1>9. WatchedWhileSubscribed'
  BY <1>0 DEF Reset, timerVars, WatchedWhileSubscribed
<1>10. LatestIsLive'
  BY <1>0 DEF Reset, Goes, Publish, LatestIsLive
<1>11. NewestReaches'
  BY <1>0 DEF Reset, Publish, NewestReaches, ViewType, Nothing, None
<1>12. NewerIsAnOrder'
  BY <1>0 DEF Reset, linkVars, frameVars, NewerIsAnOrder
<1> QED
  BY <1>1, <1>2, <1>3, <1>4, <1>5, <1>6, <1>7, <1>8, <1>9, <1>10, <1>11, <1>12 DEF
       FocusInv

(* A state that was taken on a connection that has ended since.            *)
LEMMA FocusDrain ==
    ASSUME FocusInv, NEW s \in draining, Drain(s)
    PROVE  FocusInv'
<1>0. /\ FocusAssumption /\ ViewType /\ LinkType /\ RunGoes /\ TimerWaits /\ LinkGone
      /\ ReportsAreTrue /\ NewerIsAnOrder /\ OneEmits /\ FramesAreFound
      /\ WatchedWhileSubscribed /\ LatestIsLive /\ NewestReaches
  BY FocusAssumption DEF FocusInv
<1>m. Merged' = Merged
  BY MergedStays DEF Drain, linkVars, frameVars
<1>1. ViewType'
  BY <1>0 DEF Drain, Drained, Publish, browserVars, timerVars, runVars, ViewType
<1>2. LinkType'
  BY <1>0 DEF Drain, linkVars, frameVars, LinkType
<1>3. RunGoes'
  BY <1>0 DEF Drain, runVars, RunGoes
<1>4. TimerWaits'
  BY <1>0 DEF Drain, timerVars, TimerWaits
<1>5. LinkGone'
  BY <1>0 DEF Drain, runVars, linkVars, frameVars, LinkGone, On
<1>6. ReportsAreTrue'
  BY <1>0 DEF Drain, browserVars, linkVars, frameVars, ReportsAreTrue
<1>7. OneEmits'
  BY <1>0, <1>m DEF Drain, Drained, Publish, runVars, linkVars, frameVars, OneEmits,
       Pending, On
<1>8. FramesAreFound'
  BY <1>0 DEF Drain, browserVars, runVars, linkVars, frameVars, FramesAreFound,
       Found, On
<1>9. WatchedWhileSubscribed'
  BY <1>0 DEF Drain, timerVars, runVars, WatchedWhileSubscribed
<1>10. LatestIsLive'
  BY <1>0 DEF Drain, Drained, Publish, runVars, LatestIsLive
<1>11. NewestReaches'
  BY <1>0 DEF Drain, Drained, Publish, NewestReaches
<1>12. NewerIsAnOrder'
  BY <1>0 DEF Drain, linkVars, frameVars, NewerIsAnOrder
<1> QED
  BY <1>1, <1>2, <1>3, <1>4, <1>5, <1>6, <1>7, <1>8, <1>9, <1>10, <1>11, <1>12 DEF
       FocusInv

(* The frames are listed,                                                  *)
LEMMA FocusFrameTree ==
    ASSUME FocusInv, FrameTree
    PROVE  FocusInv'
<1>0. /\ FocusAssumption /\ ViewType /\ LinkType /\ RunGoes /\ TimerWaits /\ LinkGone
      /\ ReportsAreTrue /\ NewerIsAnOrder /\ OneEmits /\ FramesAreFound
      /\ WatchedWhileSubscribed /\ LatestIsLive /\ NewestReaches
  BY FocusAssumption DEF FocusInv
<1>m. Merged' = Merged
  BY MergedStays DEF FrameTree
<1>1. ViewType'
  BY <1>0 DEF FrameTree, browserVars, clientVars, timerVars, runVars, ViewType
<1>2. LinkType'
  <2>1. poller' \in [Frames -> {"none", "inject"} \cup Watching \cup Emitting]
    BY <1>0 DEF FrameTree, LinkType
  <2>2. known' \in [Frames -> BOOLEAN] /\ newer' \in [Frames -> SUBSET Frames]
    BY <1>0 DEF FrameTree, LinkType
  <2>3. counted' \in [Frames -> SUBSET Frames] /\ missed' \in BOOLEAN
    BY <1>0 DEF FrameTree, LinkType
  <2>4. emits' \in [Frames -> States \cup {Nothing}]
    BY <1>0 DEF FrameTree, LinkType
  <2>5. scan' \in [at : {"no", "asked", "walk"}, again : BOOLEAN, tree : SUBSET Frames]
    BY <1>0 DEF FrameTree, LinkType, ViewType
  <2> QED
    BY <2>1, <2>2, <2>3, <2>4, <2>5 DEF LinkType
<1>3. RunGoes'
  BY <1>0 DEF FrameTree, runVars, RunGoes
<1>4. TimerWaits'
  BY <1>0 DEF FrameTree, clientVars, timerVars, TimerWaits
<1>5. LinkGone'
  BY <1>0 DEF FrameTree, runVars, LinkGone, On
<1>6. ReportsAreTrue'
  BY <1>0 DEF FrameTree, browserVars, ReportsAreTrue
<1>7. OneEmits'
  BY <1>0, <1>m DEF FrameTree, OneEmits, Pending
<1>8. FramesAreFound'
  BY <1>0 DEF FrameTree, browserVars, FramesAreFound, Found, ViewType
<1>9. WatchedWhileSubscribed'
  BY <1>0 DEF FrameTree, clientVars, timerVars, runVars, WatchedWhileSubscribed
<1>10. LatestIsLive'
  BY <1>0 DEF FrameTree, runVars, LatestIsLive
<1>11. NewestReaches'
  BY <1>0 DEF FrameTree, clientVars, NewestReaches
<1>12. NewerIsAnOrder'
  BY <1>0 DEF FrameTree, NewerIsAnOrder
<1> QED
  BY <1>1, <1>2, <1>3, <1>4, <1>5, <1>6, <1>7, <1>8, <1>9, <1>10, <1>11, <1>12 DEF
       FocusInv

(* or they are not,                                                        *)
LEMMA FocusScanFails ==
    ASSUME FocusInv, ScanFails
    PROVE  FocusInv'
<1>0. /\ FocusAssumption /\ ViewType /\ LinkType /\ RunGoes /\ TimerWaits /\ LinkGone
      /\ ReportsAreTrue /\ NewerIsAnOrder /\ OneEmits /\ FramesAreFound
      /\ WatchedWhileSubscribed /\ LatestIsLive /\ NewestReaches
  BY FocusAssumption DEF FocusInv
<1>m. Merged' = Merged
  BY MergedStays DEF ScanFails
<1>1. ViewType'
  BY <1>0 DEF ScanFails, browserVars, clientVars, timerVars, runVars, ViewType
<1>2. LinkType'
  <2>1. poller' \in [Frames -> {"none", "inject"} \cup Watching \cup Emitting]
    BY <1>0 DEF ScanFails, LinkType
  <2>2. known' \in [Frames -> BOOLEAN] /\ newer' \in [Frames -> SUBSET Frames]
    BY <1>0 DEF ScanFails, LinkType
  <2>3. counted' \in [Frames -> SUBSET Frames] /\ missed' \in BOOLEAN
    BY <1>0 DEF ScanFails, LinkType
  <2>4. emits' \in [Frames -> States \cup {Nothing}]
    BY <1>0 DEF ScanFails, LinkType
  <2>5. scan' \in [at : {"no", "asked", "walk"}, again : BOOLEAN, tree : SUBSET Frames]
    BY <1>0 DEF ScanFails, AfterWalk, NoScan, LinkType
  <2> QED
    BY <2>1, <2>2, <2>3, <2>4, <2>5 DEF LinkType
<1>3. RunGoes'
  BY <1>0 DEF ScanFails, runVars, RunGoes
<1>4. TimerWaits'
  BY <1>0 DEF ScanFails, clientVars, timerVars, TimerWaits
<1>5. LinkGone'
  BY <1>0 DEF ScanFails, runVars, LinkGone, On
<1>6. ReportsAreTrue'
  BY <1>0 DEF ScanFails, browserVars, ReportsAreTrue
<1>7. OneEmits'
  BY <1>0, <1>m DEF ScanFails, OneEmits, Pending
<1>8. FramesAreFound'
  BY <1>0 DEF ScanFails, AfterWalk, NoScan, browserVars, FramesAreFound
<1>9. WatchedWhileSubscribed'
  BY <1>0 DEF ScanFails, clientVars, timerVars, runVars, WatchedWhileSubscribed
<1>10. LatestIsLive'
  BY <1>0 DEF ScanFails, runVars, LatestIsLive
<1>11. NewestReaches'
  BY <1>0 DEF ScanFails, clientVars, NewestReaches
<1>12. NewerIsAnOrder'
  BY <1>0 DEF ScanFails, NewerIsAnOrder
<1> QED
  BY <1>1, <1>2, <1>3, <1>4, <1>5, <1>6, <1>7, <1>8, <1>9, <1>10, <1>11, <1>12 DEF
       FocusInv

(* and the new ones are watched.                                           *)
LEMMA FocusWatchFrames ==
    ASSUME FocusInv, WatchFrames
    PROVE  FocusInv'
<1>0. /\ FocusAssumption /\ ViewType /\ LinkType /\ RunGoes /\ TimerWaits /\ LinkGone
      /\ ReportsAreTrue /\ NewerIsAnOrder /\ OneEmits /\ FramesAreFound
      /\ WatchedWhileSubscribed /\ LatestIsLive /\ NewestReaches
  BY FocusAssumption DEF FocusInv
<1>m. Merged' = Merged
  BY MergedStays DEF WatchFrames
<1>1. ViewType'
  BY <1>0 DEF WatchFrames, browserVars, clientVars, timerVars, runVars, ViewType
<1>2. LinkType'
  BY <1>0 DEF WatchFrames, AfterWalk, LinkType, NoScan
<1>3. RunGoes'
  BY <1>0 DEF WatchFrames, runVars, RunGoes
<1>4. TimerWaits'
  BY <1>0 DEF WatchFrames, clientVars, timerVars, TimerWaits
<1>5. LinkGone'
  BY <1>0 DEF WatchFrames, runVars, LinkGone, On
<1>6. ReportsAreTrue'
  BY <1>0 DEF WatchFrames, browserVars, ReportsAreTrue, ViewType, Watching
<1>7. OneEmits'
  BY <1>0, <1>m DEF WatchFrames, OneEmits, Pending, Emitting
<1>8. FramesAreFound'
  BY <1>0 DEF WatchFrames, AfterWalk, browserVars, FramesAreFound, Found, ViewType
<1>9. WatchedWhileSubscribed'
  BY <1>0 DEF WatchFrames, clientVars, timerVars, runVars, WatchedWhileSubscribed
<1>10. LatestIsLive'
  BY <1>0 DEF WatchFrames, runVars, LatestIsLive
<1>11. NewestReaches'
  BY <1>0 DEF WatchFrames, clientVars, NewestReaches
<1>12. NewerIsAnOrder'
  BY <1>0 DEF WatchFrames, NewerIsAnOrder
<1> QED
  BY <1>1, <1>2, <1>3, <1>4, <1>5, <1>6, <1>7, <1>8, <1>9, <1>10, <1>11, <1>12 DEF
       FocusInv

(* The watcher is injected into a frame, or the frame is given up.         *)
LEMMA FocusInject ==
    ASSUME FocusInv, NEW f \in Frames, Inject(f)
    PROVE  FocusInv'
<1>0. /\ FocusAssumption /\ ViewType /\ LinkType /\ RunGoes /\ TimerWaits /\ LinkGone
      /\ ReportsAreTrue /\ NewerIsAnOrder /\ OneEmits /\ FramesAreFound
      /\ WatchedWhileSubscribed /\ LatestIsLive /\ NewestReaches
  BY FocusAssumption DEF FocusInv
<1>1. ViewType'
  BY <1>0 DEF Inject, clientVars, timerVars, runVars, ViewType
<1>2. LinkType'
  <2>1. poller' \in [Frames -> {"none", "inject"} \cup Watching \cup Emitting]
    BY <1>0 DEF Inject, Polls, LinkType, Watching, Emitting
  <2>2. known' \in [Frames -> BOOLEAN] /\ newer' \in [Frames -> SUBSET Frames]
    <3>1. known' = known \/ known' = [known EXCEPT ![f] = FALSE]
      BY <1>0 DEF Inject
    <3>2. newer' = newer \/ newer' = [g \in Frames |-> IF g = f THEN {} ELSE newer[g] \ {f}]
      BY <1>0 DEF Inject
    <3>3. known' \in [Frames -> BOOLEAN]
      BY <1>0, <3>1 DEF LinkType
    <3>4. newer' \in [Frames -> SUBSET Frames]
      BY <1>0, <3>2 DEF LinkType
    <3> QED
      BY <3>3, <3>4
  <2>3. counted' \in [Frames -> SUBSET Frames] /\ missed' \in BOOLEAN
    BY <1>0 DEF Inject, LinkType
  <2>4. emits' \in [Frames -> States \cup {Nothing}]
    BY <1>0 DEF Inject, LinkType
  <2>5. scan' \in [at : {"no", "asked", "walk"}, again : BOOLEAN, tree : SUBSET Frames]
    BY <1>0 DEF Inject, LinkType
  <2> QED
    BY <2>1, <2>2, <2>3, <2>4, <2>5 DEF LinkType
<1>3. RunGoes'
  BY <1>0 DEF Inject, runVars, RunGoes
<1>4. TimerWaits'
  BY <1>0 DEF Inject, clientVars, timerVars, TimerWaits
<1>5. LinkGone'
  BY <1>0 DEF Inject, Polls, runVars, LinkGone, On
<1>6. ReportsAreTrue'
  BY <1>0 DEF Inject, Polls, ReportsAreTrue, LinkType, ViewType, Watching
<1>7. OneEmits'
  BY <1>0 DEF Inject, Polls, OneEmits, LinkType, Pending, Merged, Focused, Emitting
<1>8. FramesAreFound'
  BY <1>0 DEF Inject, Polls, FramesAreFound, Found
<1>9. WatchedWhileSubscribed'
  BY <1>0 DEF Inject, clientVars, timerVars, runVars, WatchedWhileSubscribed
<1>10. LatestIsLive'
  BY <1>0 DEF Inject, runVars, LatestIsLive
<1>11. NewestReaches'
  BY <1>0 DEF Inject, clientVars, NewestReaches
<1>12. NewerIsAnOrder'
  BY <1>0 DEF Inject, NewerIsAnOrder
<1> QED
  BY <1>1, <1>2, <1>3, <1>4, <1>5, <1>6, <1>7, <1>8, <1>9, <1>10, <1>11, <1>12 DEF
       FocusInv

(* A frame reports.                                                        *)
LEMMA FocusReport ==
    ASSUME FocusInv, NEW f \in Frames, Report(f)
    PROVE  FocusInv'
<1>0. /\ FocusAssumption /\ ViewType /\ LinkType /\ RunGoes /\ TimerWaits /\ LinkGone
      /\ ReportsAreTrue /\ NewerIsAnOrder /\ OneEmits /\ FramesAreFound
      /\ WatchedWhileSubscribed /\ LatestIsLive /\ NewestReaches
  BY FocusAssumption DEF FocusInv
<1>1. ViewType'
  BY <1>0 DEF Report, clientVars, timerVars, runVars, ViewType
<1>2. LinkType'
  <2>1. poller' \in [Frames -> {"none", "inject"} \cup Watching \cup Emitting]
    BY <1>0 DEF Report, Polls, LinkType, Emitting
  <2>2. known' \in [Frames -> BOOLEAN] /\ newer' \in [Frames -> SUBSET Frames]
    BY <1>0 DEF Report, LinkType
  <2>3. counted' \in [Frames -> SUBSET Frames] /\ missed' \in BOOLEAN
    BY <1>0 DEF Report, Embedded, LinkType, ViewType
  <2>4. emits' \in [Frames -> States \cup {Nothing}]
    BY <1>0 DEF Report, LinkType
  <2>5. scan' \in [at : {"no", "asked", "walk"}, again : BOOLEAN, tree : SUBSET Frames]
    BY <1>0 DEF Report, LinkType
  <2> QED
    BY <2>1, <2>2, <2>3, <2>4, <2>5 DEF LinkType
<1>3. RunGoes'
  BY <1>0 DEF Report, runVars, RunGoes
<1>4. TimerWaits'
  BY <1>0 DEF Report, clientVars, timerVars, TimerWaits
<1>5. LinkGone'
  BY <1>0 DEF Report, Polls, runVars, LinkGone, On
<1>6. ReportsAreTrue'
  <2>1. \A g \in Frames : known'[g] => poller'[g] \in Watching
    BY <1>0, FocusAssumption DEF Report, Polls, ReportsAreTrue, LinkType,
         ViewType, Watching, Frames, None
  <2>2. \A g \in exists' \ dirty' : poller'[g] \in Watching => (known'[g] <=> g = focus')
    BY <1>0 DEF Report, Polls, SameNumber, Embedded, browserVars, clientVars,
         timerVars, runVars, linkVars, frameVars, ReportsAreTrue, LinkType,
         ViewType, Watching
  <2>3. Top \notin dirty' /\ poller'[Top] \in Watching => counted'[Top] = exists'
    BY <1>0 DEF Report, Polls, Embedded, ReportsAreTrue, LinkType
  <2> QED
    BY <2>1, <2>2, <2>3 DEF ReportsAreTrue
<1>7. OneEmits'
  BY <1>0 DEF Report, Polls, OneEmits, LinkType, Pending, Emitting
<1>8. FramesAreFound'
  <2>1. /\ scan' = scan /\ exists' = exists
        /\ poller[f] = "poll" /\ poller' = [poller EXCEPT ![f] = poller'[f]]
        /\ poller'[f] \in {"lost", "emit", "emitScan"}
    BY <1>0 DEF Report, Polls, LinkType
  <2>2. \A g \in Frames : Found(g) => Found(g)'
    BY <1>0, <2>1 DEF Found, LinkType
  <2>3. On' = On /\ (~missed' => ~missed) /\ (On /\ ~missed => Found(Top)')
    <3>1. On' = On /\ (~missed' => ~missed)
      BY <1>0 DEF Report, runVars, On
    <3> QED
      BY <1>0, <2>2, <3>1 DEF FramesAreFound, Frames
  <2>4. ASSUME NEW g \in exists' PROVE poller'[g] # "leave"
    <3>1. g \in Frames /\ poller[g] # "leave"
      BY <1>0, <2>1 DEF FramesAreFound, ViewType
    <3>2. poller \in [Frames -> {"none", "inject"} \cup Watching \cup Emitting]
      BY <1>0 DEF LinkType
    <3> QED
      BY <2>1, <3>1, <3>2
  <2>5. ASSUME On', ~missed', poller'[Top] \notin {"emitScan", "scan"},
               NEW g \in counted'[Top] \cap exists'
        PROVE  Found(g)'
    <3>1. g \in Frames
      BY <1>0, <2>1 DEF ViewType
    <3>2. CASE f # Top
      <4>1. counted'[Top] = counted[Top] /\ ~missed /\ poller'[Top] = poller[Top]
        BY <1>0, <2>1, <2>5, <3>2 DEF Report, LinkType, Frames
      <4> QED
        BY <1>0, <2>1, <2>2, <2>3, <2>5, <3>1, <4>1 DEF FramesAreFound
    <3>3. CASE f = Top
      <4>1. Top \in exists /\ SameNumber(Top) /\ ~missed /\ counted[Top] = Embedded(Top)
        BY <1>0, <2>1, <2>5, <3>3 DEF Report, Polls, LinkType, ViewType
      <4>2. g \in counted[Top]
        BY <1>0, <2>1, <2>5, <3>3, <4>1 DEF Report, LinkType
      <4> QED
        BY <1>0, <2>1, <2>2, <2>3, <2>5, <3>1, <3>3, <4>1, <4>2 DEF FramesAreFound
    <3> QED
      BY <3>2, <3>3
  <2> QED
    BY <1>0, <2>1, <2>3, <2>4, <2>5 DEF FramesAreFound
<1>9. WatchedWhileSubscribed'
  BY <1>0 DEF Report, clientVars, timerVars, runVars, WatchedWhileSubscribed
<1>10. LatestIsLive'
  BY <1>0 DEF Report, runVars, LatestIsLive
<1>11. NewestReaches'
  BY <1>0 DEF Report, clientVars, NewestReaches
<1>12. NewerIsAnOrder'
  BY <1>0 DEF Report, NewerIsAnOrder
<1> QED
  BY <1>1, <1>2, <1>3, <1>4, <1>5, <1>6, <1>7, <1>8, <1>9, <1>10, <1>11, <1>12 DEF
       FocusInv

(* A goroutine takes what all of them know,                                *)
LEMMA FocusTake ==
    ASSUME FocusInv, NEW f \in Frames, Take(f)
    PROVE  FocusInv'
<1>0. /\ FocusAssumption /\ ViewType /\ LinkType /\ RunGoes /\ TimerWaits /\ LinkGone
      /\ ReportsAreTrue /\ NewerIsAnOrder /\ OneEmits /\ FramesAreFound
      /\ WatchedWhileSubscribed /\ LatestIsLive /\ NewestReaches
  BY FocusAssumption DEF FocusInv
<1>m. Merged' = Merged
  BY MergedStays DEF Take, frameVars
<1>n. Merged \in States /\ Merged # Nothing
  BY <1>0, MergedIsAState, FocusAssumption DEF States, Frames, None, Nothing, Top
<1>o. emits' = [emits EXCEPT ![f] = Merged] /\ \A g \in Frames : emits[g] = Nothing
  BY <1>0 DEF Take, EmitMuIsFree, Taken
<1>1. ViewType'
  BY <1>0 DEF Take, browserVars, clientVars, timerVars, runVars, ViewType
<1>2. LinkType'
  <2>1. poller' \in [Frames -> {"none", "inject"} \cup Watching \cup Emitting]
    BY <1>0 DEF Take, frameVars, LinkType
  <2>2. known' \in [Frames -> BOOLEAN] /\ newer' \in [Frames -> SUBSET Frames]
    BY <1>0 DEF Take, frameVars, LinkType
  <2>3. counted' \in [Frames -> SUBSET Frames] /\ missed' \in BOOLEAN
    BY <1>0 DEF Take, frameVars, LinkType
  <2>4. emits' \in [Frames -> States \cup {Nothing}]
    BY <1>0, <1>n, <1>o DEF LinkType
  <2>5. scan' \in [at : {"no", "asked", "walk"}, again : BOOLEAN, tree : SUBSET Frames]
    BY <1>0 DEF Take, LinkType
  <2> QED
    BY <2>1, <2>2, <2>3, <2>4, <2>5 DEF LinkType
<1>3. RunGoes'
  BY <1>0 DEF Take, runVars, RunGoes
<1>4. TimerWaits'
  BY <1>0 DEF Take, clientVars, timerVars, TimerWaits
<1>5. LinkGone'
  BY <1>0 DEF Take, runVars, LinkGone, On
<1>6. ReportsAreTrue'
  BY <1>0 DEF Take, browserVars, frameVars, ReportsAreTrue
<1>7. OneEmits'
  <2>1. \A g \in Frames : emits'[g] # Nothing => g = f
    BY <1>0, <1>o DEF LinkType
  <2>2. emits'[f] = Merged' /\ poller'[f] \in Emitting
    BY <1>0, <1>m, <1>o DEF Take, frameVars, LinkType, Emitting
  <2> QED
    BY <1>m, <1>n, <2>1, <2>2 DEF OneEmits
<1>8. FramesAreFound'
  BY <1>0 DEF Take, browserVars, frameVars, FramesAreFound, Found
<1>9. WatchedWhileSubscribed'
  BY <1>0 DEF Take, clientVars, timerVars, runVars, WatchedWhileSubscribed
<1>10. LatestIsLive'
  BY <1>0 DEF Take, runVars, LatestIsLive
<1>11. NewestReaches'
  BY <1>0 DEF Take, clientVars, NewestReaches
<1>12. NewerIsAnOrder'
  BY <1>0 DEF Take, frameVars, NewerIsAnOrder
<1> QED
  BY <1>1, <1>2, <1>3, <1>4, <1>5, <1>6, <1>7, <1>8, <1>9, <1>10, <1>11, <1>12 DEF
       FocusInv

(* and publishes it.                                                       *)
LEMMA FocusEmit ==
    ASSUME FocusInv, NEW f \in Frames, Emit(f)
    PROVE  FocusInv'
<1>0. /\ FocusAssumption /\ ViewType /\ LinkType /\ RunGoes /\ TimerWaits /\ LinkGone
      /\ ReportsAreTrue /\ NewerIsAnOrder /\ OneEmits /\ FramesAreFound
      /\ WatchedWhileSubscribed /\ LatestIsLive /\ NewestReaches
  BY FocusAssumption DEF FocusInv
<1>m. Merged' = Merged
  BY MergedStays DEF Emit
<1>n. /\ f \in Frames /\ emits[f] \in States
      /\ latest' = emits[f]
      /\ channel' = channel \/ channel' = [c \in Clients |-> IF c \in subs THEN emits[f] ELSE channel[c]]
      /\ poller' = [poller EXCEPT ![f] = AfterEmit(f)]
      /\ emits' = [emits EXCEPT ![f] = Nothing]
      /\ poller[f] \in Emitting /\ AfterEmit(f) \in {"poll", "scan", "inject", "none"}
      /\ poller[f] \in {"emit", "emitScan"} <=> AfterEmit(f) \in {"poll", "scan"}
      /\ poller[f] = "emitScan" <=> AfterEmit(f) = "scan"
      /\ AfterEmit(f) = "none" <=> poller[f] = "leave"
  BY <1>0 DEF Emit, Publish, AfterEmit, LinkType, OneEmits, Emitting
<1>o. UNCHANGED <<browserVars, subs, shown, timerVars, runVars, closed, known, newer,
                  counted, missed, scan, draining>>
  BY <1>0 DEF Emit
<1>p. On /\ On'
  BY <1>0, <1>o DEF Emit, On, runVars
<1>1. ViewType'
  BY <1>0, <1>n, <1>o DEF browserVars, runVars, timerVars, ViewType
<1>2. LinkType'
  <2>1. poller' \in [Frames -> {"none", "inject"} \cup Watching \cup Emitting]
    BY <1>0, <1>n DEF LinkType, Watching, Emitting
  <2>2. known' \in [Frames -> BOOLEAN] /\ newer' \in [Frames -> SUBSET Frames]
    BY <1>0 DEF Emit, LinkType
  <2>3. counted' \in [Frames -> SUBSET Frames] /\ missed' \in BOOLEAN
    BY <1>0 DEF Emit, LinkType
  <2>4. emits' \in [Frames -> States \cup {Nothing}]
    BY <1>0, <1>n DEF LinkType
  <2>5. scan' \in [at : {"no", "asked", "walk"}, again : BOOLEAN, tree : SUBSET Frames]
    BY <1>0 DEF Emit, LinkType
  <2> QED
    BY <2>1, <2>2, <2>3, <2>4, <2>5 DEF LinkType
<1>3. RunGoes'
  BY <1>0 DEF Emit, runVars, RunGoes
<1>4. TimerWaits'
  BY <1>0 DEF Emit, timerVars, TimerWaits
<1>5. LinkGone'
  BY <1>0 DEF Emit, runVars, LinkGone, On
<1>6. ReportsAreTrue'
  BY <1>0, <1>n, <1>o DEF browserVars, ReportsAreTrue, Watching, Emitting
<1>7. OneEmits'
  <2>1. \A g \in Frames : emits'[g] = Nothing
    BY <1>0, <1>n, FocusAssumption DEF OneEmits, LinkType, States, Frames, None,
         Nothing, Top
  <2>2. Pending => Pending'
    BY <1>0, <1>n, FocusAssumption DEF Pending, States, Frames, None, Nothing, Top
  <2>3. Pending' \/ latest' = Merged'
    BY <1>0, <1>m, <1>n, <2>2, FocusAssumption DEF OneEmits, States, Frames, None,
         Nothing, Top
  <2> QED
    BY <2>1, <2>3 DEF OneEmits
<1>8. FramesAreFound'
  <2>1. UNCHANGED <<exists, run, runStage, scan, counted, missed>>
    BY <1>o DEF browserVars, runVars
  <2>2. \A g \in Frames : /\ poller'[g] # "leave" \/ poller[g] = "leave"
                          /\ poller'[g] = "none" => poller[g] \in {"none", "leave"}
    BY <1>0, <1>n DEF LinkType, Emitting
  <2>3. poller'[Top] \notin {"emitScan", "scan"} => poller[Top] \notin {"emitScan", "scan"}
    <3>1. Top \in Frames
      BY DEF Frames
    <3>2. CASE Top = f
      BY <1>0, <1>n, <3>1, <3>2 DEF LinkType, Emitting
    <3>3. CASE Top # f
      BY <1>0, <1>n, <3>1, <3>3 DEF LinkType
    <3> QED
      BY <3>2, <3>3
  <2>4. \A g \in Frames : Found(g) /\ poller[g] # "leave" => Found(g)'
    BY <2>1, <2>2 DEF Found
  <2>5. exists \subseteq Frames /\ Top \in exists
    BY <1>0 DEF ViewType
  <2> QED
    BY <1>0, <1>p, <2>1, <2>2, <2>3, <2>4, <2>5 DEF FramesAreFound
<1>9. WatchedWhileSubscribed'
  BY <1>0 DEF Emit, timerVars, runVars, WatchedWhileSubscribed
<1>10. LatestIsLive'
  BY <1>0 DEF Emit, runVars, LatestIsLive, On
<1>11. NewestReaches'
  BY <1>0 DEF Emit, Publish, NewestReaches, ViewType
<1>12. NewerIsAnOrder'
  BY <1>0 DEF Emit, NewerIsAnOrder
<1> QED
  BY <1>1, <1>2, <1>3, <1>4, <1>5, <1>6, <1>7, <1>8, <1>9, <1>10, <1>11, <1>12 DEF
       FocusInv

(* It asks for the frames.                                                 *)
LEMMA FocusAskScan ==
    ASSUME FocusInv, NEW f \in Frames, AskScan(f)
    PROVE  FocusInv'
<1>0. /\ FocusAssumption /\ ViewType /\ LinkType /\ RunGoes /\ TimerWaits /\ LinkGone
      /\ ReportsAreTrue /\ NewerIsAnOrder /\ OneEmits /\ FramesAreFound
      /\ WatchedWhileSubscribed /\ LatestIsLive /\ NewestReaches
  BY FocusAssumption DEF FocusInv
<1>m. Merged' = Merged
  BY MergedStays DEF AskScan
<1>1. ViewType'
  BY <1>0 DEF AskScan, browserVars, clientVars, timerVars, runVars, ViewType
<1>2. LinkType'
  BY <1>0 DEF AskScan, Polls, Scanned, LinkType, Watching
<1>3. RunGoes'
  BY <1>0 DEF AskScan, runVars, RunGoes
<1>4. TimerWaits'
  BY <1>0 DEF AskScan, clientVars, timerVars, TimerWaits
<1>5. LinkGone'
  BY <1>0 DEF AskScan, Polls, runVars, LinkGone, On
<1>6. ReportsAreTrue'
  BY <1>0 DEF AskScan, Polls, browserVars, ReportsAreTrue, Watching
<1>7. OneEmits'
  BY <1>0, <1>m DEF AskScan, Polls, OneEmits, Pending, Emitting
<1>8. FramesAreFound'
  BY <1>0 DEF AskScan, Polls, Scanned, browserVars, FramesAreFound, Found
<1>9. WatchedWhileSubscribed'
  BY <1>0 DEF AskScan, clientVars, timerVars, runVars, WatchedWhileSubscribed
<1>10. LatestIsLive'
  BY <1>0 DEF AskScan, runVars, LatestIsLive
<1>11. NewestReaches'
  BY <1>0 DEF AskScan, clientVars, NewestReaches
<1>12. NewerIsAnOrder'
  BY <1>0 DEF AskScan, NewerIsAnOrder
<1> QED
  BY <1>1, <1>2, <1>3, <1>4, <1>5, <1>6, <1>7, <1>8, <1>9, <1>10, <1>11, <1>12 DEF
       FocusInv

(* Every step keeps it.                                                    *)
LEMMA FocusStep ==
    ASSUME FocusInv, [FocusNext]_focusVars
    PROVE  FocusInv'
<1>1. ASSUME NEW f \in Frames \cup {None}, MoveFocus(f) PROVE FocusInv'
  BY <1>1, FocusMoveFocus
<1>2. ASSUME NEW f \in Inner, AddFrame(f) \/ RemoveFrame(f) PROVE FocusInv'
  BY <1>2, FocusAddFrame, FocusRemoveFrame
<1>3. ASSUME NEW c \in Clients, Subscribe(c) \/ Receive(c) \/ Unsubscribe(c) PROVE FocusInv'
  BY <1>3, FocusSubscribe, FocusReceive, FocusUnsubscribe
<1>4. ASSUME NEW t \in 1..timers, Expire(t) \/ Linger(t) PROVE FocusInv'
  BY <1>4, FocusExpire, FocusLinger
<1>5. CASE Close
  BY <1>5, FocusClose
<1>6. ASSUME NEW r \in Runs, Dial(r) \/ Quit(r) \/ Connect(r) PROVE FocusInv'
  BY <1>6, FocusDial, FocusQuit, FocusConnect
<1>7. ASSUME NEW r \in Runs, DialFails(r) \/ Disconnect(r) \/ Reset(r) PROVE FocusInv'
  BY <1>7, FocusDialFails, FocusDisconnect, FocusReset
<1>8. ASSUME NEW s \in draining, Drain(s) PROVE FocusInv'
  BY <1>8, FocusDrain
<1>9. CASE FrameTree \/ ScanFails \/ WatchFrames
  BY <1>9, FocusFrameTree, FocusScanFails, FocusWatchFrames
<1>10. ASSUME NEW f \in Frames, Inject(f) \/ Report(f) \/ AskScan(f) PROVE FocusInv'
  BY <1>10, FocusInject, FocusReport, FocusAskScan
<1>11. ASSUME NEW f \in Frames, Take(f) \/ Emit(f) PROVE FocusInv'
  BY <1>11, FocusTake, FocusEmit
<1>12. CASE UNCHANGED focusVars
  BY <1>12 DEF FocusInv, focusVars, browserVars, clientVars, timerVars, runVars, frameVars,
       linkVars, ViewType, LinkType, RunGoes, TimerWaits, LinkGone, On, ReportsAreTrue,
       NewerIsAnOrder, OneEmits, Pending, Merged, Focused, FramesAreFound, Found,
       WatchedWhileSubscribed, LatestIsLive, NewestReaches
<1> QED
  BY <1>1, <1>2, <1>3, <1>4, <1>5, <1>6, <1>7, <1>8, <1>9, <1>10, <1>11, <1>12
  DEF FocusNext

(* It holds when nobody has subscribed yet.                                *)
LEMMA FocusAtFirst ==
    ASSUME FocusInit
    PROVE  FocusInv
<1>1. ViewType
  <2>1. exists \subseteq Frames /\ Top \in exists /\ focus \in exists \cup {None} /\ dirty \subseteq Frames
    BY DEF FocusInit, Frames
  <2>2. latest \in States /\ subs \subseteq Clients /\ closed \in BOOLEAN
    BY DEF FocusInit, States
  <2>3. channel \in [Clients -> States \cup {Nothing}] /\ shown \in [Clients -> States \cup {Nothing}]
    BY DEF FocusInit
  <2>4. timer \in Nat /\ timers \in Nat /\ run \in 0..runs /\ runs \in 0..MaxRuns
    BY FocusAssumption DEF FocusInit
  <2>5. runStage \in [Runs -> {"none", "idle", "dialing", "on", "ended", "over"}]
    BY DEF FocusInit
  <2> QED
    BY <2>1, <2>2, <2>3, <2>4, <2>5 DEF ViewType
<1>2. LinkType
  <2>1. NoScan \in [at : {"no", "asked", "walk"}, again : BOOLEAN, tree : SUBSET Frames]
    BY DEF NoScan
  <2> QED
    BY <2>1 DEF FocusInit, LinkType
<1>3. RunGoes /\ TimerWaits /\ LinkGone /\ NewerIsAnOrder
  BY DEF FocusInit, RunGoes, TimerWaits, LinkGone, NewerIsAnOrder, Runs
<1>4. ReportsAreTrue /\ OneEmits
  BY DEF FocusInit, ReportsAreTrue, OneEmits, Pending, On, Watching, Frames
<1>5. FramesAreFound
  BY <1>1 DEF ViewType, FocusInit, FramesAreFound, On
<1>6. WatchedWhileSubscribed /\ LatestIsLive /\ NewestReaches
  BY DEF FocusInit, WatchedWhileSubscribed, LatestIsLive, NewestReaches
<1> QED
  BY <1>1, <1>2, <1>3, <1>4, <1>5, <1>6 DEF FocusInv

(* When nothing is left to do, every frame that there is is watched,       *)
(* unless a scan has failed or the number of frames has not told.          *)
LEMMA FocusSettlesOnAll ==
    ASSUME FocusInv, Quiet, ~missed
    PROVE  Watched = exists
<1>0. ViewType /\ LinkType /\ ReportsAreTrue /\ FramesAreFound
  BY DEF FocusInv
<1>1. \A f \in Frames : poller[f] = "none" \/ (poller[f] = "poll" /\ f \in exists \ dirty)
  BY DEF Quiet
<1>2. \A f \in Frames : Found(f) => poller[f] = "poll"
  BY <1>1 DEF Quiet, Found, NoScan
<1>3. poller[Top] = "poll" /\ counted[Top] = exists
  BY <1>0, <1>1, <1>2 DEF Quiet, FramesAreFound, ReportsAreTrue, Watching, Frames
<1>4. \A f \in exists : poller[f] = "poll"
  BY <1>0, <1>2, <1>3 DEF Quiet, FramesAreFound, ViewType
<1> QED
  BY <1>0, <1>1, <1>4 DEF ViewType, Watched

(* Then what has been published is what all that are watched know, and     *)
(* they know the truth.                                                    *)
LEMMA FocusSettles ==
    ASSUME FocusInv
    PROVE  SettledIsTrue
<1> SUFFICES ASSUME Quiet
             PROVE  latest = IF focus \in Watched THEN focus ELSE None
  BY FocusSettlesOnAll DEF SettledIsTrue
<1>0. ViewType /\ LinkType /\ LinkGone /\ ReportsAreTrue /\ NewerIsAnOrder /\ OneEmits
  BY DEF FocusInv
<1>1. \A f \in Frames : poller[f] = "none" \/ (poller[f] = "poll" /\ f \in exists \ dirty)
  BY DEF Quiet
<1>2. \A f \in Frames : emits[f] = Nothing /\ poller[f] \notin Emitting
  BY <1>1 DEF Quiet, Taken, Emitting
<1>3. latest = Merged
  BY <1>0, <1>2 DEF Quiet, OneEmits, Pending
<1>4. \A f \in Watched : known[f] <=> (f = focus)
  BY <1>0, <1>1 DEF ReportsAreTrue, Watching, Watched
<1>5. \A f \in Frames \ Watched : ~known[f]
  BY <1>0, <1>1 DEF ReportsAreTrue, Watching, Watched
<1>6. Watched \subseteq Frames
  BY DEF Watched
<1>7. CASE focus \notin Watched
  <2>1. Focused = {}
    BY <1>4, <1>5, <1>7 DEF Focused, LinkType
  <2> QED
    BY <1>3, <1>7, <2>1 DEF Merged
<1>8. CASE focus \in Watched
  <2>1. focus \in Frames /\ Focused = {focus}
    BY <1>4, <1>5, <1>6, <1>8 DEF Focused
  <2>2. newer[focus] \cap Focused = {}
    BY <1>0, <2>1 DEF NewerIsAnOrder
  <2>3. Merged = focus
    BY <2>1, <2>2 DEF Merged
  <2> QED
    BY <1>3, <1>8, <2>3
<1> QED
  BY <1>7, <1>8

(* Whatever the frames, the live views and their timers do: the browser is *)
(* watched while somebody is subscribed; what is shown belongs to a run    *)
(* that is connected; every subscriber has it or will be given it; and     *)
(* once all that changed has been reported, it is the focused field if its *)
(* frame is watched and none otherwise, where every frame is watched       *)
(* unless a scan of its page (scanOnce) has failed, or the page has as     *)
(* many frames as in its report before, and has not been scanned since.    *)
THEOREM FocusIsKnown == FocusSpec => []FocusIsTrue
<1>1. FocusInit => FocusInv
  BY FocusAtFirst
<1>2. FocusInv /\ [FocusNext]_focusVars => FocusInv'
  BY FocusStep
<1>3. FocusInv => FocusIsTrue
  BY FocusSettles DEF FocusInv, FocusIsTrue
<1> QED
  BY <1>1, <1>2, <1>3, PTL DEF FocusSpec

-----------------------------------------------------------------------------
(* The browser's targets. *)

(* The inductive invariant.                                                *)
SessionStages == {"none", "new", "initializing", "ready"}
Kinds == {"created", "changed", "destroyed", "attached", "detached",
          "removed", "added", "navigated"}
Events == [kind : Kinds, of : Targets \cup Session, on : Session \cup {<<Home, 0>>}]
Sessions == [Session -> [tab : Nat, stage : SessionStages]]
Tabs == [Pages -> [id : Nat, window : Int]]

BrowserType ==
    /\ alive \in [Targets -> {"none", "open", "gone"}]
    /\ issued \in [Targets -> Nat]
    /\ attached \subseteq Session /\ enabled \subseteq attached
    /\ queue \in Seq(Events)
    /\ stale \subseteq Targets

TrackedType ==
    /\ nextTabID \in Nat /\ tabs \in Tabs /\ windows \subseteq Int
    /\ tracking \subseteq Targets
    /\ sessions \in Sessions
    /\ frames \in [Targets -> Nat]

AttachingType ==
    \A g \in attaching :
        /\ g \in [target : Targets, tab : Nat, session : {<<t, 0>> : t \in Targets} \cup Session,
                  stage : {"window", "look", "attach", "answered", "check", "failed"}]
        /\ g.session[1] = g.target
        /\ g.stage \in {"window", "look"} => g.target \in Pages /\ g.tab # 0
        /\ g.stage \in {"answered", "check"} => g.session \in Session

InitializingType ==
    \A i \in initializing :
        /\ i \in [session : Session, stage : {"waiting", "asking", "told"}, tab : Nat]
        /\ (i.stage = "waiting") <=> (i.tab = 0)

RefreshType ==
    refresh \in [stage : {"idle", "asking", "tracking", "removing"}, known : SUBSET Targets,
                 listed : SUBSET Targets, left : SUBSET Targets]

SurfaceType ==
    BrowserType /\ TrackedType /\ AttachingType /\ InitializingType /\ RefreshType

(* What an event is about.                                                 *)
Waits(kind, x) == \E k \in 1..Len(queue) : queue[k].kind = kind /\ queue[k].of = x
Tracks(e, t) == e.kind \in {"created", "changed"} /\ e.of = t
Tells(e, t) ==
    \/ Tracks(e, t)
    \/ e.kind \in {"attached", "detached"} /\ e.of \in Session /\ e.of[1] = t

EventIsSound(e) ==
    /\ e.kind \in {"attached", "detached"} => e.of \in Session /\ e.of[2] <= issued[e.of[1]]
    /\ e.kind \in {"created", "changed"} => e.of \in Targets /\ alive[e.of] # "none"
    /\ e.kind = "changed" => e.of \in Pages
    /\ e.kind = "destroyed" => e.of \in Targets /\ alive[e.of] = "gone"
    /\ e.kind \in {"removed", "added"} => e.of = Iframe
    /\ e.kind = "navigated" => e.of = Home
    /\ e.kind \in {"added", "navigated"} => e.on \in Session /\ e.on[1] = Home

BrowserIsSound ==
    /\ alive[Iframe] = "open" => alive[Home] = "open"
    /\ \A s \in attached : alive[s[1]] = "open"
    /\ \A t \in Targets : alive[t] = "none" => issued[t] = 0
    /\ \A t \in stale : alive[t] = "gone"
    /\ \A k \in 1..Len(queue) : EventIsSound(queue[k])

TrackedWasThere ==
    /\ \A t \in tracking : alive[t] # "none"
    /\ \A p \in Pages : tabs[p].id # 0 => alive[p] # "none"
    /\ \A p \in Pages : p \in tracking => tabs[p].id # 0
    /\ refresh.stage # "idle" => \A t \in refresh.known : alive[t] # "none"
    /\ refresh.stage = "tracking" =>
        /\ \A t \in refresh.known \ refresh.listed : alive[t] = "gone"
        /\ \A t \in refresh.left : alive[t] # "none"
    /\ refresh.stage = "removing" => \A t \in refresh.left : alive[t] = "gone"

Issued(s) == s[2] <= issued[s[1]]
NumbersAreIssued ==
    /\ \A s \in attached : Issued(s)
    /\ \A s \in Session : Known(s) => Issued(s)
    /\ \A i \in initializing : Issued(i.session)
    /\ \A g \in attaching : Issued(g.session)

DestroyedIsLast ==
    \A j, k \in 1..Len(queue) :
        queue[k].kind = "destroyed" /\ Tells(queue[j], queue[k].of) => j < k

(* Nothing is to come any more of a target that has gone.                  *)
Ended(t) == alive[t] = "gone" /\ ~Waits("destroyed", t)
GoneIsQuiet ==
    \A t \in Targets : Ended(t) =>
        /\ \A k \in 1..Len(queue) : ~Tells(queue[k], t)
        /\ t \notin stale => t \notin tracking
        /\ t \in Pages /\ t \notin stale => tabs[t].id = 0

(* A session is added by its event and by the answer to the command, once  *)
(* by each, and every time there is one goroutine more to initialize it.   *)
Answering(s) == \E g \in attaching : g.stage = "answered" /\ g.session = s
ToCome(s) == Waits("attached", s) \/ Answering(s)
AddedOnce ==
    /\ \A j, k \in 1..Len(queue) :
        queue[j].kind = "attached" /\ queue[k].kind = "attached" /\ queue[k].of = queue[j].of => j = k
    /\ \A g, h \in attaching :
        g.stage = "answered" /\ h.stage = "answered" /\ g.session = h.session => g = h
    /\ \A s \in Session : Waits("attached", s) /\ Answering(s) =>
        ~Known(s) /\ \A i \in initializing : i.session # s
    /\ \A i, j \in initializing : i.session = j.session /\ i # j => ~ToCome(i.session)

NewIsPursued ==
    \A s \in Session :
        /\ sessions[s].stage = "new" => \E i \in initializing : i.session = s /\ i.stage = "waiting"
        /\ sessions[s].stage = "initializing" =>
            \E i \in initializing : i.session = s /\ i.stage # "waiting"
        /\ sessions[s].stage = "ready" => sessions[s].tab # 0

(* As long as a page is there, it has one tab, for itself and its frame.   *)
PageOf(t) == IF t = Iframe THEN Home ELSE t
TabOf(t) == {0, tabs[PageOf(t)].id}
TabsAgree ==
    \A t \in Targets : alive[PageOf(t)] # "gone" =>
        /\ frames[t] \in TabOf(t)
        /\ \A s \in Session : s[1] = t => sessions[s].tab \in TabOf(t)
        /\ \A i \in initializing : i.session[1] = t => i.tab \in TabOf(t)

(* A session that the browser has detached, and that is or will be known:  *)
(* it never gets as far as having frames, or it has the tab of its target, *)
(* which goes with the target, or its last event is still to come.         *)
Never(s) ==
    sessions[s].stage # "ready" /\ \A i \in initializing : i.session = s => i.stage # "told"
LateEnd(s) ==
    \A j \in 1..Len(queue) : Tracks(queue[j], s[1]) =>
        \E k \in 1..Len(queue) : k > j /\ queue[k].kind = "detached" /\ queue[k].of = s
OpenGoes(s) == alive[s[1]] = "open" /\ (ToCome(s) \/ Known(s)) => Never(s)
ClosedGoes(s) ==
    s[1] \in Pages /\ alive[s[1]] = "gone" /\ Waits("destroyed", s[1]) /\ (ToCome(s) \/ Known(s)) =>
        \/ Never(s)
        \/ /\ LateEnd(s)
           /\ Known(s) => \/ Waits("detached", s)
                          \/ tabs[s[1]].id = 0
                          \/ tabs[s[1]].id = sessions[s].tab
Checking(s) == \E g \in attaching : g.stage = "check" /\ g.session = s
SettledGoes(s) == Ended(s[1]) /\ Known(s) => Never(s) \/ Checking(s)
DetachedGoes ==
    \A s \in Session : Issued(s) /\ s \notin attached /\ s[1] \notin stale =>
        OpenGoes(s) /\ ClosedGoes(s) /\ SettledGoes(s)

WindowsAreReal ==
    /\ 0 \notin windows
    /\ \A p \in Pages : tabs[p].id = 0 => tabs[p].window = 0

SurfaceInv ==
    /\ SurfaceType /\ BrowserIsSound /\ TrackedWasThere /\ NumbersAreIssued
    /\ DestroyedIsLast /\ GoneIsQuiet /\ AddedOnce /\ NewIsPursued /\ TabsAgree
    /\ DetachedGoes /\ WindowsAreReal /\ WindowsAreUsed

(* A session is a target and a number.                                     *)
LEMMA SessionParts ==
    /\ \A s \in Session : s[1] \in Targets /\ s[2] \in Nat /\ s[2] >= 1 /\ s = <<s[1], s[2]>>
    /\ \A s, r \in Session : s[1] = r[1] /\ s[2] = r[2] => s = r
    /\ Home \in Targets /\ Home \in Pages /\ Iframe \in Targets /\ Iframe \notin Pages
    /\ Home # Iframe
    /\ \A t \in Targets : t \in Pages \/ t = Iframe
    /\ \A p \in Pages : p \in Targets /\ p # Iframe
    /\ \A t \in Targets, s \in Session : <<t, 0>> # s
    /\ \A t \in Targets : <<t, 0>>[1] = t /\ <<t, 0>>[2] = 0
BY SurfaceAssumption DEF Session, Targets

(* There are finitely many sessions, so some of them can be put in order.  *)
LEMMA OrderOfSessions ==
    ASSUME NEW S, S \subseteq Session, NEW q \in InSomeOrder(S)
    PROVE  /\ q \in Seq(S) /\ DOMAIN q = 1..Len(q)
           /\ \A s \in S : \E k \in 1..Len(q) : q[k] = s
<1>1. IsFiniteSet(Targets)
  BY FS_Union, FS_Singleton, SurfaceAssumption DEF Targets
<1>2. IsFiniteSet(1..MaxSessions)
  BY FS_Interval, SurfaceAssumption
<1>3. IsFiniteSet(Session)
  BY <1>1, <1>2, FS_Product DEF Session
<1>4. Cardinality(S) \in Nat
  BY <1>3, FS_Subset, FS_CardinalityType
<1>5. Len(q) = Cardinality(S)
  BY <1>4 DEF InSomeOrder
<1> QED
  BY <1>4, <1>5 DEF InSomeOrder

(* What the browser sends is well formed.                                  *)
LEMMA EventType ==
    /\ \A k \in Kinds, x \in Targets \cup Session : Event(k, x) \in Events
    /\ \A k, x : Event(k, x).kind = k /\ Event(k, x).of = x
    /\ \A k \in Kinds, x \in Targets, s \in Session : [kind |-> k, of |-> x, on |-> s] \in Events
BY DEF Event, Events

(* Those to the sessions of the page that embeds the frame.                *)
LEMMA OnHomeTells ==
    ASSUME enabled \subseteq Session, NEW kind \in Kinds, NEW f \in Targets, NEW q \in OnHome(kind, f)
    PROVE  /\ q \in Seq(Events)
           /\ \A k \in 1..Len(q) : q[k].kind = kind /\ q[k].of = f
                                   /\ q[k].on \in Session /\ q[k].on[1] = Home
<1> DEFINE S == {s \in enabled : s[1] = Home}
<1>1. PICK on \in InSomeOrder(S) : q = [k \in DOMAIN on |-> [kind |-> kind, of |-> f, on |-> on[k]]]
  BY DEF OnHome
<1>2. on \in Seq(S) /\ DOMAIN on = 1..Len(on)
  BY OrderOfSessions
<1>3. q \in Seq(Events) /\ Len(q) = Len(on)
  <2>1. \A k \in 1..Len(on) : on[k] \in Session
    BY <1>2
  <2>2. \A k \in 1..Len(on) : q[k] \in Events
    BY <1>1, <1>2, <2>1, EventType
  <2> QED
    BY <1>1, <1>2, <2>2
<1> QED
  BY <1>1, <1>2, <1>3

(* The sessions of a target are detached before it is destroyed.           *)
LEMMA FarewellTells ==
    ASSUME attached \subseteq Session, NEW t \in Targets, NEW q \in Farewell(t)
    PROVE  /\ q \in Seq(Events) /\ Len(q) \in Nat \ {0}
           /\ q[Len(q)].kind = "destroyed" /\ q[Len(q)].of = t
           /\ \A k \in 1..(Len(q) - 1) : /\ q[k].kind = "detached"
                                         /\ q[k].of \in attached /\ q[k].of[1] = t
           /\ \A s \in attached : s[1] = t =>
                \E k \in 1..(Len(q) - 1) : q[k].kind = "detached" /\ q[k].of = s
<1> DEFINE S == {s \in attached : s[1] = t}
<1>1. PICK left \in InSomeOrder(S) :
          q = [k \in DOMAIN left |-> Event("detached", left[k])] \o <<Event("destroyed", t)>>
  BY DEF Farewell
<1> DEFINE first == [k \in DOMAIN left |-> Event("detached", left[k])]
<1>2. /\ left \in Seq(S) /\ DOMAIN left = 1..Len(left)
      /\ \A s \in S : \E k \in 1..Len(left) : left[k] = s
  BY OrderOfSessions
<1>3. /\ first \in Seq(Events) /\ Len(first) = Len(left)
      /\ \A k \in 1..Len(left) : first[k] = Event("detached", left[k])
  <2>1. \A k \in 1..Len(left) : Event("detached", left[k]) \in Events
    BY <1>2, EventType DEF Kinds
  <2> QED
    BY <1>2, <2>1
<1>4. Event("destroyed", t) \in Events
  BY EventType DEF Kinds
<1>5. q \in Seq(Events) /\ Len(q) = Len(left) + 1
  BY <1>1, <1>3, <1>4
<1>6. q[Len(q)] = Event("destroyed", t) /\ \A k \in 1..Len(left) : q[k] = Event("detached", left[k])
  <2> HIDE DEF first
  <2> QED
    BY <1>1, <1>3, <1>4, <1>5 DEF first
<1> QED
  BY <1>2, <1>5, <1>6, EventType

-----------------------------------------------------------------------------
(* What the operations do, session by session. *)

(* Some sessions are lost.                                                 *)
Lost(s) == sessions'[s].stage = "none" /\ sessions'[s].tab = 0
Loses == \A s \in Session : sessions'[s] = sessions[s] \/ Lost(s)

(* Some sessions that had no tab are given one.                            *)
Binds(s) ==
    /\ sessions'[s].stage = sessions[s].stage
    /\ sessions'[s].tab # sessions[s].tab =>
        /\ Known(s) /\ sessions[s].tab = 0
        /\ sessions'[s].tab = TabFor(s[1], tabs', frames')

(* TabFor is a tab.                                                        *)
LEMMA TabForType ==
    ASSUME NEW t \in Targets, NEW pages \in Tabs, NEW seen \in [Targets -> Nat]
    PROVE  /\ TabFor(t, pages, seen) \in Nat
           /\ t \in Pages /\ pages[t].id # 0 => TabFor(t, pages, seen) = pages[t].id
           /\ seen[t] # 0 => TabFor(t, pages, seen) # 0
BY SessionParts DEF TabFor, Tabs

(* bindSessionsLocked changes no stage and no tab.                         *)
LEMMA BoundGives ==
    ASSUME NEW some \in Sessions, NEW pages \in Tabs, NEW seen \in [Targets -> Nat]
    PROVE  /\ Bound(some, pages, seen) \in Sessions
           /\ \A s \in Session :
                /\ Bound(some, pages, seen)[s].stage = some[s].stage
                /\ some[s].stage # "none" /\ some[s].tab = 0 =>
                     Bound(some, pages, seen)[s].tab = TabFor(s[1], pages, seen)
                /\ some[s].stage = "none" \/ some[s].tab # 0 =>
                     Bound(some, pages, seen)[s].tab = some[s].tab
<1>1. ASSUME NEW s \in Session
      PROVE  TabFor(s[1], pages, seen) \in Nat /\ some[s] \in [tab : Nat, stage : SessionStages]
  BY TabForType, SessionParts DEF Sessions
<1>2. ASSUME NEW s \in Session
      PROVE  /\ Bound(some, pages, seen)[s] \in [tab : Nat, stage : SessionStages]
             /\ Bound(some, pages, seen)[s].stage = some[s].stage
             /\ some[s].stage # "none" /\ some[s].tab = 0 =>
                     Bound(some, pages, seen)[s].tab = TabFor(s[1], pages, seen)
             /\ some[s].stage = "none" \/ some[s].tab # 0 =>
                     Bound(some, pages, seen)[s].tab = some[s].tab
  BY <1>1 DEF Bound
<1> HIDE DEF Sessions
<1>3. Bound(some, pages, seen) \in Sessions
  BY <1>2 DEF Bound, Sessions
<1> QED
  BY <1>2, <1>3

(* registerPage and trackNonPageTarget.                                    *)
LEMMA TrackDoes ==
    ASSUME TrackedType, AttachingType, NEW t \in Targets, Track(t)
    PROVE  /\ TrackedType' /\ AttachingType'
           /\ \A p \in Pages : \/ tabs'[p] = tabs[p]
                               \/ /\ p = t /\ tabs[p].id = 0
                                  /\ tabs'[p].id # 0 /\ tabs'[p].window = 0
           /\ t \in Pages => tabs'[t].id # 0
           /\ \A s \in Session : Binds(s)
           /\ tracking' = tracking \cup {t} /\ frames' = frames /\ windows' = windows
           /\ attaching \subseteq attaching'
           /\ \A g \in attaching' :
                g \in attaching \/ (g.stage \in {"window", "attach"} /\ g.session = <<t, 0>>)
<1> USE DEF TrackedType
<1> DEFINE new == t \in Pages /\ tabs[t].id = 0
           tab == IF t \in Pages THEN tabs'[t].id ELSE 0
           later == IF t \in Pages THEN Bound(sessions, tabs', frames) ELSE sessions
<1>1. /\ nextTabID' = IF new THEN nextTabID + 1 ELSE nextTabID
      /\ tabs' = IF new THEN [tabs EXCEPT ![t] = [id |-> nextTabID + 1, window |-> 0]] ELSE tabs
      /\ sessions' = later
      /\ attaching' = IF t \in tracking THEN attaching ELSE attaching \cup {Attaching(t, tab)}
      /\ tracking' = tracking \cup {t} /\ frames' = frames /\ windows' = windows
  BY DEF Track
<1>2. nextTabID' \in Nat /\ tabs' \in Tabs
  BY <1>1 DEF Tabs
<1>3. /\ \A p \in Pages : \/ tabs'[p] = tabs[p]
                          \/ /\ p = t /\ tabs[p].id = 0
                             /\ tabs'[p].id # 0 /\ tabs'[p].window = 0
      /\ t \in Pages => tabs'[t].id # 0
  BY <1>1 DEF Tabs
<1>4. sessions' \in Sessions /\ \A s \in Session : Binds(s)
  <2>1. CASE t \in Pages
    <3>1. sessions' = Bound(sessions, tabs', frames')
      BY <1>1, <2>1
    <3>2. frames' \in [Targets -> Nat] /\ sessions \in Sessions
      BY <1>1
    <3> HIDE DEF TrackedType
    <3>3. sessions' \in Sessions
      BY <3>1, <3>2, <1>2, BoundGives
    <3>4. ASSUME NEW s \in Session
          PROVE  Binds(s)
      BY <3>1, <3>2, <1>2, BoundGives DEF Binds, Known
    <3> QED
      BY <3>3, <3>4
  <2>2. CASE t \notin Pages
    BY <1>1, <2>2 DEF Binds
  <2> QED
    BY <2>1, <2>2
<1>5. TrackedType'
  BY <1>1, <1>2, <1>4
<1>6. tab \in Nat /\ (t \in Pages => tab # 0)
  BY <1>2, <1>3 DEF Tabs
<1>7. /\ Attaching(t, tab).target = t /\ Attaching(t, tab).tab = tab
      /\ Attaching(t, tab).session = <<t, 0>>
      /\ Attaching(t, tab).stage = IF t \in Pages THEN "window" ELSE "attach"
      /\ Attaching(t, tab) \in
            [target : Targets, tab : Nat, session : {<<u, 0>> : u \in Targets} \cup Session,
             stage : {"window", "look", "attach", "answered", "check", "failed"}]
  BY <1>6 DEF Attaching
<1>8. \A g \in attaching' : g \in attaching \/ g = Attaching(t, tab)
  BY <1>1
<1> HIDE DEF tab, TrackedType
<1>9. AttachingType'
  BY <1>6, <1>7, <1>8, SessionParts DEF AttachingType
<1>10. /\ attaching \subseteq attaching'
       /\ \A g \in attaching' :
            g \in attaching \/ (g.stage \in {"window", "attach"} /\ g.session = <<t, 0>>)
  BY <1>1, <1>7, <1>8
<1> QED
  BY <1>1, <1>3, <1>4, <1>5, <1>9, <1>10

(* A session that is forgotten, of the type of sessions.                   *)
LEMMA LostType ==
    ASSUME sessions \in Sessions, NEW them,
           sessions' = [s \in Session |-> IF s \in them THEN [tab |-> 0, stage |-> "none"] ELSE sessions[s]]
    PROVE  /\ sessions' \in Sessions /\ Loses
           /\ \A s \in Session : s \in them => Lost(s)
           /\ \A s \in Session : s \notin them => sessions'[s] = sessions[s]
BY DEF Sessions, Loses, Lost, SessionStages

(* removeTarget, removeTabLocked.                                          *)
LEMMA RemoveTargetDoes ==
    ASSUME TrackedType, NEW t \in Targets, RemoveTarget(t)
    PROVE  /\ nextTabID' \in Nat /\ tabs' \in Tabs
           /\ sessions' \in Sessions /\ frames' \in [Targets -> Nat]
           /\ tracking' \subseteq tracking
           /\ \A p \in Pages : tabs'[p] = tabs[p] \/ (p = t /\ tabs'[p] = NoTab)
           /\ t \in Pages => tabs'[t].id = 0
           /\ Loses
           /\ t = Iframe \/ tabs[t].id = 0 => \A s \in Session : s[1] = t => Lost(s)
           /\ t \in Pages /\ tabs[t].id # 0 =>
                \A s \in Session : sessions[s].tab = tabs[t].id => sessions'[s].stage = "none"
           /\ \A f \in Targets : frames'[f] \in {0, frames[f]}
           /\ t = Iframe \/ tabs[t].id # 0 => t \notin tracking'
<1> USE DEF TrackedType
<1>1. CASE t \in Pages /\ tabs[t].id # 0
  <2> DEFINE id == tabs[t].id
             them == {s \in Session : Known(s) /\ sessions[s].tab = id}
  <2>1. /\ sessions' = [s \in Session |->
                          IF s \in them THEN [tab |-> 0, stage |-> "none"] ELSE sessions[s]]
        /\ tracking' = tracking \ ({s[1] : s \in them} \cup {t})
        /\ frames' = [f \in Targets |-> IF frames[f] = id THEN 0 ELSE frames[f]]
        /\ tabs' = [tabs EXCEPT ![t] = NoTab]
        /\ nextTabID' = nextTabID
    BY <1>1 DEF RemoveTarget
  <2>2. tabs' \in Tabs /\ tabs'[t] = NoTab /\ \A p \in Pages : p # t => tabs'[p] = tabs[p]
    BY <2>1, <1>1 DEF Tabs, NoTab
  <2>3. frames' \in [Targets -> Nat] /\ \A f \in Targets : frames'[f] \in {0, frames[f]}
    BY <2>1
  <2>4. /\ sessions' \in Sessions /\ Loses
        /\ \A s \in Session : s \in them => Lost(s)
    <3> HIDE DEF them
    <3> QED
      BY <2>1, LostType
  <2>5. \A s \in Session : sessions[s].tab = id => sessions'[s].stage = "none"
    BY <2>4 DEF Known, Lost, Loses
  <2>6. tracking' \subseteq tracking /\ t \notin tracking'
    BY <2>1
  <2>7. t # Iframe
    BY <1>1, SessionParts
  <2> HIDE DEF them
  <2> QED
    BY <1>1, <2>1, <2>2, <2>3, <2>4, <2>5, <2>6, <2>7 DEF NoTab
<1>2. CASE ~(t \in Pages /\ tabs[t].id # 0)
  <2> DEFINE them == {s \in Session : s[1] = t}
  <2>1. /\ sessions' = [s \in Session |->
                          IF s[1] = t THEN [tab |-> 0, stage |-> "none"] ELSE sessions[s]]
        /\ tracking' = tracking \ {u \in {t} : u = Iframe \/ \E s \in Session : s[1] = t /\ Known(s)}
        /\ nextTabID' = nextTabID /\ tabs' = tabs /\ windows' = windows /\ frames' = frames
    BY <1>2 DEF RemoveTarget, tabVars
  <2>2. sessions' = [s \in Session |-> IF s \in them THEN [tab |-> 0, stage |-> "none"] ELSE sessions[s]]
    BY <2>1
  <2>3. /\ sessions' \in Sessions /\ Loses
        /\ \A s \in Session : s \in them => Lost(s)
        /\ \A s \in Session : s \notin them => sessions'[s] = sessions[s]
    <3> HIDE DEF them
    <3> QED
      BY <2>2, LostType
  <2>4. tracking' \subseteq tracking /\ (t = Iframe => t \notin tracking')
    BY <2>1
  <2>5. t # Iframe => t \in Pages /\ tabs[t].id = 0
    BY <1>2, SessionParts
  <2> QED
    BY <1>2, <2>1, <2>3, <2>4, <2>5
<1> QED
  BY <1>1, <1>2

(* removeSessionLocked.                                                    *)
LEMMA RemoveSessionsDoes ==
    ASSUME sessions \in Sessions, NEW gone \in SUBSET Session, RemoveSessions(gone)
    PROVE  /\ sessions' \in Sessions /\ Loses /\ tracking' \subseteq tracking
           /\ \A s \in gone : sessions'[s].stage = "none"
           /\ \A s \in Session : s \notin gone => sessions'[s] = sessions[s]
<1> DEFINE them == {s \in gone : Known(s)}
<1>1. sessions' = [s \in Session |-> IF s \in them THEN [tab |-> 0, stage |-> "none"] ELSE sessions[s]]
  BY DEF RemoveSessions
<1>2. tracking' \subseteq tracking
  BY DEF RemoveSessions
<1>3. /\ sessions' \in Sessions /\ Loses
      /\ \A s \in Session : s \in them => Lost(s)
      /\ \A s \in Session : s \notin them => sessions'[s] = sessions[s]
  <2> HIDE DEF them
  <2> QED
    BY <1>1, LostType
<1>4. \A s \in gone : s \in them => sessions'[s].stage = "none"
  BY <1>3 DEF Lost
<1>5. \A s \in gone : s \notin them => sessions'[s].stage = "none"
  BY <1>3 DEF Known
<1> QED
  BY <1>2, <1>3, <1>4, <1>5

(* addSession: it gives other sessions no more than a tab.                 *)
LEMMA AddSessionDoes ==
    ASSUME TrackedType, InitializingType, NEW x \in Session, AddSession(x),
           UNCHANGED <<tabVars, frames>>
    PROVE  /\ sessions' \in Sessions /\ InitializingType'
           /\ \A s \in Session : s # x \/ Known(x) => Binds(s)
           /\ \/ Known(x) /\ initializing' = initializing
              \/ /\ ~Known(x)
                 /\ initializing' = initializing \cup {[session |-> x, stage |-> "waiting", tab |-> 0]}
                 /\ sessions'[x].stage = "new" /\ sessions'[x].tab = TabFor(x[1], tabs, frames)
<1> USE DEF TrackedType
<1>1. CASE Known(x)
  <2>1. sessions' = sessions /\ initializing' = initializing
    BY <1>1 DEF AddSession
  <2> QED
    BY <1>1, <2>1 DEF Binds, InitializingType
<1>2. CASE ~Known(x)
  <2> DEFINE some == [sessions EXCEPT ![x] = [tab |-> 0, stage |-> "new"]]
             i == [session |-> x, stage |-> "waiting", tab |-> 0]
  <2>1. sessions' = Bound(some, tabs, frames) /\ initializing' = initializing \cup {i}
    BY <1>2 DEF AddSession
  <2>2. /\ some \in Sessions /\ some[x] = [tab |-> 0, stage |-> "new"]
        /\ \A s \in Session : s # x => some[s] = sessions[s]
    BY DEF Sessions, SessionStages
  <2>3. tabs' = tabs /\ frames' = frames /\ tabs \in Tabs /\ frames \in [Targets -> Nat]
    BY DEF tabVars
  <2> HIDE DEF some, TrackedType
  <2>4. sessions' \in Sessions
    BY <2>1, <2>2, <2>3, BoundGives
  <2>5. ASSUME NEW s \in Session, s # x
        PROVE  Binds(s)
    BY <2>1, <2>2, <2>3, <2>5, BoundGives DEF Binds, Known
  <2>6. sessions'[x].stage = "new" /\ sessions'[x].tab = TabFor(x[1], tabs, frames)
    BY <2>1, <2>2, <2>3, BoundGives
  <2>7. InitializingType'
    BY <2>1 DEF InitializingType
  <2> QED
    BY <1>2, <2>1, <2>4, <2>5, <2>6, <2>7
<1> QED
  BY <1>1, <1>2

(* assignWindow changes no tab but its window.                             *)
LEMMA AssignWindowDoes ==
    ASSUME TrackedType, NEW p \in Pages, NEW raw \in Int, AssignWindow(p, raw)
    PROVE  /\ nextTabID' = nextTabID /\ tabs' \in Tabs
           /\ \A q \in Pages : tabs'[q].id = tabs[q].id
           /\ \A q \in Pages : q # p \/ tabs[p].id = 0 => tabs'[q] = tabs[q]
           /\ windows' \subseteq windows \cup {raw}
<1>1. CASE tabs[p].id = 0
  BY <1>1 DEF AssignWindow, tabVars, TrackedType
<1>2. CASE tabs[p].id # 0
  <2>1. tabs' = [tabs EXCEPT ![p].window = raw] /\ nextTabID' = nextTabID
    BY <1>2 DEF AssignWindow
  <2>2. windows' \subseteq windows \cup {raw}
    BY <1>2 DEF AssignWindow, Kept
  <2> QED
    BY <1>2, <2>1, <2>2 DEF TrackedType, Tabs
<1> QED
  BY <1>1, <1>2

(* attachFrame, navigateFrame.                                             *)
LEMMA FrameMovesDoes ==
    ASSUME TrackedType, NEW e, EventIsSound(e), e.kind \in {"added", "navigated"}, FrameMoves(e),
           UNCHANGED tabVars
    PROVE  /\ sessions' \in Sessions /\ frames' \in [Targets -> Nat]
           /\ \A s \in Session : Binds(s)
           /\ \A f \in Targets : \/ frames'[f] \in {0, frames[f]}
                                 \/ \E s \in Session : s[1] = Home /\ frames'[f] = sessions[s].tab
                                                        /\ (f = Home \/ f = Iframe)
<1> USE DEF TrackedType
<1> DEFINE tab == sessions[e.on].tab
<1>1. e.on \in Session /\ e.on[1] = Home /\ (e.of = Iframe \/ e.of = Home)
  BY DEF EventIsSound
<1>2. tab \in Nat
  BY <1>1 DEF Sessions
<1>3. frames' = IF tab = 0 THEN frames
                ELSE [f \in Targets |-> IF f = e.of THEN tab
                                        ELSE IF e.kind = "navigated" /\ f = Iframe THEN 0
                                        ELSE frames[f]]
  BY DEF FrameMoves
<1>4. frames' \in [Targets -> Nat]
  BY <1>2, <1>3
<1>5. ASSUME NEW f \in Targets
      PROVE  \/ frames'[f] \in {0, frames[f]}
             \/ frames'[f] = tab /\ (f = Home \/ f = Iframe)
  BY <1>1, <1>3
<1>6. sessions' \in Sessions /\ \A s \in Session : Binds(s)
  <2>1. CASE e.kind = "added"
    <3>1. sessions' = Bound(sessions, tabs, frames')
      BY <2>1 DEF FrameMoves
    <3>2. tabs' = tabs /\ tabs \in Tabs /\ sessions \in Sessions
      BY DEF tabVars
    <3> HIDE DEF TrackedType
    <3>3. sessions' \in Sessions
      BY <1>4, <3>1, <3>2, BoundGives
    <3>4. ASSUME NEW s \in Session
          PROVE  Binds(s)
      BY <1>4, <3>1, <3>2, BoundGives DEF Binds, Known
    <3> QED
      BY <3>3, <3>4
  <2>2. CASE e.kind # "added"
    <3>1. sessions' = sessions
      BY <2>2 DEF FrameMoves
    <3> QED
      BY <3>1 DEF Binds
  <2> QED
    BY <2>1, <2>2
<1> QED
  BY <1>1, <1>4, <1>5, <1>6

-----------------------------------------------------------------------------
(* The events that are not handled yet. *)

(* Handling the first one.                                                 *)
LEMMA QueueShrinks ==
    ASSUME BrowserType, queue # <<>>, queue' = Tail(queue)
    PROVE  /\ queue' \in Seq(Events) /\ Head(queue) = queue[1] /\ Head(queue) \in Events
           /\ Len(queue) \in Nat /\ 1 \in 1..Len(queue)
           /\ \A k \in 1..Len(queue') : k + 1 \in 1..Len(queue) /\ queue'[k] = queue[k + 1]
           /\ \A k \in 1..Len(queue) : k # 1 => k - 1 \in 1..Len(queue') /\ queue'[k - 1] = queue[k]
BY DEF BrowserType

(* An event that waits does so until it is handled.                        *)
LEMMA WaitsShrinks ==
    ASSUME BrowserType, queue # <<>>, queue' = Tail(queue)
    PROVE  /\ \A kind, x : Waits(kind, x)' => Waits(kind, x)
           /\ \A kind, x : Waits(kind, x) =>
                Waits(kind, x)' \/ (Head(queue).kind = kind /\ Head(queue).of = x)
           /\ \A s : LateEnd(s) => LateEnd(s)'
           /\ \A s : LateEnd(s) /\ Tracks(Head(queue), s[1]) => Waits("detached", s)'
<1> DEFINE n == Len(queue)
<1>1. /\ Head(queue) = queue[1] /\ n \in Nat /\ 1 \in 1..n
      /\ \A k \in 1..Len(queue') : k + 1 \in 1..n /\ queue'[k] = queue[k + 1]
      /\ \A k \in 1..n : k # 1 => k - 1 \in 1..Len(queue') /\ queue'[k - 1] = queue[k]
  BY QueueShrinks
<1> HIDE DEF n
<1>2. ASSUME NEW kind, NEW x, Waits(kind, x)'
      PROVE  Waits(kind, x)
  <2>1. PICK k \in 1..Len(queue') : queue'[k].kind = kind /\ queue'[k].of = x
    BY <1>2 DEF Waits
  <2> QED
    BY <1>1, <2>1 DEF Waits, n
<1>3. ASSUME NEW kind, NEW x, Waits(kind, x)
      PROVE  Waits(kind, x)' \/ (Head(queue).kind = kind /\ Head(queue).of = x)
  <2>1. PICK k \in 1..n : queue[k].kind = kind /\ queue[k].of = x
    BY <1>3 DEF Waits, n
  <2> QED
    BY <1>1, <2>1 DEF Waits
<1>4. ASSUME NEW s, LateEnd(s), NEW j \in 1..n, Tracks(queue[j], s[1])
      PROVE  \E k \in 1..Len(queue') : k > j - 1 /\ queue'[k].kind = "detached" /\ queue'[k].of = s
  <2>1. PICK k \in 1..n : k > j /\ queue[k].kind = "detached" /\ queue[k].of = s
    BY <1>4 DEF LateEnd, n
  <2>2. k # 1 /\ k - 1 > j - 1 /\ k - 1 \in 1..Len(queue')
    BY <1>1, <2>1
  <2> QED
    BY <1>1, <2>1, <2>2
<1>5. ASSUME NEW s, LateEnd(s)
      PROVE  LateEnd(s)'
  <2> SUFFICES ASSUME NEW j \in 1..Len(queue'), Tracks(queue'[j], s[1])
               PROVE  \E k \in 1..Len(queue') :
                        k > j /\ queue'[k].kind = "detached" /\ queue'[k].of = s
    BY DEF LateEnd, Tracks
  <2>1. j + 1 \in 1..n /\ Tracks(queue[j + 1], s[1]) /\ (j + 1) - 1 = j
    BY <1>1 DEF Tracks
  <2> QED
    BY <1>4, <1>5, <2>1
<1>6. ASSUME NEW s, LateEnd(s), Tracks(Head(queue), s[1])
      PROVE  Waits("detached", s)'
  BY <1>1, <1>4, <1>6 DEF Waits
<1> QED
  BY <1>2, <1>3, <1>5, <1>6

(* New ones come after those that wait.                                    *)
LEMMA QueueGrows ==
    ASSUME BrowserType, NEW new \in Seq(Events), queue' = queue \o new
    PROVE  /\ queue' \in Seq(Events) /\ Len(queue) \in Nat /\ Len(new) \in Nat
           /\ \A k \in 1..Len(queue) : k \in 1..Len(queue') /\ queue'[k] = queue[k]
           /\ \A k \in 1..Len(new) :
                Len(queue) + k \in 1..Len(queue') /\ queue'[Len(queue) + k] = new[k]
           /\ \A k \in 1..Len(queue') :
                \/ k \in 1..Len(queue) /\ queue'[k] = queue[k]
                \/ /\ k > Len(queue) /\ k - Len(queue) \in 1..Len(new)
                   /\ queue'[k] = new[k - Len(queue)]
BY DEF BrowserType

(* Events that are sent wait behind the others.                            *)
LEMMA WaitsGrows ==
    ASSUME BrowserType, NEW new \in Seq(Events), queue' = queue \o new
    PROVE  /\ \A kind, x : Waits(kind, x) => Waits(kind, x)'
           /\ \A k \in 1..Len(new) : Waits(new[k].kind, new[k].of)'
           /\ \A kind, x : Waits(kind, x)' =>
                Waits(kind, x) \/ \E k \in 1..Len(new) : new[k].kind = kind /\ new[k].of = x
           /\ \A s : LateEnd(s) /\ (\A k \in 1..Len(new) : ~Tracks(new[k], s[1])) => LateEnd(s)'
           /\ \A s : (\A k \in 1..Len(new) : ~Tracks(new[k], s[1]))
                     /\ (\E k \in 1..Len(new) : new[k].kind = "detached" /\ new[k].of = s)
                     => LateEnd(s)'
<1> DEFINE n == Len(queue)
<1>1. /\ n \in Nat /\ Len(new) \in Nat
      /\ \A k \in 1..n : k \in 1..Len(queue') /\ queue'[k] = queue[k]
      /\ \A k \in 1..Len(new) : n + k \in 1..Len(queue') /\ queue'[n + k] = new[k]
      /\ \A k \in 1..Len(queue') :
            \/ k \in 1..n /\ queue'[k] = queue[k]
            \/ /\ k > n /\ k - n \in 1..Len(new)
               /\ queue'[k] = new[k - n]
  BY QueueGrows
<1> HIDE DEF n
<1>2. ASSUME NEW kind, NEW x, Waits(kind, x)
      PROVE  Waits(kind, x)'
  BY <1>1, <1>2 DEF Waits, n
<1>3. ASSUME NEW k \in 1..Len(new)
      PROVE  Waits(new[k].kind, new[k].of)'
  BY <1>1 DEF Waits
<1>4. ASSUME NEW kind, NEW x, Waits(kind, x)'
      PROVE  Waits(kind, x) \/ \E k \in 1..Len(new) : new[k].kind = kind /\ new[k].of = x
  BY <1>1, <1>4 DEF Waits, n
<1>5. ASSUME NEW s, LateEnd(s), \A k \in 1..Len(new) : ~Tracks(new[k], s[1])
      PROVE  LateEnd(s)'
  <2> SUFFICES ASSUME NEW j \in 1..Len(queue'), Tracks(queue'[j], s[1])
               PROVE  \E k \in 1..Len(queue') :
                        k > j /\ queue'[k].kind = "detached" /\ queue'[k].of = s
    BY DEF LateEnd, Tracks
  <2>1. j \in 1..n /\ Tracks(queue[j], s[1])
    BY <1>1, <1>5 DEF Tracks
  <2>2. PICK k \in 1..n : k > j /\ queue[k].kind = "detached" /\ queue[k].of = s
    BY <1>5, <2>1 DEF LateEnd, n
  <2> QED
    BY <1>1, <2>2
<1>6. ASSUME NEW s, \A k \in 1..Len(new) : ~Tracks(new[k], s[1]),
             NEW j \in 1..Len(queue'), Tracks(queue'[j], s[1])
      PROVE  j \in 1..n
  <2>1. j \in 1..n \/ (j - n \in 1..Len(new) /\ queue'[j] = new[j - n])
    BY <1>1
  <2> QED
    BY <1>6, <2>1
<1>7. ASSUME NEW s, \A k \in 1..Len(new) : ~Tracks(new[k], s[1]),
             NEW m \in 1..Len(new), new[m].kind = "detached", new[m].of = s
      PROVE  LateEnd(s)'
  <2>1. n + m \in 1..Len(queue') /\ queue'[n + m] = new[m] /\ \A j \in 1..n : n + m > j
    BY <1>1
  <2>2. ASSUME NEW j \in 1..Len(queue'), Tracks(queue'[j], s[1])
        PROVE  \E k \in 1..Len(queue') :
                    k > j /\ queue'[k].kind = "detached" /\ queue'[k].of = s
    <3>1. j \in 1..n
      BY <1>7, <1>6, <2>2
    <3> QED
      BY <1>7, <2>1, <3>1
  <2> QED
    BY <2>2 DEF LateEnd, Tracks
<1> QED
  BY <1>2, <1>3, <1>4, <1>5, <1>7

(* Nothing comes and nothing goes.                                         *)
LEMMA QueueSame ==
    ASSUME queue' = queue
    PROVE  /\ \A kind, x : Waits(kind, x)' <=> Waits(kind, x)
           /\ \A s : LateEnd(s)' <=> LateEnd(s)
BY DEF Waits, LateEnd, Tracks

(* What a target that closes, and its frame, send.                         *)
Closing(e, gone) ==
    \/ e.kind = "detached" /\ e.of \in attached /\ e.of[1] \in gone
    \/ e.kind = "destroyed" /\ e.of \in gone
    \/ e.kind = "removed" /\ e.of = Iframe
    \/ e.kind = "navigated" /\ e.of = Home /\ e.on \in Session /\ e.on[1] = Home

Closes(gone, new) ==
    /\ \A k \in 1..Len(new) : Closing(new[k], gone)
    /\ \A u \in gone : \E k \in 1..Len(new) : new[k].kind = "destroyed" /\ new[k].of = u
    /\ \A s \in attached : s[1] \in gone =>
        \E k \in 1..Len(new) : new[k].kind = "detached" /\ new[k].of = s
    /\ \A j, k \in 1..Len(new) :
        /\ new[k].kind = "destroyed" /\ new[j].kind = "detached" /\ new[j].of[1] = new[k].of
        => j < k

(* A farewell is that of one target.                                       *)
LEMMA FarewellCloses ==
    ASSUME attached \subseteq Session, NEW t \in Targets, NEW q \in Farewell(t)
    PROVE  q \in Seq(Events) /\ Closes({t}, q)
<1>1. /\ q \in Seq(Events) /\ Len(q) \in Nat \ {0}
      /\ q[Len(q)].kind = "destroyed" /\ q[Len(q)].of = t
      /\ \A k \in 1..(Len(q) - 1) : /\ q[k].kind = "detached"
                                    /\ q[k].of \in attached /\ q[k].of[1] = t
      /\ \A s \in attached : s[1] = t =>
            \E k \in 1..(Len(q) - 1) : q[k].kind = "detached" /\ q[k].of = s
  BY FarewellTells
<1>2. \A k \in 1..Len(q) : k \in 1..(Len(q) - 1) \/ k = Len(q)
  BY <1>1
<1>3. \A k \in 1..(Len(q) - 1) : k \in 1..Len(q) /\ k < Len(q)
  BY <1>1
<1>4. \A k \in 1..Len(q) : Closing(q[k], {t})
  BY <1>1, <1>2 DEF Closing
<1>5. Len(q) \in 1..Len(q)
  BY <1>1
<1>6. ASSUME NEW j \in 1..Len(q), NEW k \in 1..Len(q), q[k].kind = "destroyed", q[j].kind = "detached"
      PROVE  j < k
  BY <1>1, <1>2, <1>3, <1>6
<1> QED
  BY <1>1, <1>3, <1>4, <1>5, <1>6 DEF Closes

(* One after the other.                                                    *)
LEMMA InTurn ==
    ASSUME NEW q \in Seq(Events), NEW r \in Seq(Events)
    PROVE  /\ q \o r \in Seq(Events) /\ Len(q) \in Nat /\ Len(r) \in Nat
           /\ \A k \in 1..Len(q) : k \in 1..Len(q \o r) /\ (q \o r)[k] = q[k]
           /\ \A k \in 1..Len(r) : Len(q) + k \in 1..Len(q \o r) /\ (q \o r)[Len(q) + k] = r[k]
           /\ \A k \in 1..Len(q \o r) :
                \/ k \in 1..Len(q) /\ (q \o r)[k] = q[k]
                \/ /\ k > Len(q) /\ k - Len(q) \in 1..Len(r)
                   /\ (q \o r)[k] = r[k - Len(q)]
OBVIOUS

(* A page goes after its frame.                                            *)
LEMMA ClosesInTurn ==
    ASSUME NEW A, NEW B, A \cap B = {}, NEW q \in Seq(Events), NEW r \in Seq(Events),
           Closes(A, q), Closes(B, r)
    PROVE  q \o r \in Seq(Events) /\ Closes(A \cup B, q \o r)
<1> DEFINE new == q \o r
           n == Len(q)
<1>1. /\ new \in Seq(Events) /\ n \in Nat /\ Len(r) \in Nat
      /\ \A k \in 1..n : k \in 1..Len(new) /\ new[k] = q[k]
      /\ \A k \in 1..Len(r) : n + k \in 1..Len(new) /\ new[n + k] = r[k]
      /\ \A k \in 1..Len(new) :
            \/ k \in 1..n /\ new[k] = q[k]
            \/ k > n /\ k - n \in 1..Len(r) /\ new[k] = r[k - n]
  BY InTurn
<1> HIDE DEF new, n
<1>2. \A k \in 1..Len(new) : Closing(new[k], A \cup B)
  <2> SUFFICES ASSUME NEW k \in 1..Len(new) PROVE Closing(new[k], A \cup B)
    OBVIOUS
  <2>1. CASE k \in 1..n /\ new[k] = q[k]
    BY <2>1 DEF Closes, Closing, n
  <2>2. CASE k - n \in 1..Len(r) /\ new[k] = r[k - n]
    BY <2>2 DEF Closes, Closing
  <2> QED
    BY <1>1, <2>1, <2>2
<1>3. ASSUME NEW u \in A \cup B
      PROVE  \E k \in 1..Len(new) : new[k].kind = "destroyed" /\ new[k].of = u
  <2>1. CASE u \in A
    <3>1. PICK k \in 1..n : q[k].kind = "destroyed" /\ q[k].of = u
      BY <2>1 DEF Closes, n
    <3> QED
      BY <1>1, <3>1
  <2>2. CASE u \in B
    <3>1. PICK k \in 1..Len(r) : r[k].kind = "destroyed" /\ r[k].of = u
      BY <2>2 DEF Closes
    <3> QED
      BY <1>1, <3>1
  <2> QED
    BY <2>1, <2>2
<1>4. ASSUME NEW s \in attached, s[1] \in A \cup B
      PROVE  \E k \in 1..Len(new) : new[k].kind = "detached" /\ new[k].of = s
  <2>1. CASE s[1] \in A
    <3>1. PICK k \in 1..n : q[k].kind = "detached" /\ q[k].of = s
      BY <2>1 DEF Closes, n
    <3> QED
      BY <1>1, <3>1
  <2>2. CASE s[1] \in B
    <3>1. PICK k \in 1..Len(r) : r[k].kind = "detached" /\ r[k].of = s
      BY <2>2 DEF Closes
    <3> QED
      BY <1>1, <3>1
  <2> QED
    BY <1>4, <2>1, <2>2
<1>5. ASSUME NEW j \in 1..Len(new), NEW k \in 1..Len(new),
             new[k].kind = "destroyed", new[j].kind = "detached", new[j].of[1] = new[k].of
      PROVE  j < k
  <2>1. CASE j \in 1..n /\ k \in 1..n
    <3>1. new[j] = q[j] /\ new[k] = q[k]
      BY <1>1, <2>1
    <3> QED
      BY <1>5, <2>1, <3>1 DEF Closes, n
  <2>2. CASE j > n /\ k > n
    <3>1. /\ new[j] = r[j - n] /\ new[k] = r[k - n]
          /\ j - n \in 1..Len(r) /\ k - n \in 1..Len(r)
      BY <1>1, <2>2
    <3>2. j - n < k - n
      BY <1>5, <3>1 DEF Closes
    <3> QED
      BY <1>1, <3>2
  <2>3. CASE j > n /\ k \in 1..n
    <3>1. /\ new[j] = r[j - n] /\ new[k] = q[k] /\ j - n \in 1..Len(r)
      BY <1>1, <2>3
    <3>2. Closing(q[k], A) /\ Closing(r[j - n], B)
      BY <2>3, <3>1 DEF Closes, n
    <3> QED
      BY <1>5, <3>1, <3>2 DEF Closing
  <2>4. CASE j \in 1..n /\ k > n
    BY <1>1, <2>4
  <2> QED
    BY <1>1, <2>1, <2>2, <2>3, <2>4
<1> QED
  BY <1>1, <1>2, <1>3, <1>4, <1>5 DEF Closes, new

(* Close.                                                                  *)
Closed(t, gone, new) ==
    /\ \A u \in gone : alive[u] = "open"
    /\ t = Home /\ alive[Iframe] = "open" => Iframe \in gone
    /\ t \in gone /\ \A u \in gone : u = t \/ u = Iframe
    /\ alive' = [u \in Targets |-> IF u \in gone THEN "gone" ELSE alive[u]]
    /\ attached' = {s \in attached : s[1] \notin gone}
    /\ enabled' = enabled \cap attached'
    /\ queue' = queue \o new
    /\ Closes(gone, new)

(* What a step of CloseTarget sends, in one of the orders the browser may  *)
(* choose.                                                                 *)
LEMMA CloseDoes ==
    ASSUME BrowserType, NEW t \in Targets, CloseTarget(t)
    PROVE  \E gone \in SUBSET Targets, new \in Seq(Events) : Closed(t, gone, new)
<1> DEFINE gone == {t} \cup (IF t = Home /\ alive[Iframe] = "open" THEN {Iframe} ELSE {})
<1>1. /\ alive[t] = "open"
      /\ alive' = [u \in Targets |-> IF u \in gone THEN "gone" ELSE alive[u]]
      /\ attached' = {s \in attached : s[1] \notin gone} /\ enabled' = enabled \cap attached'
  BY DEF CloseTarget
<1>2. PICK frame \in IF Iframe \in gone THEN Farewell(Iframe) ELSE {<<>>},
           page \in IF t = Iframe THEN OnHome("removed", t) \cup OnHome("navigated", Home)
                    ELSE Farewell(t) :
                queue' = queue \o (frame \o page)
  BY DEF CloseTarget, Sends
<1>3. attached \subseteq Session /\ enabled \subseteq Session
  BY DEF BrowserType
<1>4. CASE t = Iframe
  <2>1. gone = {Iframe}
    BY <1>4, SessionParts
  <2>2. frame \in Farewell(Iframe) /\ page \in OnHome("removed", Iframe) \cup OnHome("navigated", Home)
    BY <1>2, <1>4, <2>1
  <2>3. frame \in Seq(Events) /\ Closes({Iframe}, frame)
    BY <1>3, <2>2, FarewellCloses, SessionParts
  <2>4. page \in Seq(Events) /\ Closes({}, page)
    <3>1. CASE page \in OnHome("removed", Iframe)
      <4>1. /\ page \in Seq(Events)
            /\ \A k \in 1..Len(page) : page[k].kind = "removed" /\ page[k].of = Iframe
        BY <1>3, <3>1, OnHomeTells, SessionParts DEF Kinds
      <4> QED
        BY <4>1 DEF Closes, Closing
    <3>2. CASE page \in OnHome("navigated", Home)
      <4>1. /\ page \in Seq(Events)
            /\ \A k \in 1..Len(page) : page[k].kind = "navigated" /\ page[k].of = Home
                                       /\ page[k].on \in Session /\ page[k].on[1] = Home
        BY <1>3, <3>2, OnHomeTells, SessionParts DEF Kinds
      <4> QED
        BY <4>1 DEF Closes, Closing
    <3> QED
      BY <2>2, <3>1, <3>2
  <2>5. frame \o page \in Seq(Events) /\ Closes(gone, frame \o page)
    <3>1. {Iframe} \cap {} = {} /\ {Iframe} \cup {} = gone
      BY <2>1
    <3> QED
      BY <2>3, <2>4, <3>1, ClosesInTurn
  <2> QED
    <3>1. gone \in SUBSET Targets /\ (\A u \in gone : alive[u] = "open") /\ t # Home
      BY <1>1, <1>4, <2>1, SessionParts
    <3>2. t \in gone /\ \A u \in gone : u = t \/ u = Iframe
      BY <1>4, <2>1
    <3> HIDE DEF gone
    <3>3. Closed(t, gone, frame \o page)
      BY <1>1, <1>2, <2>5, <3>1, <3>2 DEF Closed
    <3> QED
      BY <2>5, <3>1, <3>3
<1>5. CASE t # Iframe /\ Iframe \in gone
  <2>1. t = Home /\ alive[Iframe] = "open" /\ gone = {Iframe} \cup {t} /\ {Iframe} \cap {t} = {}
    BY <1>5
  <2>2. frame \in Farewell(Iframe) /\ page \in Farewell(t)
    BY <1>2, <1>5
  <2>3. frame \in Seq(Events) /\ Closes({Iframe}, frame) /\ page \in Seq(Events) /\ Closes({t}, page)
    BY <1>3, <2>2, FarewellCloses, SessionParts
  <2>4. frame \o page \in Seq(Events) /\ Closes(gone, frame \o page)
    BY <2>1, <2>3, ClosesInTurn
  <2> QED
    <3>1. gone \in SUBSET Targets /\ \A u \in gone : alive[u] = "open"
      BY <1>1, <2>1, SessionParts
    <3>2. t \in gone /\ \A u \in gone : u = t \/ u = Iframe
      BY <2>1
    <3> HIDE DEF gone
    <3>3. Closed(t, gone, frame \o page)
      BY <1>1, <1>2, <1>5, <2>4, <3>1, <3>2 DEF Closed
    <3> QED
      BY <2>4, <3>1, <3>3
<1>6. CASE t # Iframe /\ Iframe \notin gone
  <2>1. ~(t = Home /\ alive[Iframe] = "open") /\ gone = {t}
    BY <1>6
  <2>2. frame = <<>> /\ page \in Farewell(t)
    BY <1>2, <1>6
  <2>3. page \in Seq(Events) /\ Closes(gone, page)
    BY <1>3, <2>1, <2>2, FarewellCloses
  <2>4. frame \o page = page
    BY <2>2, <2>3
  <2> QED
    <3>1. gone \in SUBSET Targets /\ (\A u \in gone : alive[u] = "open")
      BY <1>1, <2>1
    <3>2. t \in gone /\ \A u \in gone : u = t \/ u = Iframe
      BY <2>1
    <3> HIDE DEF gone
    <3>3. Closed(t, gone, page)
      BY <1>1, <1>2, <2>1, <2>3, <2>4, <3>1, <3>2 DEF Closed
    <3> QED
      BY <2>3, <3>1, <3>3
<1> QED
  BY <1>4, <1>5, <1>6

-----------------------------------------------------------------------------
(* What each step does, in the terms of the invariant. *)

StillTracked == UNCHANGED <<nextTabID, tabs, windows, tracking, sessions, frames>>
StillBrowser == UNCHANGED <<alive, issued, attached, enabled, queue>>
StillGoing == UNCHANGED <<attaching, initializing, refresh, stale>>

(* Open.                                                                   *)
Opened(t, new) ==
    /\ alive[t] = "none" /\ alive' = [alive EXCEPT ![t] = "open"]
    /\ t = Iframe => alive[Home] = "open"
    /\ queue' = queue \o new
    /\ \A k \in 1..Len(new) :
        \/ new[k].kind = "created" /\ new[k].of = t
        \/ /\ new[k].kind = "added" /\ new[k].of = Iframe
           /\ new[k].on \in Session /\ new[k].on[1] = Home

(* A target that opens leaves what is tracked alone.                       *)
LEMMA OpenDoes ==
    ASSUME BrowserType, NEW t \in Targets, OpenTarget(t)
    PROVE  /\ \E new \in Seq(Events) : Opened(t, new)
           /\ UNCHANGED <<issued, attached, enabled>> /\ StillTracked /\ StillGoing
<1>1. PICK told \in IF t = Iframe THEN OnHome("added", t) ELSE {<<>>} :
          queue' = queue \o (told \o <<Event("created", t)>>)
  BY DEF OpenTarget, Sends
<1>2. /\ alive[t] = "none" /\ alive' = [alive EXCEPT ![t] = "open"]
      /\ t = Iframe => alive[Home] = "open"
      /\ UNCHANGED <<issued, attached, enabled>> /\ StillTracked /\ StillGoing
  BY DEF OpenTarget, trackedVars, tabVars, goVars, refreshVars, StillTracked, StillGoing
<1> DEFINE last == <<Event("created", t)>>
<1>3. last \in Seq(Events) /\ Len(last) = 1 /\ last[1].kind = "created" /\ last[1].of = t
  BY EventType DEF Kinds
<1>4. /\ told \in Seq(Events)
      /\ \A k \in 1..Len(told) : /\ told[k].kind = "added" /\ told[k].of = Iframe
                                 /\ told[k].on \in Session /\ told[k].on[1] = Home
  <2>1. CASE t = Iframe
    <3>1. told \in OnHome("added", Iframe) /\ enabled \subseteq Session
      BY <1>1, <2>1 DEF BrowserType
    <3> QED
      BY <3>1, OnHomeTells, SessionParts DEF Kinds
  <2>2. CASE t # Iframe
    BY <1>1, <2>2
  <2> QED
    BY <2>1, <2>2
<1> DEFINE new == told \o last
<1>5. /\ new \in Seq(Events)
      /\ \A k \in 1..Len(new) :
            \/ k \in 1..Len(told) /\ new[k] = told[k]
            \/ new[k] = last[1]
  <2>1. told \in Seq(Events) /\ last \in Seq(Events) /\ Len(last) = 1
    BY <1>3, <1>4
  <2> HIDE DEF last
  <2>2. /\ new \in Seq(Events) /\ Len(told) \in Nat
        /\ \A k \in 1..Len(new) :
            \/ k \in 1..Len(told) /\ new[k] = told[k]
            \/ /\ k > Len(told) /\ k - Len(told) \in 1..Len(last)
               /\ new[k] = last[k - Len(told)]
    BY <2>1, InTurn
  <2> HIDE DEF new
  <2> QED
    BY <2>1, <2>2
<1>6. Opened(t, new)
  <2> HIDE DEF last
  <2>1. queue' = queue \o new
    BY <1>1 DEF last
  <2> HIDE DEF new
  <2>2. ASSUME NEW k \in 1..Len(new)
        PROVE  \/ new[k].kind = "created" /\ new[k].of = t
               \/ /\ new[k].kind = "added" /\ new[k].of = Iframe
                  /\ new[k].on \in Session /\ new[k].on[1] = Home
    BY <1>3, <1>4, <1>5
  <2> QED
    BY <1>2, <2>1, <2>2 DEF Opened
<1> QED
  BY <1>2, <1>5, <1>6

(* Change.                                                                 *)
LEMMA ChangeDoes ==
    ASSUME BrowserType, NEW t \in Targets, ChangePage(t)
    PROVE  /\ t \in Pages /\ alive[t] = "open"
           /\ \E new \in Seq(Events) : /\ queue' = queue \o new /\ Len(new) = 1
                                       /\ new[1].kind = "changed" /\ new[1].of = t
           /\ UNCHANGED <<alive, issued, attached, enabled>> /\ StillTracked /\ StillGoing
<1> DEFINE new == <<Event("changed", t)>>
<1>1. new \in Seq(Events) /\ Len(new) = 1 /\ new[1].kind = "changed" /\ new[1].of = t
  BY EventType DEF Kinds
<1>2. /\ t \in Pages /\ alive[t] = "open" /\ queue' = queue \o new
      /\ UNCHANGED <<alive, issued, attached, enabled>> /\ StillTracked /\ StillGoing
  BY DEF ChangePage, Sends, trackedVars, tabVars, goVars, refreshVars, StillTracked, StillGoing
<1> QED
  BY <1>1, <1>2

(* handleProtocolEvent, by the kind of event.                              *)
Handled(e) ==
    /\ queue # <<>> /\ queue' = Tail(queue) /\ e = Head(queue) /\ EventIsSound(e)
    /\ UNCHANGED <<alive, issued, attached, enabled, refresh, stale>>
TrackEvent(e) ==
    Handled(e) /\ Tracks(e, e.of) /\ e.of \in Targets /\ Track(e.of) /\ UNCHANGED initializing
LookEvent(e) ==
    /\ Handled(e) /\ Tracks(e, e.of) /\ e.of \in Pages
    /\ tabs[e.of].id # 0
    /\ attaching' = attaching \cup {[Attaching(e.of, tabs[e.of].id) EXCEPT !.stage = "look"]}
    /\ StillTracked /\ UNCHANGED initializing
DestroyedEvent(e) ==
    /\ Handled(e) /\ e.kind = "destroyed" /\ e.of \in Targets /\ RemoveTarget(e.of)
    /\ UNCHANGED <<attaching, initializing>>
AttachedEvent(e) ==
    /\ Handled(e) /\ e.kind = "attached" /\ e.of \in Session /\ AddSession(e.of)
    /\ UNCHANGED <<nextTabID, tabs, windows, tracking, frames, attaching>>
DetachedEvent(e) ==
    /\ Handled(e) /\ e.kind = "detached" /\ e.of \in Session /\ RemoveSessions({e.of})
    /\ UNCHANGED <<nextTabID, tabs, windows, frames, attaching, initializing>>
FrameEvent(e) ==
    /\ Handled(e) /\ e.kind \in {"removed", "added", "navigated"}
    /\ \/ e.kind = "removed" /\ frames' = [frames EXCEPT ![Iframe] = 0] /\ UNCHANGED sessions
       \/ e.kind # "removed" /\ FrameMoves(e)
    /\ UNCHANGED <<nextTabID, tabs, windows, tracking, attaching, initializing>>

(* An event is handled in one of six ways.                                 *)
LEMMA HandleDoes ==
    ASSUME BrowserType, BrowserIsSound, Handle
    PROVE  \E e : \/ TrackEvent(e) \/ LookEvent(e) \/ DestroyedEvent(e)
                  \/ AttachedEvent(e) \/ DetachedEvent(e) \/ FrameEvent(e)
<1> DEFINE e == Head(queue)
<1>1. Handled(e)
  <2>1. /\ queue # <<>> /\ queue' = Tail(queue)
        /\ UNCHANGED <<alive, issued, attached, enabled, refresh, stale>>
    BY DEF Handle, refreshVars
  <2>2. e = queue[1] /\ 1 \in 1..Len(queue)
    BY <2>1, QueueShrinks
  <2>3. EventIsSound(e)
    BY <2>2 DEF BrowserIsSound
  <2> QED
    BY <2>1, <2>3 DEF Handled
<1>2. \/ e.kind = "created" /\ Track(e.of) /\ UNCHANGED initializing
      \/ e.kind = "changed" /\ Update(e.of) /\ UNCHANGED initializing
      \/ e.kind = "destroyed" /\ RemoveTarget(e.of) /\ UNCHANGED <<attaching, initializing>>
      \/ /\ e.kind = "attached" /\ AddSession(e.of)
         /\ UNCHANGED <<tabVars, tracking, frames, attaching>>
      \/ /\ e.kind = "detached" /\ RemoveSessions({e.of})
         /\ UNCHANGED <<tabVars, frames, attaching, initializing>>
      \/ /\ e.kind = "removed"
         /\ frames' = [frames EXCEPT ![e.of] = 0]
         /\ UNCHANGED <<tabVars, tracking, sessions, attaching, initializing>>
      \/ /\ e.kind \in {"added", "navigated"} /\ FrameMoves(e)
         /\ UNCHANGED <<tabVars, tracking, attaching, initializing>>
  BY DEF Handle
<1> HIDE DEF e
<1>3. EventIsSound(e)
  BY <1>1 DEF Handled
<1>4. CASE e.kind = "created" /\ Track(e.of) /\ UNCHANGED initializing
  BY <1>1, <1>3, <1>4 DEF TrackEvent, Tracks, EventIsSound
<1>5. CASE e.kind = "changed" /\ Update(e.of) /\ UNCHANGED initializing
  <2>1. CASE tabs[e.of].id = 0
    BY <1>1, <1>3, <1>5, <2>1 DEF Update, TrackEvent, Tracks, EventIsSound
  <2>2. CASE tabs[e.of].id # 0
    <3>1. /\ attaching' = attaching \cup {[Attaching(e.of, tabs[e.of].id) EXCEPT !.stage = "look"]}
          /\ StillTracked
      BY <1>5, <2>2 DEF Update, trackedVars, tabVars, StillTracked
    <3> QED
      BY <1>1, <1>3, <1>5, <2>2, <3>1 DEF LookEvent, Tracks, EventIsSound
  <2> QED
    BY <2>1, <2>2
<1>6. CASE e.kind = "destroyed" /\ RemoveTarget(e.of) /\ UNCHANGED <<attaching, initializing>>
  BY <1>1, <1>3, <1>6 DEF DestroyedEvent, EventIsSound
<1>7. CASE /\ e.kind = "attached" /\ AddSession(e.of)
           /\ UNCHANGED <<tabVars, tracking, frames, attaching>>
  BY <1>1, <1>3, <1>7 DEF AttachedEvent, EventIsSound, tabVars
<1>8. CASE /\ e.kind = "detached" /\ RemoveSessions({e.of})
           /\ UNCHANGED <<tabVars, frames, attaching, initializing>>
  BY <1>1, <1>3, <1>8 DEF DetachedEvent, EventIsSound, tabVars
<1>9. CASE /\ e.kind = "removed" /\ frames' = [frames EXCEPT ![e.of] = 0]
           /\ UNCHANGED <<tabVars, tracking, sessions, attaching, initializing>>
  BY <1>1, <1>3, <1>9 DEF FrameEvent, EventIsSound, tabVars
<1>10. CASE /\ e.kind \in {"added", "navigated"} /\ FrameMoves(e)
            /\ UNCHANGED <<tabVars, tracking, attaching, initializing>>
  BY <1>1, <1>10 DEF FrameEvent, tabVars
<1> QED
  BY <1>2, <1>4, <1>5, <1>6, <1>7, <1>8, <1>9, <1>10

(* assignPageWindow and updateTarget: the window of a page, or none.       *)
Located(g) ==
    /\ StillBrowser /\ UNCHANGED <<tracking, sessions, frames, initializing, refresh, stale>>
    /\ \/ \E raw \in Int \ {0} : AssignWindow(g.target, raw)
       \/ UNCHANGED tabVars
    /\ g.target \in Pages /\ g.stage \in {"window", "look"}
    /\ \/ attaching' = attaching \ {g}
       \/ attaching' = (attaching \ {g}) \cup {[g EXCEPT !.stage = "attach"]}

(* Both goroutines that ask for a window end like that.                    *)
LEMMA LocateDoes ==
    ASSUME AttachingType, NEW g \in attaching, FindWindow(g) \/ LookAgain(g)
    PROVE  Located(g)
<1>1. g.target \in Pages /\ g.tab \in Nat \ {0}
  BY DEF AttachingType, FindWindow, LookAgain
<1>2. \A raw \in RawWindows : raw \in Int \ {0}
  BY SurfaceAssumption
<1>3. -g.tab \in Int \ {0}
  BY <1>1
<1>4. CASE FindWindow(g)
  <2>1. \/ \E raw \in RawWindows : AssignWindow(g.target, raw)
        \/ UNCHANGED tabVars
        \/ AssignWindow(g.target, -g.tab)
    BY <1>4 DEF FindWindow
  <2>2. /\ StillBrowser /\ UNCHANGED <<tracking, sessions, frames, initializing, refresh, stale>>
        /\ g.stage = "window" /\ attaching' = (attaching \ {g}) \cup {[g EXCEPT !.stage = "attach"]}
    BY <1>4 DEF FindWindow, targetVars, refreshVars, StillBrowser, MoveOn
  <2> QED
    BY <1>1, <1>2, <1>3, <2>1, <2>2 DEF Located
<1>5. CASE LookAgain(g)
  <2>1. \/ \E raw \in RawWindows : AssignWindow(g.target, raw)
        \/ UNCHANGED tabVars
    BY <1>5 DEF LookAgain
  <2>2. /\ StillBrowser /\ UNCHANGED <<tracking, sessions, frames, initializing, refresh, stale>>
        /\ g.stage = "look" /\ attaching' = attaching \ {g}
    BY <1>5 DEF LookAgain, targetVars, refreshVars, StillBrowser
  <2> QED
    BY <1>1, <1>2, <2>1, <2>2 DEF Located
<1> QED
  BY <1>4, <1>5

(* attachTarget: the browser attaches, or not.                             *)
Granted(g, s, new) ==
    /\ g.stage = "attach" /\ alive[g.target] = "open"
    /\ s \in Session /\ s[1] = g.target /\ s[2] = issued[g.target] + 1
    /\ issued' = [issued EXCEPT ![g.target] = @ + 1]
    /\ attached' = attached \cup {s}
    /\ new \in Seq(Events) /\ queue' = queue \o new
    /\ Len(new) = 1 /\ new[1].kind = "attached" /\ new[1].of = s
    /\ \/ attaching' = (attaching \ {g}) \cup {[g EXCEPT !.stage = "answered", !.session = s]}
       \/ attaching' = (attaching \ {g}) \cup {[g EXCEPT !.stage = "failed"]}
Refused(g) ==
    /\ g.stage = "attach" /\ UNCHANGED <<issued, attached, queue>>
    /\ attaching' = (attaching \ {g}) \cup {[g EXCEPT !.stage = "failed"]}

(* The browser attaches and says so, or not; the answer may be lost.       *)
LEMMA AttachDoes ==
    ASSUME AttachingType, BrowserType, NEW g \in attaching, Attach(g)
    PROVE  /\ Refused(g) \/ \E s, new : Granted(g, s, new)
           /\ UNCHANGED <<alive, enabled, initializing, refresh, stale>> /\ StillTracked
<1> DEFINE s == <<g.target, issued[g.target] + 1>>
           new == <<Event("attached", s)>>
<1>1. /\ g.stage = "attach"
      /\ UNCHANGED <<alive, enabled, initializing, refresh, stale>> /\ StillTracked
  BY DEF Attach, trackedVars, tabVars, refreshVars, StillTracked
<1>2. CASE Refused(g)
  BY <1>1, <1>2
<1>3. CASE /\ alive[g.target] = "open" /\ s \in Session
           /\ issued' = [issued EXCEPT ![g.target] = @ + 1]
           /\ attached' = attached \cup {s}
           /\ queue' = queue \o new
           /\ \/ attaching' = (attaching \ {g}) \cup {[g EXCEPT !.stage = "answered", !.session = s]}
              \/ attaching' = (attaching \ {g}) \cup {[g EXCEPT !.stage = "failed"]}
  <2>1. new \in Seq(Events) /\ Len(new) = 1 /\ new[1].kind = "attached" /\ new[1].of = s
    BY <1>3, EventType DEF Kinds
  <2>2. s[1] = g.target /\ s[2] = issued[g.target] + 1
    OBVIOUS
  <2> HIDE DEF s, new
  <2>3. Granted(g, s, new)
    BY <1>1, <1>3, <2>1, <2>2 DEF Granted
  <2> QED
    BY <1>1, <2>3
<1> QED
  BY <1>1, <1>2, <1>3 DEF Attach, MoveOn, Sends, Refused

(* The answer adds the session, and the goroutine is to look again.        *)
LEMMA AnsweredDoes ==
    ASSUME NEW g \in attaching, Answered(g)
    PROVE  /\ g.stage = "answered" /\ AddSession(g.session)
           /\ attaching' = (attaching \ {g}) \cup {[g EXCEPT !.stage = "check"]}
           /\ StillBrowser
           /\ UNCHANGED <<nextTabID, tabs, windows, tracking, frames, refresh, stale>>
BY DEF Answered, MoveOn, targetVars, tabVars, refreshVars, StillBrowser

(* It looks again: the session stays if its target is still tracked.       *)
LEMMA CheckDoes ==
    ASSUME NEW g \in attaching, CheckTracked(g)
    PROVE  /\ g.stage = "check" /\ attaching' = attaching \ {g}
           /\ \/ g.target \in tracking /\ StillTracked
              \/ g.target \notin tracking /\ RemoveSessions({g.session})
           /\ StillBrowser
           /\ UNCHANGED <<nextTabID, tabs, windows, frames, initializing, refresh, stale>>
BY DEF CheckTracked, Tracked, targetVars, trackedVars, tabVars, refreshVars, StillBrowser, StillTracked

(* A goroutine that fails leaves the sessions alone.                       *)
LEMMA AttachFailsDoes ==
    ASSUME NEW g \in attaching, AttachFails(g)
    PROVE  /\ g.stage = "failed" /\ attaching' = attaching \ {g}
           /\ tracking' \subseteq tracking /\ StillBrowser
           /\ UNCHANGED <<nextTabID, tabs, windows, sessions, frames, initializing, refresh, stale>>
BY DEF AttachFails, targetVars, tabVars, refreshVars, StillBrowser

(* initializeSession finds its tab, or a session that needs none, or fails. *)
FoundNothing(i) ==
    /\ sessions[i.session].stage # "new" /\ initializing' = initializing \ {i}
    /\ tracking' = tracking /\ \A s \in Session : Binds(s)
FoundTab(i) ==
    /\ sessions[i.session].stage = "new"
    /\ \A s \in Session : s # i.session => Binds(s)
    /\ sessions'[i.session].stage = "initializing" /\ sessions'[i.session].tab # 0
    /\ sessions[i.session].tab # 0 => sessions'[i.session].tab = sessions[i.session].tab
    /\ sessions[i.session].tab = 0 =>
        sessions'[i.session].tab = TabFor(i.session[1], tabs', frames')
    /\ initializing' = (initializing \ {i})
                         \cup {[i EXCEPT !.stage = "asking", !.tab = sessions'[i.session].tab]}
    /\ tracking' = tracking
FoundNoTab(i) ==
    RemoveSessions({i.session}) /\ initializing' = initializing \ {i}

(* A goroutine that waits for a tab ends in one of those three ways.       *)
LEMMA FindTabDoes ==
    ASSUME TrackedType, InitializingType, NEW i \in initializing, FindTab(i)
    PROVE  /\ i.stage = "waiting" /\ sessions' \in Sessions
           /\ FoundNothing(i) \/ FoundTab(i) \/ FoundNoTab(i)
           /\ StillBrowser
           /\ UNCHANGED <<nextTabID, tabs, windows, frames, attaching, refresh, stale>>
<1> DEFINE now == Bound(sessions, tabs, frames)
           x == i.session
<1>1. /\ i.stage = "waiting" /\ StillBrowser
      /\ UNCHANGED <<nextTabID, tabs, windows, frames, attaching, refresh, stale>>
  BY DEF FindTab, targetVars, tabVars, refreshVars, StillBrowser
<1>2. /\ x \in Session /\ sessions \in Sessions /\ tabs \in Tabs /\ frames \in [Targets -> Nat]
      /\ tabs' = tabs /\ frames' = frames
  BY <1>1 DEF TrackedType, InitializingType
<1>3. \/ now[x].stage # "new" /\ initializing' = initializing \ {i}
         /\ sessions' = now /\ tracking' = tracking
      \/ /\ now[x].stage = "new" /\ now[x].tab # 0
         /\ sessions' = [now EXCEPT ![x].stage = "initializing"]
         /\ initializing' = (initializing \ {i}) \cup {[i EXCEPT !.stage = "asking", !.tab = now[x].tab]}
         /\ tracking' = tracking
      \/ RemoveSessions({x}) /\ initializing' = initializing \ {i}
  BY DEF FindTab, Replace
<1>4. /\ now \in Sessions /\ now[x].stage = sessions[x].stage
      /\ \A s \in Session :
            /\ now[s].stage = sessions[s].stage
            /\ now[s].tab # sessions[s].tab =>
                Known(s) /\ sessions[s].tab = 0 /\ now[s].tab = TabFor(s[1], tabs', frames')
      /\ Known(x) /\ sessions[x].tab = 0 => now[x].tab = TabFor(x[1], tabs', frames')
  BY <1>2, BoundGives DEF Known
<1> HIDE DEF now, x
<1>5. CASE /\ now[x].stage # "new" /\ initializing' = initializing \ {i}
           /\ sessions' = now /\ tracking' = tracking
  BY <1>1, <1>4, <1>5 DEF FoundNothing, Binds, x
<1>6. CASE /\ now[x].stage = "new" /\ now[x].tab # 0
           /\ sessions' = [now EXCEPT ![x].stage = "initializing"]
           /\ initializing' = (initializing \ {i}) \cup {[i EXCEPT !.stage = "asking", !.tab = now[x].tab]}
           /\ tracking' = tracking
  <2>1. /\ sessions' \in Sessions
        /\ \A s \in Session : s # x => sessions'[s] = now[s]
        /\ sessions'[x].stage = "initializing" /\ sessions'[x].tab = now[x].tab
    BY <1>2, <1>4, <1>6 DEF Sessions, SessionStages
  <2>2. ASSUME NEW s \in Session, s # x
        PROVE  Binds(s)
    BY <1>4, <2>1, <2>2 DEF Binds
  <2>3. Known(x)
    BY <1>4, <1>6 DEF Known
  <2> QED
    BY <1>1, <1>2, <1>4, <1>6, <2>1, <2>2, <2>3 DEF FoundTab, x
<1>7. CASE RemoveSessions({x}) /\ initializing' = initializing \ {i}
  <2>1. sessions' \in Sessions
    BY <1>2, <1>7, RemoveSessionsDoes
  <2> QED
    BY <1>1, <1>7, <2>1 DEF FoundNoTab, x
<1> QED
  BY <1>3, <1>5, <1>6, <1>7

(* The browser answers only for a session that is attached.                *)
LEMMA AskFramesDoes ==
    ASSUME BrowserType, NEW i \in initializing, AskFrames(i)
    PROVE  /\ i.stage = "asking"
           /\ \/ ~Known(i.session) /\ initializing' = initializing \ {i} /\ UNCHANGED enabled
              \/ /\ i.session \in attached /\ Known(i.session)
                 /\ initializing' = (initializing \ {i}) \cup {[i EXCEPT !.stage = "told"]}
                 /\ enabled' \subseteq attached
           /\ UNCHANGED <<alive, issued, attached, queue, attaching, refresh, stale>>
           /\ StillTracked
BY DEF AskFrames, Replace, BrowserType, trackedVars, tabVars, refreshVars, StillTracked

(* A session that could not be initialized is forgotten and detached.      *)
LEMMA AskFailsDoes ==
    ASSUME BrowserType, NEW i \in initializing, i.session \in Session, AskFails(i)
    PROVE  /\ i.stage = "asking" /\ RemoveSessions({i.session})
           /\ attached' = attached \ {i.session} /\ enabled' = enabled \ {i.session}
           /\ initializing' = initializing \ {i}
           /\ \/ i.session \notin attached /\ queue' = queue
              \/ /\ i.session \in attached
                 /\ \E new \in Seq(Events) :
                      /\ queue' = queue \o new /\ Len(new) = 1
                      /\ new[1].kind = "detached" /\ new[1].of = i.session
           /\ UNCHANGED <<alive, issued, nextTabID, tabs, windows, frames, attaching, refresh, stale>>
<1>1. /\ i.stage = "asking" /\ RemoveSessions({i.session})
      /\ attached' = attached \ {i.session} /\ enabled' = enabled \ {i.session}
      /\ initializing' = initializing \ {i}
      /\ UNCHANGED <<alive, issued, nextTabID, tabs, windows, frames, attaching, refresh, stale>>
      /\ queue' = queue \o (IF i.session \in attached THEN <<Event("detached", i.session)>> ELSE <<>>)
  BY DEF AskFails, Replace, Sends, tabVars, refreshVars
<1>2. CASE i.session \notin attached
  <2>1. queue' = queue
    BY <1>1, <1>2 DEF BrowserType
  <2> QED
    BY <1>1, <1>2, <2>1
<1>3. CASE i.session \in attached
  <2> DEFINE new == <<Event("detached", i.session)>>
  <2>1. new \in Seq(Events) /\ Len(new) = 1 /\ new[1].kind = "detached" /\ new[1].of = i.session
    BY EventType DEF Kinds
  <2>2. queue' = queue \o new
    BY <1>1, <1>3
  <2> HIDE DEF new
  <2> QED
    BY <1>1, <1>3, <2>1, <2>2
<1> QED
  BY <1>2, <1>3

(* The frames of a session that is still known, in the tab it had.         *)
Framed(i) ==
    /\ frames' = [frames EXCEPT ![i.session[1]] = i.tab]
    /\ \A s \in Session : s # i.session => Binds(s)
    /\ sessions'[i.session].stage = "ready" /\ sessions'[i.session].tab # 0
    /\ sessions[i.session].tab # 0 => sessions'[i.session].tab = sessions[i.session].tab
    /\ sessions[i.session].tab = 0 =>
        sessions'[i.session].tab = TabFor(i.session[1], tabs', frames')

(* The frames are added, unless the session has been forgotten.            *)
LEMMA AddFramesDoes ==
    ASSUME TrackedType, InitializingType, NEW i \in initializing, AddFrames(i)
    PROVE  /\ i.stage = "told" /\ i.tab # 0 /\ initializing' = initializing \ {i}
           /\ \/ ~Known(i.session) /\ UNCHANGED <<sessions, frames>>
              \/ Known(i.session) /\ Framed(i)
           /\ sessions' \in Sessions /\ frames' \in [Targets -> Nat]
           /\ StillBrowser
           /\ UNCHANGED <<nextTabID, tabs, windows, tracking, attaching, refresh, stale>>
<1> DEFINE x == i.session
           some == [sessions EXCEPT ![x].stage = "ready"]
<1>1. /\ i.stage = "told" /\ initializing' = initializing \ {i} /\ StillBrowser
      /\ UNCHANGED <<nextTabID, tabs, windows, tracking, attaching, refresh, stale>>
  BY DEF AddFrames, Replace, targetVars, tabVars, refreshVars, StillBrowser
<1>2. /\ x \in Session /\ x[1] \in Targets /\ i.tab \in Nat /\ i.tab # 0
      /\ sessions \in Sessions /\ tabs' = tabs /\ tabs \in Tabs /\ frames \in [Targets -> Nat]
  BY <1>1, SessionParts DEF TrackedType, InitializingType
<1>3. CASE ~Known(x)
  BY <1>1, <1>2, <1>3 DEF AddFrames
<1>4. CASE Known(x)
  <2>1. /\ frames' = [frames EXCEPT ![x[1]] = i.tab]
        /\ sessions' = Bound(some, tabs, frames')
    BY <1>4 DEF AddFrames
  <2>2. /\ some \in Sessions /\ some[x].stage = "ready" /\ some[x].tab = sessions[x].tab
        /\ \A s \in Session : s # x => some[s] = sessions[s]
    BY <1>2 DEF Sessions, SessionStages
  <2>3. frames' \in [Targets -> Nat] /\ frames'[x[1]] # 0
    BY <1>2, <2>1
  <2> HIDE DEF some, x
  <2>4. /\ sessions' \in Sessions
        /\ \A s \in Session :
            /\ sessions'[s].stage = some[s].stage
            /\ some[s].stage # "none" /\ some[s].tab = 0 =>
                 sessions'[s].tab = TabFor(s[1], tabs', frames')
            /\ some[s].stage = "none" \/ some[s].tab # 0 => sessions'[s].tab = some[s].tab
    <3>1. tabs' \in Tabs /\ some \in Sessions /\ frames' \in [Targets -> Nat]
      BY <1>2, <2>2, <2>3
    <3>2. sessions' = Bound(some, tabs', frames')
      BY <1>2, <2>1
    <3> QED
      BY <3>1, <3>2, BoundGives
  <2>5. ASSUME NEW s \in Session, s # x
        PROVE  Binds(s)
    BY <2>2, <2>4, <2>5 DEF Binds, Known
  <2>6. /\ sessions'[x].stage = "ready"
        /\ sessions[x].tab # 0 => sessions'[x].tab = sessions[x].tab
        /\ sessions[x].tab = 0 => sessions'[x].tab = TabFor(x[1], tabs', frames')
    BY <1>2, <2>2, <2>4
  <2>7. TabFor(x[1], tabs', frames') # 0
    BY <1>2, <2>3, TabForType
  <2>8. sessions'[x].tab # 0
    BY <2>6, <2>7
  <2>9. Framed(i)
    BY <2>1, <2>5, <2>6, <2>8 DEF Framed, x
  <2> QED
    BY <1>1, <1>2, <1>4, <2>3, <2>4, <2>9 DEF x
<1> QED
  BY <1>3, <1>4

(* To ask for the list and to be given it changes nothing that is          *)
(* tracked.                                                                *)
LEMMA RefreshDoes ==
    ASSUME RefreshTargets \/ ListTargets
    PROVE  /\ StillBrowser /\ StillTracked /\ UNCHANGED <<enabled, attaching, initializing, stale>>
BY DEF RefreshTargets, ListTargets, targetVars, trackedVars, tabVars, StillBrowser, StillTracked

(* RefreshTargets goes through the list and through those it has missed.   *)
LEMMA TrackListedDoes ==
    ASSUME TrackListed
    PROVE  /\ refresh.stage = "tracking" /\ StillBrowser /\ UNCHANGED <<initializing>>
           /\ \/ \E t \in refresh.left :
                    /\ Track(t)
                    /\ refresh' = [refresh EXCEPT !.left = @ \ {t}]
                    /\ stale' = IF alive[t] = "gone" THEN stale \cup {t} ELSE stale
              \/ /\ refresh' = [refresh EXCEPT !.stage = "removing",
                                               !.left = refresh.known \ refresh.listed]
                 /\ StillTracked /\ UNCHANGED <<attaching, stale>>
BY DEF TrackListed, targetVars, trackedVars, tabVars, StillBrowser, StillTracked

(* RefreshTargets removes one target after the other.                      *)
LEMMA RemoveUnlistedDoes ==
    ASSUME RemoveUnlisted
    PROVE  /\ refresh.stage = "removing" /\ StillBrowser /\ UNCHANGED <<attaching, initializing, stale>>
           /\ \/ \E t \in refresh.left :
                    /\ RemoveTarget(t)
                    /\ refresh' = [refresh EXCEPT !.left = @ \ {t}]
              \/ refresh' = Idle /\ StillTracked
BY DEF RemoveUnlisted, targetVars, trackedVars, tabVars, StillBrowser, StillTracked

-----------------------------------------------------------------------------
(* Types. *)

(* What does not change keeps its type.                                    *)
LEMMA SameTypes ==
    /\ BrowserType /\ StillBrowser /\ stale' = stale => BrowserType'
    /\ TrackedType /\ StillTracked => TrackedType'
    /\ AttachingType /\ attaching' = attaching => AttachingType'
    /\ InitializingType /\ initializing' = initializing => InitializingType'
    /\ RefreshType /\ refresh' = refresh => RefreshType'
BY DEF BrowserType, StillBrowser, TrackedType, StillTracked, AttachingType, InitializingType,
       RefreshType

(* A goroutine goes on.                                                    *)
LEMMA AttachingGoesOn ==
    ASSUME AttachingType, NEW g \in attaching, NEW to, NEW s,
           \/ to \in {"attach", "failed"} /\ s = g.session
           \/ to = "answered" /\ s \in Session /\ s[1] = g.target
           \/ to = "check" /\ g.stage = "answered" /\ s = g.session,
           \/ attaching' \subseteq attaching
           \/ attaching' \subseteq attaching \cup {[g EXCEPT !.stage = to, !.session = s]}
    PROVE  AttachingType'
<1> DEFINE h == [g EXCEPT !.stage = to, !.session = s]
<1>1. /\ g \in [target : Targets, tab : Nat, session : {<<t, 0>> : t \in Targets} \cup Session,
                stage : {"window", "look", "attach", "answered", "check", "failed"}]
      /\ g.session[1] = g.target
      /\ g.stage \in {"answered", "check"} => g.session \in Session
  BY DEF AttachingType
<1>2. /\ h.target = g.target /\ h.tab = g.tab /\ h.session = s /\ h.stage = to
      /\ h \in [target : Targets, tab : Nat, session : {<<t, 0>> : t \in Targets} \cup Session,
                stage : {"window", "look", "attach", "answered", "check", "failed"}]
  BY <1>1
<1>3. h.session[1] = h.target /\ (h.stage \in {"answered", "check"} => h.session \in Session)
      /\ h.stage \notin {"window", "look"}
  BY <1>1, <1>2
<1> HIDE DEF h
<1>4. \A k \in attaching' : k \in attaching \/ k = h
  BY DEF h
<1> QED
  BY <1>2, <1>3, <1>4 DEF AttachingType

(* So does one of the other kind.                                          *)
LEMMA InitializingGoesOn ==
    ASSUME InitializingType, NEW i \in initializing, NEW to \in {"asking", "told"}, NEW tab \in Nat \ {0},
           \/ initializing' \subseteq initializing
           \/ initializing' \subseteq initializing \cup {[i EXCEPT !.stage = to, !.tab = tab]}
    PROVE  InitializingType'
<1> DEFINE j == [i EXCEPT !.stage = to, !.tab = tab]
<1>1. /\ j \in [session : Session, stage : {"waiting", "asking", "told"}, tab : Nat]
      /\ j.stage # "waiting" /\ j.tab # 0
  BY DEF InitializingType
<1> HIDE DEF j
<1>2. \A k \in initializing' : k \in initializing \/ k = j
  BY DEF j
<1> QED
  BY <1>1, <1>2 DEF InitializingType

(* A target opens once and closes once; numbers are not issued again.      *)
Ages ==
    \A t \in Targets :
        /\ alive[t] = "gone" => alive'[t] = "gone"
        /\ alive[t] # "none" => alive'[t] # "none"
        /\ issued'[t] \in Nat /\ issued[t] <= issued'[t]

(* What was true of an event stays true.                                   *)
LEMMA SoundStays ==
    ASSUME BrowserType, Ages, NEW e, EventIsSound(e)
    PROVE  EventIsSound(e)'
<1>1. CASE e.kind \in {"attached", "detached"}
  BY <1>1, SessionParts DEF EventIsSound, Ages, BrowserType
<1>2. CASE e.kind \notin {"attached", "detached"}
  BY <1>2, SessionParts DEF EventIsSound, Ages
<1> QED
  BY <1>1, <1>2

(* The browser's part of the invariant, if it does nothing.                *)
LEMMA BrowserRests ==
    ASSUME BrowserType, BrowserIsSound, StillBrowser, stale' = stale
    PROVE  BrowserType' /\ BrowserIsSound' /\ Ages
<1>1. BrowserType'
  BY SameTypes
<1>2. Ages
  BY DEF Ages, StillBrowser, BrowserType
<1>3. \A e : EventIsSound(e)' <=> EventIsSound(e)
  BY DEF EventIsSound, StillBrowser
<1>4. BrowserIsSound'
  BY <1>3 DEF BrowserIsSound, StillBrowser
<1> QED
  BY <1>1, <1>2, <1>4

(* One event less.                                                         *)
LEMMA BrowserIsHandled ==
    ASSUME BrowserType, BrowserIsSound, NEW e, Handled(e)
    PROVE  BrowserType' /\ BrowserIsSound' /\ Ages
<1>1. UNCHANGED <<alive, issued, attached, enabled, stale>> /\ queue # <<>> /\ queue' = Tail(queue)
  BY DEF Handled
<1>2. BrowserType'
  BY <1>1, QueueShrinks DEF BrowserType
<1>3. Ages
  BY <1>1 DEF Ages, BrowserType
<1>4. ASSUME NEW k \in 1..Len(queue')
      PROVE  EventIsSound(queue[k])'
  <2>1. k + 1 \in 1..Len(queue) /\ queue'[k] = queue[k + 1]
    BY <1>1, QueueShrinks
  <2>2. PICK x : x = queue'[k]
    OBVIOUS
  <2>3. EventIsSound(x)
    BY <2>1, <2>2 DEF BrowserIsSound
  <2>4. EventIsSound(x)'
    BY <1>3, <2>3, SoundStays
  <2> QED
    BY <2>2, <2>4 DEF EventIsSound
<1>5. BrowserIsSound'
  BY <1>1, <1>4 DEF BrowserIsSound
<1> QED
  BY <1>2, <1>3, <1>5

(* More events.                                                            *)
LEMMA SoundGrows ==
    ASSUME BrowserType, BrowserIsSound, Ages, NEW new \in Seq(Events), queue' = queue \o new,
           \A k \in 1..Len(new) : EventIsSound(new[k])'
    PROVE  queue' \in Seq(Events) /\ \A k \in 1..Len(queue') : EventIsSound(queue[k])'
<1>1. ASSUME NEW k \in 1..Len(queue')
      PROVE  EventIsSound(queue[k])'
  <2>1. CASE k \in 1..Len(queue) /\ queue'[k] = queue[k]
    <3>1. PICK x : x = queue'[k]
      OBVIOUS
    <3>2. EventIsSound(x)
      BY <2>1, <3>1 DEF BrowserIsSound
    <3>3. EventIsSound(x)'
      BY <3>2, SoundStays
    <3> QED
      BY <3>1, <3>3 DEF EventIsSound
  <2>2. CASE k - Len(queue) \in 1..Len(new) /\ queue'[k] = new[k - Len(queue)]
    BY <2>2 DEF EventIsSound
  <2> QED
    BY <2>1, <2>2, QueueGrows
<1> QED
  BY <1>1, QueueGrows

(* A goroutine that attaches.                                              *)
LEMMA GrantedIsSound ==
    ASSUME BrowserType, BrowserIsSound, NEW g \in attaching, NEW s, NEW new, Granted(g, s, new),
           AttachingType, UNCHANGED <<alive, enabled, stale>>
    PROVE  BrowserType' /\ BrowserIsSound' /\ Ages
<1>1. /\ g.target \in Targets /\ alive[g.target] = "open" /\ s \in Session
      /\ s[1] = g.target /\ s[2] = issued[g.target] + 1
      /\ issued' = [issued EXCEPT ![g.target] = @ + 1] /\ attached' = attached \cup {s}
      /\ new \in Seq(Events) /\ queue' = queue \o new
      /\ Len(new) = 1 /\ new[1].kind = "attached" /\ new[1].of = s
  BY DEF Granted, AttachingType
<1>2. issued' \in [Targets -> Nat] /\ Ages
  BY <1>1 DEF BrowserType, Ages
<1>3. issued'[s[1]] = s[2]
  BY <1>1 DEF BrowserType
<1>4. \A k \in 1..Len(new) : EventIsSound(new[k])'
  <2>1. s[2] <= issued'[s[1]]
    BY <1>1, <1>3, SessionParts
  <2> QED
    BY <1>1, <2>1 DEF EventIsSound
<1>5. queue' \in Seq(Events) /\ \A k \in 1..Len(queue') : EventIsSound(queue[k])'
  BY <1>1, <1>2, <1>4, SoundGrows
<1>6. BrowserType'
  BY <1>1, <1>2, <1>5 DEF BrowserType
<1>7. /\ alive'[Iframe] = "open" => alive'[Home] = "open"
      /\ \A r \in attached' : alive'[r[1]] = "open"
      /\ \A t \in stale' : alive'[t] = "gone"
  BY <1>1 DEF BrowserIsSound
<1>8. \A t \in Targets : alive'[t] = "none" => issued'[t] = 0
  BY <1>1 DEF BrowserIsSound, BrowserType
<1> QED
  BY <1>2, <1>5, <1>6, <1>7, <1>8 DEF BrowserIsSound

(* Targets that close.                                                     *)
LEMMA ClosedIsSound ==
    ASSUME BrowserType, BrowserIsSound, \A s \in attached : Issued(s), NEW t \in Targets,
           NEW gone \in SUBSET Targets, NEW new \in Seq(Events), Closed(t, gone, new),
           UNCHANGED <<issued, stale>>
    PROVE  BrowserType' /\ BrowserIsSound' /\ Ages
<1>1. /\ \A u \in gone : alive[u] = "open"
      /\ t = Home /\ alive[Iframe] = "open" => Iframe \in gone
      /\ t \in gone /\ \A u \in gone : u = t \/ u = Iframe
      /\ alive' = [u \in Targets |-> IF u \in gone THEN "gone" ELSE alive[u]]
      /\ attached' = {s \in attached : s[1] \notin gone}
      /\ enabled' = enabled \cap attached'
      /\ queue' = queue \o new
      /\ \A k \in 1..Len(new) : Closing(new[k], gone)
  BY DEF Closed, Closes
<1>2. alive' \in [Targets -> {"none", "open", "gone"}] /\ Ages
  BY <1>1 DEF BrowserType, Ages
<1>3. ASSUME NEW k \in 1..Len(new)
      PROVE  EventIsSound(new[k])'
  <2>1. Closing(new[k], gone)
    BY <1>1
  <2>2. new[k].kind = "detached" =>
            new[k].of \in Session /\ new[k].of[2] <= issued'[new[k].of[1]]
    BY <2>1 DEF Closing, BrowserType, Issued
  <2>3. new[k].kind = "destroyed" => new[k].of \in Targets /\ alive'[new[k].of] = "gone"
    BY <1>1, <2>1 DEF Closing
  <2> QED
    BY <2>1, <2>2, <2>3 DEF EventIsSound, Closing
<1>4. queue' \in Seq(Events) /\ \A k \in 1..Len(queue') : EventIsSound(queue[k])'
  BY <1>1, <1>2, <1>3, SoundGrows
<1>5. BrowserType'
  BY <1>1, <1>2, <1>4 DEF BrowserType
<1>6. alive'[Iframe] = "open" => alive'[Home] = "open"
  BY <1>1, SessionParts DEF BrowserIsSound
<1>7. \A s \in attached' : alive'[s[1]] = "open"
  BY <1>1, SessionParts DEF BrowserIsSound, BrowserType
<1>8. /\ \A u \in Targets : alive'[u] = "none" => issued'[u] = 0
      /\ \A u \in stale' : alive'[u] = "gone"
  BY <1>1 DEF BrowserIsSound, BrowserType
<1> QED
  BY <1>2, <1>4, <1>5, <1>6, <1>7, <1>8 DEF BrowserIsSound

(* What the browser and its events say stays sound, whatever happens.      *)
LEMMA SoundStep ==
    ASSUME SurfaceType, BrowserIsSound, NumbersAreIssued, SurfaceNext
    PROVE  BrowserType' /\ BrowserIsSound' /\ Ages
<1> USE DEF SurfaceType
<1>1. ASSUME NEW t \in Targets, OpenTarget(t)
      PROVE  BrowserType' /\ BrowserIsSound' /\ Ages
  <2>1. UNCHANGED <<issued, attached, enabled, stale>>
    BY <1>1, OpenDoes DEF StillGoing
  <2>2. PICK new \in Seq(Events) : Opened(t, new)
    BY <1>1, OpenDoes
  <2>3. /\ alive[t] = "none" /\ alive' = [alive EXCEPT ![t] = "open"] /\ queue' = queue \o new
        /\ t = Iframe => alive[Home] = "open"
    BY <2>2 DEF Opened
  <2>4. alive' \in [Targets -> {"none", "open", "gone"}] /\ Ages
    BY <2>1, <2>3 DEF BrowserType, Ages
  <2>5. \A k \in 1..Len(new) : EventIsSound(new[k])'
    BY <1>1, <2>2, <2>3, SessionParts DEF Opened, EventIsSound, BrowserType
  <2>6. queue' \in Seq(Events) /\ \A k \in 1..Len(queue') : EventIsSound(queue[k])'
    BY <2>3, <2>4, <2>5, SoundGrows
  <2>7. BrowserType'
    BY <2>1, <2>4, <2>6 DEF BrowserType
  <2>8. alive'[Iframe] = "open" => alive'[Home] = "open"
    BY <2>3, SessionParts DEF BrowserIsSound, BrowserType
  <2>9. /\ \A s \in attached' : alive'[s[1]] = "open"
        /\ \A u \in Targets : alive'[u] = "none" => issued'[u] = 0
        /\ \A u \in stale' : alive'[u] = "gone"
    BY <2>1, <2>3, SessionParts DEF BrowserIsSound, BrowserType
  <2> QED
    BY <2>4, <2>6, <2>7, <2>8, <2>9 DEF BrowserIsSound
<1>2. ASSUME NEW t \in Targets, CloseTarget(t)
      PROVE  BrowserType' /\ BrowserIsSound' /\ Ages
  <2>1. UNCHANGED <<issued, stale>>
    BY <1>2 DEF CloseTarget, goVars, refreshVars
  <2>2. PICK gone \in SUBSET Targets, new \in Seq(Events) : Closed(t, gone, new)
    BY <1>2, CloseDoes
  <2> QED
    BY <2>1, <2>2, ClosedIsSound DEF NumbersAreIssued
<1>3. ASSUME NEW t \in Targets, ChangePage(t)
      PROVE  BrowserType' /\ BrowserIsSound' /\ Ages
  <2>1. t \in Pages /\ alive[t] = "open" /\ UNCHANGED <<alive, issued, attached, enabled, stale>>
    BY <1>3, ChangeDoes DEF StillGoing
  <2>2. PICK new \in Seq(Events) : /\ queue' = queue \o new /\ Len(new) = 1
                                   /\ new[1].kind = "changed" /\ new[1].of = t
    BY <1>3, ChangeDoes
  <2>3. Ages
    BY <2>1 DEF Ages, BrowserType
  <2>4. \A k \in 1..Len(new) : EventIsSound(new[k])'
    BY <1>3, <2>1, <2>2 DEF EventIsSound
  <2>5. queue' \in Seq(Events) /\ \A k \in 1..Len(queue') : EventIsSound(queue[k])'
    BY <2>2, <2>3, <2>4, SoundGrows
  <2> QED
    BY <2>1, <2>3, <2>5 DEF BrowserType, BrowserIsSound
<1>4. CASE Handle
  <2>1. PICK e : \/ TrackEvent(e) \/ LookEvent(e) \/ DestroyedEvent(e)
                 \/ AttachedEvent(e) \/ DetachedEvent(e) \/ FrameEvent(e)
    BY <1>4, HandleDoes
  <2>2. Handled(e)
    BY <2>1 DEF TrackEvent, LookEvent, DestroyedEvent, AttachedEvent, DetachedEvent, FrameEvent
  <2> QED
    BY <2>2, BrowserIsHandled
<1>5. ASSUME NEW g \in attaching, FindWindow(g) \/ LookAgain(g)
      PROVE  StillBrowser /\ stale' = stale
  BY <1>5, LocateDoes DEF Located
<1>6. ASSUME NEW g \in attaching, Attach(g)
      PROVE  BrowserType' /\ BrowserIsSound' /\ Ages
  <2>1. /\ Refused(g) \/ \E s, new : Granted(g, s, new)
        /\ UNCHANGED <<alive, enabled, stale>>
    BY <1>6, AttachDoes
  <2>2. CASE Refused(g)
    <3>1. StillBrowser /\ stale' = stale
      BY <2>1, <2>2 DEF Refused, StillBrowser
    <3> QED
      BY <3>1, BrowserRests
  <2>3. CASE \E s, new : Granted(g, s, new)
    BY <2>1, <2>3, GrantedIsSound
  <2> QED
    BY <2>1, <2>2, <2>3
<1>7. ASSUME NEW g \in attaching, Answered(g) \/ CheckTracked(g) \/ AttachFails(g)
      PROVE  StillBrowser /\ stale' = stale
  BY <1>7, AnsweredDoes, CheckDoes, AttachFailsDoes
<1>8. ASSUME NEW i \in initializing, FindTab(i) \/ AddFrames(i)
      PROVE  StillBrowser /\ stale' = stale
  BY <1>8, FindTabDoes, AddFramesDoes
<1>9. ASSUME NEW i \in initializing, AskFrames(i)
      PROVE  BrowserType' /\ BrowserIsSound' /\ Ages
  <2>1. UNCHANGED <<alive, issued, attached, queue, stale>> /\ enabled' \subseteq attached
    BY <1>9, AskFramesDoes DEF BrowserType
  <2>2. Ages
    BY <2>1 DEF Ages, BrowserType
  <2>3. \A e : EventIsSound(e)' <=> EventIsSound(e)
    BY <2>1 DEF EventIsSound
  <2> QED
    BY <2>1, <2>2, <2>3 DEF BrowserType, BrowserIsSound
<1>10. ASSUME NEW i \in initializing, AskFails(i)
       PROVE  BrowserType' /\ BrowserIsSound' /\ Ages
  <2>1. i.session \in Session /\ Issued(i.session)
    BY DEF InitializingType, NumbersAreIssued
  <2>2. /\ attached' = attached \ {i.session} /\ enabled' = enabled \ {i.session}
        /\ UNCHANGED <<alive, issued, stale>>
        /\ \/ queue' = queue
           \/ \E new \in Seq(Events) :
                /\ queue' = queue \o new /\ Len(new) = 1
                /\ new[1].kind = "detached" /\ new[1].of = i.session
    BY <1>10, <2>1, AskFailsDoes
  <2>3. Ages
    BY <2>2 DEF Ages, BrowserType
  <2>4. queue' \in Seq(Events) /\ \A k \in 1..Len(queue') : EventIsSound(queue[k])'
    <3>1. CASE queue' = queue
      <4>1. \A e : EventIsSound(e)' <=> EventIsSound(e)
        BY <2>2 DEF EventIsSound
      <4> QED
        BY <3>1, <4>1 DEF BrowserType, BrowserIsSound
    <3>2. ASSUME NEW new \in Seq(Events), queue' = queue \o new, Len(new) = 1,
                 new[1].kind = "detached", new[1].of = i.session
          PROVE  queue' \in Seq(Events) /\ \A k \in 1..Len(queue') : EventIsSound(queue[k])'
      <4>1. \A k \in 1..Len(new) : EventIsSound(new[k])'
        BY <2>1, <2>2, <3>2 DEF EventIsSound, Issued
      <4> QED
        BY <2>3, <3>2, <4>1, SoundGrows
    <3> QED
      BY <2>2, <3>1, <3>2
  <2> QED
    BY <2>2, <2>3, <2>4 DEF BrowserType, BrowserIsSound
<1>11. CASE RefreshTargets \/ ListTargets
  BY <1>11, RefreshDoes, BrowserRests
<1>12. CASE TrackListed
  <2>1. /\ StillBrowser
        /\ \/ \E t \in refresh.left : stale' = IF alive[t] = "gone" THEN stale \cup {t} ELSE stale
           \/ stale' = stale
    BY <1>12, TrackListedDoes
  <2>2. CASE stale' = stale
    BY <2>1, <2>2, BrowserRests
  <2>3. ASSUME NEW t \in refresh.left, stale' = stale \cup {t}, alive[t] = "gone"
        PROVE  BrowserType' /\ BrowserIsSound' /\ Ages
    <3>1. t \in Targets /\ UNCHANGED <<alive, issued, attached, enabled, queue>>
      BY <2>1, <2>3 DEF RefreshType, StillBrowser
    <3>2. Ages
      BY <3>1 DEF Ages, BrowserType
    <3>3. \A e : EventIsSound(e)' <=> EventIsSound(e)
      BY <3>1 DEF EventIsSound
    <3> QED
      BY <2>3, <3>1, <3>2, <3>3 DEF BrowserType, BrowserIsSound
  <2> QED
    BY <2>1, <2>2, <2>3
<1>13. CASE RemoveUnlisted
  BY <1>13, RemoveUnlistedDoes, BrowserRests
<1> QED
  BY <1>1, <1>2, <1>3, <1>4, <1>5, <1>6, <1>7, <1>8, <1>9, <1>10, <1>11, <1>12, <1>13,
     BrowserRests DEF SurfaceNext, BrowserStep

(* Sessions that are bound, and nothing else, keep the type of a tracker.  *)
LEMMA TrackedStays ==
    ASSUME TrackedType, sessions' \in Sessions, frames' \in [Targets -> Nat],
           tracking' \subseteq tracking, UNCHANGED <<nextTabID, tabs, windows>>
    PROVE  TrackedType'
BY DEF TrackedType

(* A tab that goes, and perhaps its window.                                *)
LEMMA RemoveTargetType ==
    ASSUME TrackedType, NEW t \in Targets, RemoveTarget(t)
    PROVE  TrackedType'
<1>1. windows' \subseteq windows
  BY DEF RemoveTarget, Kept, tabVars
<1> QED
  BY <1>1, RemoveTargetDoes DEF TrackedType

(* A window that is found changes no tab of a page.                        *)
LEMMA LocateType ==
    ASSUME TrackedType, NEW g, Located(g)
    PROVE  TrackedType' /\ \A q \in Pages : tabs'[q].id = tabs[q].id
<1>1. CASE UNCHANGED tabVars
  BY <1>1 DEF Located, TrackedType, tabVars
<1>2. ASSUME NEW raw \in Int \ {0}, AssignWindow(g.target, raw)
      PROVE  TrackedType' /\ \A q \in Pages : tabs'[q].id = tabs[q].id
  <2>1. /\ nextTabID' = nextTabID /\ tabs' \in Tabs
        /\ \A q \in Pages : tabs'[q].id = tabs[q].id
        /\ windows' \subseteq windows \cup {raw}
    BY <1>2, AssignWindowDoes DEF Located
  <2> QED
    BY <2>1 DEF Located, TrackedType
<1> QED
  BY <1>1, <1>2 DEF Located

(* Every step keeps the types.                                             *)
LEMMA TypeStep ==
    ASSUME SurfaceType, BrowserIsSound, NumbersAreIssued, SurfaceNext
    PROVE  SurfaceType'
<1> USE DEF SurfaceType
<1> DEFINE Rest == TrackedType' /\ AttachingType' /\ InitializingType' /\ RefreshType'
<1>0. BrowserType'
  BY SoundStep
<1>1. ASSUME NEW t \in Targets, OpenTarget(t) \/ CloseTarget(t) \/ ChangePage(t)
      PROVE  Rest
  <2>1. StillTracked /\ StillGoing
    BY <1>1, OpenDoes, ChangeDoes
       DEF CloseTarget, trackedVars, tabVars, goVars, refreshVars, StillTracked, StillGoing
  <2> QED
    BY <2>1, SameTypes DEF StillGoing
<1>2. ASSUME Handle
     PROVE  Rest
  <2>1. PICK e : \/ TrackEvent(e) \/ LookEvent(e) \/ DestroyedEvent(e)
                 \/ AttachedEvent(e) \/ DetachedEvent(e) \/ FrameEvent(e)
    BY <1>2, HandleDoes
  <2>2. Handled(e) /\ RefreshType'
    BY <2>1, SameTypes
       DEF TrackEvent, LookEvent, DestroyedEvent, AttachedEvent, DetachedEvent, FrameEvent, Handled
  <2>3. CASE TrackEvent(e)
    BY <2>2, <2>3, TrackDoes, SameTypes DEF TrackEvent
  <2>4. CASE LookEvent(e)
    <3> DEFINE g == [Attaching(e.of, tabs[e.of].id) EXCEPT !.stage = "look"]
    <3>1. e.of \in Pages /\ e.of \in Targets /\ tabs[e.of].id \in Nat \ {0}
      BY <2>4, SessionParts DEF LookEvent, TrackedType, Tabs
    <3>2. /\ g \in [target : Targets, tab : Nat, session : {<<t, 0>> : t \in Targets} \cup Session,
                    stage : {"window", "look", "attach", "answered", "check", "failed"}]
          /\ g.session[1] = g.target /\ g.stage = "look" /\ g.target \in Pages /\ g.tab # 0
      BY <3>1 DEF Attaching
    <3> HIDE DEF g
    <3>3. \A h \in attaching' : h \in attaching \/ h = g
      BY <2>4 DEF LookEvent, g
    <3>4. AttachingType'
      BY <3>2, <3>3 DEF AttachingType
    <3> QED
      BY <2>2, <2>4, <3>4, SameTypes DEF LookEvent
  <2>5. CASE DestroyedEvent(e)
    BY <2>2, <2>5, RemoveTargetType, SameTypes DEF DestroyedEvent
  <2>6. CASE AttachedEvent(e)
    <3>1. sessions' \in Sessions /\ InitializingType'
      BY <2>6, AddSessionDoes DEF AttachedEvent, tabVars
    <3>2. TrackedType'
      BY <2>6, <3>1, TrackedStays DEF AttachedEvent, TrackedType
    <3> QED
      BY <2>2, <2>6, <3>1, <3>2, SameTypes DEF AttachedEvent
  <2>7. CASE DetachedEvent(e)
    <3>1. sessions' \in Sessions /\ tracking' \subseteq tracking
      BY <2>7, RemoveSessionsDoes DEF DetachedEvent, TrackedType
    <3>2. TrackedType'
      BY <2>7, <3>1, TrackedStays DEF DetachedEvent, TrackedType
    <3> QED
      BY <2>2, <2>7, <3>2, SameTypes DEF DetachedEvent
  <2>8. CASE FrameEvent(e)
    <3>1. sessions' \in Sessions /\ frames' \in [Targets -> Nat]
      <4>1. CASE e.kind = "removed"
        BY <2>8, <4>1, SessionParts DEF FrameEvent, TrackedType
      <4>2. CASE e.kind # "removed"
        <5>1. EventIsSound(e) /\ e.kind \in {"added", "navigated"} /\ FrameMoves(e) /\ UNCHANGED tabVars
          BY <2>2, <2>8, <4>2 DEF FrameEvent, Handled, tabVars
        <5> QED
          BY <5>1, FrameMovesDoes
      <4> QED
        BY <4>1, <4>2
    <3>2. TrackedType'
      BY <2>8, <3>1, TrackedStays DEF FrameEvent
    <3> QED
      BY <2>2, <2>8, <3>2, SameTypes DEF FrameEvent
  <2> QED
    BY <2>1, <2>3, <2>4, <2>5, <2>6, <2>7, <2>8
<1>3. ASSUME NEW g \in attaching, FindWindow(g) \/ LookAgain(g)
      PROVE  Rest
  <2>1. Located(g)
    BY <1>3, LocateDoes
  <2>2. /\ initializing' = initializing /\ refresh' = refresh
        /\ \/ attaching' = attaching \ {g}
           \/ attaching' = (attaching \ {g}) \cup {[g EXCEPT !.stage = "attach"]}
    BY <2>1 DEF Located
  <2>3. /\ g.session \in Session \cup {<<t, 0>> : t \in Targets} /\ g.session[1] = g.target
        /\ [g EXCEPT !.stage = "attach"] = [g EXCEPT !.stage = "attach", !.session = g.session]
    BY DEF AttachingType
  <2>4. \/ attaching' \subseteq attaching
        \/ attaching' \subseteq attaching \cup {[g EXCEPT !.stage = "attach", !.session = g.session]}
    BY <2>2, <2>3
  <2>5. AttachingType'
    BY <2>3, <2>4, AttachingGoesOn
  <2> QED
    BY <2>1, <2>2, <2>5, LocateType, SameTypes
<1>4. ASSUME NEW g \in attaching, Attach(g)
      PROVE  Rest
  <2>1. /\ Refused(g) \/ \E s, new : Granted(g, s, new)
        /\ UNCHANGED <<initializing, refresh>> /\ StillTracked
    BY <1>4, AttachDoes
  <2>2. [g EXCEPT !.stage = "failed"] = [g EXCEPT !.stage = "failed", !.session = g.session]
    BY DEF AttachingType
  <2>3. CASE attaching' = (attaching \ {g}) \cup {[g EXCEPT !.stage = "failed"]}
    <3>1. attaching' \subseteq attaching \cup {[g EXCEPT !.stage = "failed", !.session = g.session]}
      BY <2>2, <2>3
    <3>2. AttachingType'
      BY <3>1, AttachingGoesOn
    <3> QED
      BY <2>1, <3>2, SameTypes
  <2>4. ASSUME NEW s, s \in Session, s[1] = g.target,
               attaching' = (attaching \ {g}) \cup {[g EXCEPT !.stage = "answered", !.session = s]}
        PROVE  Rest
    <3>1. attaching' \subseteq attaching \cup {[g EXCEPT !.stage = "answered", !.session = s]}
      BY <2>4
    <3>2. AttachingType'
      BY <2>4, <3>1, AttachingGoesOn
    <3> QED
      BY <2>1, <3>2, SameTypes
  <2> QED
    BY <2>1, <2>3, <2>4 DEF Refused, Granted
<1>5. ASSUME NEW g \in attaching, Answered(g)
      PROVE  Rest
  <2>1. /\ g.stage = "answered" /\ g.session \in Session /\ AddSession(g.session)
        /\ attaching' = (attaching \ {g}) \cup {[g EXCEPT !.stage = "check"]}
        /\ UNCHANGED <<nextTabID, tabs, windows, tracking, frames, refresh>>
    BY <1>5, AnsweredDoes DEF AttachingType
  <2>2. sessions' \in Sessions /\ InitializingType'
    BY <2>1, AddSessionDoes DEF tabVars
  <2>3. TrackedType'
    BY <2>1, <2>2, TrackedStays DEF TrackedType
  <2>4. [g EXCEPT !.stage = "check"] = [g EXCEPT !.stage = "check", !.session = g.session]
    BY DEF AttachingType
  <2>5. attaching' \subseteq attaching \cup {[g EXCEPT !.stage = "check", !.session = g.session]}
    BY <2>1, <2>4
  <2>6. AttachingType'
    BY <2>1, <2>5, AttachingGoesOn
  <2> QED
    BY <2>1, <2>2, <2>3, <2>6, SameTypes
<1>6. ASSUME NEW g \in attaching, CheckTracked(g)
      PROVE  Rest
  <2>1. /\ g.stage = "check" /\ g.session \in Session /\ attaching' = attaching \ {g}
        /\ StillTracked \/ RemoveSessions({g.session})
        /\ UNCHANGED <<nextTabID, tabs, windows, frames, initializing, refresh>>
    BY <1>6, CheckDoes DEF AttachingType
  <2>2. TrackedType'
    <3>1. CASE StillTracked
      BY <3>1, SameTypes
    <3>2. CASE RemoveSessions({g.session})
      <4>1. sessions' \in Sessions /\ tracking' \subseteq tracking
        BY <2>1, <3>2, RemoveSessionsDoes DEF TrackedType
      <4> QED
        BY <2>1, <4>1, TrackedStays DEF TrackedType
    <3> QED
      BY <2>1, <3>1, <3>2
  <2>3. AttachingType'
    BY <2>1 DEF AttachingType
  <2> QED
    BY <2>1, <2>2, <2>3, SameTypes
<1>7. ASSUME NEW g \in attaching, AttachFails(g)
      PROVE  Rest
  <2>1. /\ attaching' = attaching \ {g} /\ tracking' \subseteq tracking
        /\ UNCHANGED <<nextTabID, tabs, windows, sessions, frames, initializing, refresh>>
    BY <1>7, AttachFailsDoes
  <2>2. TrackedType' /\ AttachingType'
    BY <2>1 DEF TrackedType, AttachingType
  <2> QED
    BY <2>1, <2>2, SameTypes
<1>8. ASSUME NEW i \in initializing, FindTab(i)
       PROVE  Rest
  <2>1. /\ i.stage = "waiting" /\ sessions' \in Sessions
        /\ FoundNothing(i) \/ FoundTab(i) \/ FoundNoTab(i)
        /\ UNCHANGED <<nextTabID, tabs, windows, frames, attaching, refresh>>
    BY <1>8, FindTabDoes
  <2>2. i.session \in Session
    BY DEF InitializingType
  <2>3. tracking' \subseteq tracking
    BY <2>1, <2>2, RemoveSessionsDoes DEF FoundNothing, FoundTab, FoundNoTab, TrackedType
  <2>4. TrackedType'
    BY <2>1, <2>3, TrackedStays DEF TrackedType
  <2>5. InitializingType'
    <3>1. CASE FoundNothing(i) \/ FoundNoTab(i)
      BY <3>1 DEF FoundNothing, FoundNoTab, InitializingType
    <3>2. CASE FoundTab(i)
      <4>1. sessions'[i.session].tab \in Nat \ {0}
        BY <2>1, <2>2, <3>2 DEF FoundTab, Sessions
      <4> QED
        BY <3>2, <4>1, InitializingGoesOn DEF FoundTab
    <3> QED
      BY <2>1, <3>1, <3>2
  <2> QED
    BY <2>1, <2>4, <2>5, SameTypes
<1>9. ASSUME NEW i \in initializing, AskFrames(i)
       PROVE  Rest
  <2>1. /\ i.stage = "asking" /\ StillTracked /\ UNCHANGED <<attaching, refresh>>
        /\ \/ initializing' = initializing \ {i}
           \/ initializing' = (initializing \ {i}) \cup {[i EXCEPT !.stage = "told"]}
    BY <1>9, AskFramesDoes
  <2>2. i.tab \in Nat \ {0} /\ [i EXCEPT !.stage = "told"] = [i EXCEPT !.stage = "told", !.tab = i.tab]
    BY <2>1 DEF InitializingType
  <2>3. InitializingType'
    BY <2>1, <2>2, InitializingGoesOn
  <2> QED
    BY <2>1, <2>3, SameTypes
<1>10. ASSUME NEW i \in initializing, AskFails(i)
       PROVE  Rest
  <2>1. i.session \in Session
    BY DEF InitializingType
  <2>2. /\ RemoveSessions({i.session}) /\ initializing' = initializing \ {i}
        /\ UNCHANGED <<nextTabID, tabs, windows, frames, attaching, refresh>>
    BY <1>10, <2>1, AskFailsDoes
  <2>3. sessions' \in Sessions /\ tracking' \subseteq tracking
    BY <2>1, <2>2, RemoveSessionsDoes DEF TrackedType
  <2>4. TrackedType' /\ InitializingType'
    BY <2>2, <2>3, TrackedStays DEF TrackedType, InitializingType
  <2> QED
    BY <2>2, <2>4, SameTypes
<1>11. ASSUME NEW i \in initializing, AddFrames(i)
       PROVE  Rest
  <2>1. /\ sessions' \in Sessions /\ frames' \in [Targets -> Nat] /\ initializing' = initializing \ {i}
        /\ UNCHANGED <<nextTabID, tabs, windows, tracking, attaching, refresh>>
    BY <1>11, AddFramesDoes
  <2>2. TrackedType' /\ InitializingType'
    BY <2>1, TrackedStays DEF InitializingType
  <2> QED
    BY <2>1, <2>2, SameTypes
<1>12. ASSUME RefreshTargets \/ ListTargets
      PROVE  Rest
  <2>1. StillTracked /\ UNCHANGED <<attaching, initializing>>
    BY <1>12, RefreshDoes
  <2>2. RefreshType'
    <3>1. CASE RefreshTargets
      <4>1. {p \in Pages : tabs[p].id # 0} \cup (tracking \cap {Iframe}) \subseteq Targets
        BY SessionParts
      <4> QED
        BY <3>1, <4>1 DEF RefreshTargets, RefreshType, Idle
    <3>2. CASE ListTargets
      <4>1. {t \in Targets : alive[t] = "open"} \subseteq Targets
        OBVIOUS
      <4> QED
        BY <3>2, <4>1 DEF ListTargets, RefreshType
    <3> QED
      BY <1>12, <3>1, <3>2
  <2> QED
    BY <2>1, <2>2, SameTypes
<1>13. ASSUME TrackListed
      PROVE  Rest
  <2>1. /\ UNCHANGED initializing
        /\ \/ \E t \in refresh.left : Track(t) /\ refresh' = [refresh EXCEPT !.left = @ \ {t}]
           \/ /\ refresh' = [refresh EXCEPT !.stage = "removing",
                                            !.left = refresh.known \ refresh.listed]
              /\ StillTracked /\ UNCHANGED attaching
    BY <1>13, TrackListedDoes
  <2>2. RefreshType'
    BY <2>1 DEF RefreshType
  <2>3. TrackedType' /\ AttachingType'
    BY <2>1, TrackDoes, SameTypes DEF RefreshType
  <2> QED
    BY <2>1, <2>2, <2>3, SameTypes
<1>14. ASSUME RemoveUnlisted
      PROVE  Rest
  <2>1. /\ UNCHANGED <<attaching, initializing>>
        /\ \/ \E t \in refresh.left : RemoveTarget(t) /\ refresh' = [refresh EXCEPT !.left = @ \ {t}]
           \/ refresh' = Idle /\ StillTracked
    BY <1>14, RemoveUnlistedDoes
  <2>2. RefreshType'
    BY <2>1 DEF RefreshType, Idle
  <2>3. TrackedType'
    BY <2>1, RemoveTargetType, SameTypes DEF RefreshType
  <2> QED
    BY <2>1, <2>2, <2>3, SameTypes
<1> HIDE DEF SurfaceType
<1> QED
  BY <1>0, <1>1, <1>2, <1>3, <1>4, <1>5, <1>6, <1>7, <1>8, <1>9, <1>10, <1>11, <1>12, <1>13, <1>14
     DEF SurfaceNext, BrowserStep, SurfaceType

(* One session is removed.                                                 *)
LEMMA RemoveSessionDoes ==
    ASSUME sessions \in Sessions, NEW x \in Session, RemoveSessions({x})
    PROVE  /\ sessions' \in Sessions /\ Loses /\ tracking' \subseteq tracking
           /\ sessions'[x].stage = "none"
           /\ \A s \in Session : s # x => sessions'[s] = sessions[s]
<1>1. {x} \in SUBSET Session
  OBVIOUS
<1>2. /\ sessions' \in Sessions /\ Loses /\ tracking' \subseteq tracking
      /\ \A s \in {x} : sessions'[s].stage = "none"
      /\ \A s \in Session : s \notin {x} => sessions'[s] = sessions[s]
  BY <1>1, RemoveSessionsDoes
<1> QED
  BY <1>2

(* Goroutines leave the browser's targets, the tabs and the windows alone, *)
(* but for the window of a page, and track no target.                      *)
LEMMA GoroutinesDo ==
    ASSUME SurfaceType,
           \/ \E g \in attaching : Attach(g) \/ Answered(g) \/ CheckTracked(g) \/ AttachFails(g)
           \/ \E i \in initializing : FindTab(i) \/ AskFrames(i) \/ AskFails(i) \/ AddFrames(i)
    PROVE  /\ tracking' \subseteq tracking
           /\ UNCHANGED <<alive, nextTabID, tabs, windows, refresh, stale>>
<1> USE DEF SurfaceType
<1>0. sessions \in Sessions
  BY DEF TrackedType
<1>1. ASSUME NEW g \in attaching, Attach(g) \/ Answered(g) \/ AttachFails(g)
      PROVE  /\ tracking' \subseteq tracking
             /\ UNCHANGED <<alive, nextTabID, tabs, windows, refresh, stale>>
  BY <1>1, AttachDoes, AnsweredDoes, AttachFailsDoes DEF StillTracked, StillBrowser
<1>2. ASSUME NEW g \in attaching, CheckTracked(g)
      PROVE  /\ tracking' \subseteq tracking
             /\ UNCHANGED <<alive, nextTabID, tabs, windows, refresh, stale>>
  <2>1. g.stage = "check" /\ g.session \in Session
    BY <1>2, CheckDoes DEF AttachingType
  <2> QED
    BY <1>0, <1>2, <2>1, CheckDoes, RemoveSessionDoes DEF StillTracked, StillBrowser
<1>3. ASSUME NEW i \in initializing, FindTab(i)
      PROVE  /\ tracking' \subseteq tracking
             /\ UNCHANGED <<alive, nextTabID, tabs, windows, refresh, stale>>
  <2>1. i.session \in Session
    BY DEF InitializingType
  <2> QED
    BY <1>0, <1>3, <2>1, FindTabDoes, RemoveSessionDoes
       DEF FoundNothing, FoundTab, FoundNoTab, StillBrowser
<1>4. ASSUME NEW i \in initializing, AskFails(i)
      PROVE  /\ tracking' \subseteq tracking
             /\ UNCHANGED <<alive, nextTabID, tabs, windows, refresh, stale>>
  <2>1. i.session \in Session
    BY DEF InitializingType
  <2> QED
    BY <1>0, <1>4, <2>1, AskFailsDoes, RemoveSessionDoes
<1>5. ASSUME NEW i \in initializing, AskFrames(i) \/ AddFrames(i)
      PROVE  /\ tracking' \subseteq tracking
             /\ UNCHANGED <<alive, nextTabID, tabs, windows, refresh, stale>>
  BY <1>5, AskFramesDoes, AddFramesDoes DEF StillTracked, StillBrowser
<1> QED
  BY <1>1, <1>2, <1>3, <1>4, <1>5

-----------------------------------------------------------------------------
(* What is tracked was there. *)

(* Targets are tracked, and get a tab, that have been there.               *)
LEMMA ThereStays ==
    ASSUME TrackedWasThere, Ages, RefreshType, refresh' = refresh, tracking' \subseteq Targets,
           \A t \in tracking' : t \in tracking \/ alive'[t] # "none",
           \A p \in Pages : tabs'[p].id # 0 => tabs[p].id # 0 \/ alive'[p] # "none",
           \A p \in Pages : p \in tracking' => tabs'[p].id # 0
    PROVE  TrackedWasThere'
<1>1. \A t \in tracking' : alive'[t] # "none"
  BY DEF TrackedWasThere, Ages
<1>2. \A p \in Pages : tabs'[p].id # 0 => alive'[p] # "none"
  BY SessionParts DEF TrackedWasThere, Ages
<1>3. /\ refresh.known \subseteq Targets /\ refresh.left \subseteq Targets
  BY DEF RefreshType
<1>4. refresh'.stage # "idle" => \A t \in refresh'.known : alive'[t] # "none"
  BY <1>3 DEF TrackedWasThere, Ages
<1>5. refresh'.stage = "tracking" =>
        /\ \A t \in refresh'.known \ refresh'.listed : alive'[t] = "gone"
        /\ \A t \in refresh'.left : alive'[t] # "none"
  BY <1>3 DEF TrackedWasThere, Ages
<1>6. refresh'.stage = "removing" => \A t \in refresh'.left : alive'[t] = "gone"
  BY <1>3 DEF TrackedWasThere, Ages
<1> QED
  BY <1>1, <1>2, <1>4, <1>5, <1>6 DEF TrackedWasThere

(* No more is tracked, and the tabs are the same.                          *)
LEMMA FewerAreThere ==
    ASSUME TrackedWasThere, Ages, RefreshType, refresh' = refresh, tracking \subseteq Targets,
           tracking' \subseteq tracking, \A p \in Pages : tabs'[p].id = tabs[p].id
    PROVE  TrackedWasThere'
<1>1. \A p \in Pages : p \in tracking' => tabs'[p].id # 0
  BY DEF TrackedWasThere
<1> QED
  BY <1>1, ThereStays

(* What is tracked because it has just been seen is there.                 *)
LEMMA TrackIsThere ==
    ASSUME TrackedWasThere, Ages, RefreshType, TrackedType, AttachingType,
           NEW t \in Targets, Track(t), alive'[t] # "none"
    PROVE  /\ tracking' \subseteq Targets
           /\ \A u \in tracking' : u \in tracking \/ alive'[u] # "none"
           /\ \A p \in Pages : tabs'[p].id # 0 => tabs[p].id # 0 \/ alive'[p] # "none"
           /\ \A p \in Pages : p \in tracking' => tabs'[p].id # 0
<1>1. /\ \A p \in Pages : tabs'[p] = tabs[p] \/ (p = t /\ tabs'[p].id # 0)
      /\ t \in Pages => tabs'[t].id # 0
      /\ tracking' = tracking \cup {t}
  BY TrackDoes
<1> QED
  BY <1>1 DEF TrackedWasThere, TrackedType

(* What is removed is tracked no more.                                     *)
LEMMA RemoveTargetIsThere ==
    ASSUME TrackedWasThere, TrackedType, NEW t \in Targets, RemoveTarget(t)
    PROVE  /\ tracking' \subseteq tracking
           /\ \A p \in Pages : tabs'[p].id # 0 => tabs[p].id # 0
           /\ \A p \in Pages : p \in tracking' => tabs'[p].id # 0
<1>1. /\ tracking' \subseteq tracking
      /\ \A p \in Pages : tabs'[p] = tabs[p] \/ (p = t /\ tabs'[p] = NoTab)
      /\ t = Iframe \/ tabs[t].id # 0 => t \notin tracking'
  BY RemoveTargetDoes
<1>2. \A p \in Pages : p \in tracking => tabs[p].id # 0
  BY DEF TrackedWasThere
<1> QED
  BY <1>1, <1>2 DEF NoTab

(* The list of targets, and what is done with it.                          *)
LEMMA RefreshIsThere ==
    ASSUME SurfaceType, TrackedWasThere, Ages, StillBrowser,
           \/ RefreshTargets \/ ListTargets \/ TrackListed \/ RemoveUnlisted
    PROVE  /\ refresh'.stage # "idle" => \A t \in refresh'.known : alive'[t] # "none"
           /\ refresh'.stage = "tracking" =>
                /\ \A t \in refresh'.known \ refresh'.listed : alive'[t] = "gone"
                /\ \A t \in refresh'.left : alive'[t] # "none"
           /\ refresh'.stage = "removing" => \A t \in refresh'.left : alive'[t] = "gone"
<1> USE DEF SurfaceType
<1>1. alive' = alive
  BY DEF StillBrowser
<1>2. CASE RefreshTargets
  <2>1. refresh'.stage = "asking"
        /\ refresh'.known = {p \in Pages : tabs[p].id # 0} \cup (tracking \cap {Iframe})
    BY <1>2 DEF RefreshTargets, Idle
  <2> QED
    BY <1>1, <2>1 DEF TrackedWasThere
<1>3. CASE ListTargets
  <2>1. /\ refresh.stage = "asking" /\ refresh'.stage = "tracking" /\ refresh'.known = refresh.known
        /\ refresh'.listed = {t \in Targets : alive[t] = "open"}
        /\ refresh'.left = {t \in Targets : alive[t] = "open"}
    BY <1>3 DEF ListTargets, RefreshType
  <2>2. \A t \in refresh.known : t \in Targets /\ alive[t] # "none"
    BY <2>1 DEF TrackedWasThere, RefreshType
  <2> QED
    BY <1>1, <2>1, <2>2 DEF BrowserType
<1>4. CASE TrackListed
  <2>1. /\ refresh.stage = "tracking"
        /\ \/ \E t \in refresh.left : refresh' = [refresh EXCEPT !.left = @ \ {t}]
           \/ refresh' = [refresh EXCEPT !.stage = "removing", !.left = refresh.known \ refresh.listed]
    BY <1>4, TrackListedDoes
  <2>2. /\ refresh'.known = refresh.known /\ refresh'.listed = refresh.listed
        /\ \/ refresh'.stage = "tracking" /\ refresh'.left \subseteq refresh.left
           \/ refresh'.stage = "removing" /\ refresh'.left = refresh.known \ refresh.listed
    BY <2>1 DEF RefreshType
  <2> QED
    BY <1>1, <2>1, <2>2 DEF TrackedWasThere
<1>5. CASE RemoveUnlisted
  <2>1. /\ refresh.stage = "removing"
        /\ \/ \E t \in refresh.left : refresh' = [refresh EXCEPT !.left = @ \ {t}]
           \/ refresh' = Idle
    BY <1>5, RemoveUnlistedDoes
  <2>2. \/ refresh'.known = refresh.known /\ refresh'.stage = "removing" /\ refresh'.left \subseteq refresh.left
        \/ refresh'.stage = "idle"
    BY <2>1 DEF RefreshType, Idle
  <2> QED
    BY <1>1, <2>1, <2>2 DEF TrackedWasThere
<1> QED
  BY <1>2, <1>3, <1>4, <1>5

(* A browser that does nothing, while the targets are listed again.        *)
LEMMA RefreshRests ==
    ASSUME \/ RefreshTargets \/ ListTargets \/ TrackListed \/ RemoveUnlisted
    PROVE  StillBrowser /\ UNCHANGED initializing
BY RefreshDoes, TrackListedDoes, RemoveUnlistedDoes

(* Every step tracks only what is, or was, there.                          *)
LEMMA ThereStep ==
    ASSUME SurfaceType, BrowserIsSound, NumbersAreIssued, TrackedWasThere, SurfaceNext, Ages
    PROVE  TrackedWasThere'
<1> USE DEF SurfaceType
<1>0. tracking \subseteq Targets /\ sessions \in Sessions
  BY DEF TrackedType
<1>1. ASSUME StillTracked, refresh' = refresh
      PROVE  TrackedWasThere'
  BY <1>0, <1>1, FewerAreThere DEF StillTracked
<1>2. ASSUME NEW t \in Targets, OpenTarget(t) \/ CloseTarget(t) \/ ChangePage(t)
      PROVE  TrackedWasThere'
  <2>1. StillTracked /\ refresh' = refresh
    BY <1>2, OpenDoes, ChangeDoes
       DEF CloseTarget, trackedVars, tabVars, goVars, refreshVars, StillTracked, StillGoing
  <2> QED
    BY <1>1, <2>1
<1>3. ASSUME Handle
      PROVE  TrackedWasThere'
  <2>1. PICK e : \/ TrackEvent(e) \/ LookEvent(e) \/ DestroyedEvent(e)
                 \/ AttachedEvent(e) \/ DetachedEvent(e) \/ FrameEvent(e)
    BY <1>3, HandleDoes
  <2>2. Handled(e) /\ refresh' = refresh
    BY <2>1 DEF TrackEvent, LookEvent, DestroyedEvent, AttachedEvent, DetachedEvent, FrameEvent, Handled
  <2>3. CASE TrackEvent(e)
    <3>1. e.of \in Targets /\ Track(e.of) /\ alive'[e.of] # "none"
      BY <2>2, <2>3 DEF TrackEvent, Tracks, Handled, EventIsSound, Ages
    <3> QED
      BY <2>2, <3>1, TrackIsThere, ThereStays
  <2>4. CASE LookEvent(e)
    BY <1>1, <2>2, <2>4 DEF LookEvent
  <2>5. CASE DestroyedEvent(e)
    <3>1. /\ tracking' \subseteq tracking
          /\ \A p \in Pages : tabs'[p].id # 0 => tabs[p].id # 0
          /\ \A p \in Pages : p \in tracking' => tabs'[p].id # 0
      BY <2>5, RemoveTargetIsThere DEF DestroyedEvent
    <3> QED
      BY <1>0, <2>2, <3>1, ThereStays
  <2>6. CASE AttachedEvent(e) \/ FrameEvent(e)
    <3>1. tracking' = tracking /\ tabs' = tabs
      BY <2>6 DEF AttachedEvent, FrameEvent
    <3> QED
      BY <1>0, <2>2, <3>1, FewerAreThere
  <2>7. CASE DetachedEvent(e)
    <3>1. tracking' \subseteq tracking /\ tabs' = tabs
      BY <1>0, <2>7, RemoveSessionsDoes DEF DetachedEvent
    <3> QED
      BY <1>0, <2>2, <3>1, FewerAreThere
  <2> QED
    BY <2>1, <2>3, <2>4, <2>5, <2>6, <2>7
<1>4. ASSUME NEW g \in attaching, FindWindow(g) \/ LookAgain(g)
      PROVE  TrackedWasThere'
  <2>1. Located(g)
    BY <1>4, LocateDoes
  <2>2. tracking' = tracking /\ refresh' = refresh /\ \A q \in Pages : tabs'[q].id = tabs[q].id
    BY <2>1, LocateType DEF Located
  <2> QED
    BY <1>0, <2>2, FewerAreThere
<1>5. ASSUME \/ \E g \in attaching : Attach(g) \/ Answered(g) \/ CheckTracked(g) \/ AttachFails(g)
             \/ \E i \in initializing : FindTab(i) \/ AskFrames(i) \/ AskFails(i) \/ AddFrames(i)
      PROVE  TrackedWasThere'
  <2>1. tracking' \subseteq tracking /\ tabs' = tabs /\ refresh' = refresh
    <3> HIDE DEF SurfaceType
    <3> QED
      BY <1>5, GoroutinesDo
  <2> QED
    BY <1>0, <2>1, FewerAreThere
<1>6. ASSUME \/ RefreshTargets \/ ListTargets \/ TrackListed \/ RemoveUnlisted
      PROVE  TrackedWasThere'
  <2>1. /\ tracking' \subseteq Targets
        /\ \A u \in tracking' : u \in tracking \/ alive'[u] # "none"
        /\ \A p \in Pages : tabs'[p].id # 0 => tabs[p].id # 0 \/ alive'[p] # "none"
        /\ \A p \in Pages : p \in tracking' => tabs'[p].id # 0
    <3>1. CASE StillTracked
      BY <1>0, <3>1 DEF StillTracked, TrackedWasThere
    <3>2. ASSUME NEW t \in refresh.left, Track(t), TrackListed
          PROVE  t \in Targets /\ Track(t) /\ alive'[t] # "none"
      <4>1. t \in Targets /\ alive[t] # "none"
        BY <3>2, TrackListedDoes DEF RefreshType, TrackedWasThere
      <4> QED
        BY <3>2, <4>1 DEF Ages
    <3>3. ASSUME NEW t \in refresh.left, RemoveTarget(t)
          PROVE  /\ tracking' \subseteq tracking
                 /\ \A p \in Pages : tabs'[p].id # 0 => tabs[p].id # 0
                 /\ \A p \in Pages : p \in tracking' => tabs'[p].id # 0
      BY <3>3, RemoveTargetIsThere DEF RefreshType
    <3>4. CASE \E t \in refresh.left : Track(t) /\ TrackListed
      BY <3>2, <3>4, TrackIsThere
    <3>5. CASE \E t \in refresh.left : RemoveTarget(t)
      BY <1>0, <3>3, <3>5
    <3> QED
      BY <1>6, <3>1, <3>4, <3>5, RefreshDoes, TrackListedDoes, RemoveUnlistedDoes
  <2>2. StillBrowser
    BY <1>6, RefreshRests
  <2>3. /\ \A t \in tracking' : alive'[t] # "none"
        /\ \A p \in Pages : tabs'[p].id # 0 => alive'[p] # "none"
    BY <1>0, <2>1, SessionParts DEF TrackedWasThere, Ages
  <2> HIDE DEF SurfaceType
  <2> QED
    BY <1>6, <2>1, <2>2, <2>3, RefreshIsThere DEF TrackedWasThere
<1> QED
  BY <1>2, <1>3, <1>4, <1>5, <1>6 DEF SurfaceNext, BrowserStep

-----------------------------------------------------------------------------
(* Where sessions come from. *)

(* Steps that lose or bind sessions make none of them known.               *)
LEMMA KnownStays ==
    /\ Loses => \A s \in Session : Known(s)' => Known(s)
    /\ \A s \in Session : Binds(s) => (Known(s)' <=> Known(s))
    /\ StillTracked => \A s \in Session : Known(s)' <=> Known(s)
BY DEF Loses, Lost, Known, Binds, StillTracked

(* A session that is waited for is added, and nothing else is.             *)
LEMMA AddSessionFrom ==
    ASSUME SurfaceType, NEW x \in Session, AddSession(x), UNCHANGED <<nextTabID, tabs, windows, frames>>
    PROVE  /\ \A s \in Session : s # x => (Known(s)' <=> Known(s))
           /\ \A i \in initializing' : i \in initializing \/ i.session = x
<1>1. /\ \A s \in Session : s # x \/ Known(x) => Binds(s)
      /\ \/ Known(x) /\ initializing' = initializing
         \/ /\ ~Known(x)
            /\ initializing' = initializing \cup {[session |-> x, stage |-> "waiting", tab |-> 0]}
  BY AddSessionDoes DEF SurfaceType, tabVars
<1> QED
  BY <1>1, KnownStays

(* A session is known, or is being initialized, because it was.            *)
Older ==
    /\ \A s \in Session : Known(s)' => Known(s)
    /\ \A i \in initializing' : \E j \in initializing : j.session = i.session
    /\ \A i, j \in initializing' : i # j /\ i.session = j.session =>
        \E k, l \in initializing : k # l /\ k.session = i.session /\ l.session = i.session

(* What a goroutine does to another session than its own.                  *)
LEMMA InitializingFrom ==
    ASSUME SurfaceType,
           NEW i \in initializing, FindTab(i) \/ AskFrames(i) \/ AskFails(i) \/ AddFrames(i)
    PROVE  /\ Older
           /\ \A s \in Session : s # i.session => Binds(s)
           /\ attaching' = attaching
           /\ \/ initializing' = initializing \ {i}
              \/ \E j : j.session = i.session /\ initializing' = (initializing \ {i}) \cup {j}
<1> USE DEF SurfaceType
<1>0. /\ sessions \in Sessions /\ i.session \in Session
      /\ i \in [session : Session, stage : {"waiting", "asking", "told"}, tab : Nat]
  BY DEF TrackedType, InitializingType
<1>1. /\ attaching' = attaching
      /\ \A s \in Session : s # i.session => Binds(s)
      /\ Known(i.session)' => Known(i.session)
      /\ \/ initializing' = initializing \ {i}
         \/ \E j : j.session = i.session /\ initializing' = (initializing \ {i}) \cup {j}
  <2>1. CASE FindTab(i)
    <3>1. attaching' = attaching /\ (FoundNothing(i) \/ FoundTab(i) \/ FoundNoTab(i))
      BY <2>1, FindTabDoes
    <3>2. CASE FoundNothing(i)
      BY <1>0, <3>1, <3>2, KnownStays DEF FoundNothing
    <3>3. CASE FoundTab(i)
      <4>1. Known(i.session)
        BY <3>3 DEF FoundTab, Known
      <4> DEFINE j == [i EXCEPT !.stage = "asking", !.tab = sessions'[i.session].tab]
      <4>2. j.session = i.session
        BY <1>0
      <4>3. /\ \A s \in Session : s # i.session => Binds(s)
            /\ initializing' = (initializing \ {i}) \cup {j}
        BY <3>3 DEF FoundTab
      <4> HIDE DEF j
      <4> QED
        BY <3>1, <4>1, <4>2, <4>3
    <3>4. CASE FoundNoTab(i)
      <4>1. /\ sessions'[i.session].stage = "none"
            /\ \A s \in Session : s # i.session => sessions'[s] = sessions[s]
        BY <1>0, <3>4, RemoveSessionDoes DEF FoundNoTab
      <4> QED
        BY <3>1, <3>4, <4>1 DEF FoundNoTab, Known, Binds
    <3> QED
      BY <3>1, <3>2, <3>3, <3>4
  <2>2. CASE AskFrames(i)
    <3> DEFINE j == [i EXCEPT !.stage = "told"]
    <3>1. j.session = i.session
      BY <1>0
    <3>2. /\ StillTracked /\ attaching' = attaching
          /\ initializing' = initializing \ {i} \/ initializing' = (initializing \ {i}) \cup {j}
      BY <2>2, AskFramesDoes
    <3>3. \A s \in Session : Binds(s)
      BY <3>2 DEF StillTracked, Binds
    <3> HIDE DEF j
    <3> QED
      BY <1>0, <3>1, <3>2, <3>3, KnownStays
  <2>3. CASE AskFails(i)
    <3>1. RemoveSessions({i.session}) /\ initializing' = initializing \ {i} /\ attaching' = attaching
      BY <1>0, <2>3, AskFailsDoes
    <3>2. /\ sessions'[i.session].stage = "none"
          /\ \A s \in Session : s # i.session => sessions'[s] = sessions[s]
      BY <1>0, <3>1, RemoveSessionDoes
    <3> QED
      BY <3>1, <3>2 DEF Known, Binds
  <2>4. CASE AddFrames(i)
    <3>1. /\ initializing' = initializing \ {i} /\ attaching' = attaching
          /\ \/ ~Known(i.session) /\ UNCHANGED <<sessions, frames>>
             \/ Known(i.session) /\ Framed(i)
      BY <2>4, AddFramesDoes
    <3> QED
      BY <3>1 DEF Framed, Known, Binds
  <2> QED
    BY <2>1, <2>2, <2>3, <2>4
<1>2. \A s \in Session : Known(s)' => Known(s)
  BY <1>1, KnownStays
<1>3. CASE initializing' = initializing \ {i}
  BY <1>1, <1>2, <1>3 DEF Older
<1>4. ASSUME NEW j, j.session = i.session, initializing' = (initializing \ {i}) \cup {j}
      PROVE  Older
  <2>1. \A k \in initializing' : (k \in initializing /\ k # i) \/ k = j
    BY <1>4
  <2>2. ASSUME NEW k \in initializing', NEW l \in initializing', k # l, k.session = l.session
        PROVE  \E m, n \in initializing : m # n /\ m.session = k.session /\ n.session = k.session
    <3>1. CASE k = j
      BY <1>4, <2>1, <2>2, <3>1
    <3>2. CASE l = j
      BY <1>4, <2>1, <2>2, <3>2
    <3> QED
      BY <2>1, <2>2, <3>1, <3>2
  <2> QED
    BY <1>2, <1>4, <2>1, <2>2 DEF Older
<1> QED
  BY <1>1, <1>3, <1>4

(* Other steps bind sessions to tabs, or forget them.                      *)
Rebound == \A s \in Session : Binds(s) \/ Lost(s)

(* Steps of these kinds add no session and no goroutine.                   *)
LEMMA KeptStays ==
    /\ Loses => Rebound
    /\ StillTracked => Rebound
    /\ sessions' = sessions => Rebound
    /\ (\A s \in Session : Binds(s)) => Rebound
    /\ Rebound /\ initializing' = initializing => Older
BY DEF Loses, Lost, Known, Binds, StillTracked, Rebound, Older

(* Only its event, its answer and its own goroutine do more to a session.  *)
LEMMA SessionsKept ==
    ASSUME SurfaceType, BrowserIsSound, SurfaceNext
    PROVE  \/ Rebound /\ initializing' = initializing
           \/ \E e : AttachedEvent(e)
           \/ \E g \in attaching : Answered(g)
           \/ \E i \in initializing : FindTab(i) \/ AskFrames(i) \/ AskFails(i) \/ AddFrames(i)
<1> USE DEF SurfaceType
<1> DEFINE Same == Rebound /\ initializing' = initializing
<1>0. sessions \in Sessions
  BY DEF TrackedType
<1>1. ASSUME NEW t \in Targets, OpenTarget(t) \/ CloseTarget(t) \/ ChangePage(t)
      PROVE  Same
  <2>1. StillTracked /\ StillGoing
    BY <1>1, OpenDoes, ChangeDoes
       DEF CloseTarget, trackedVars, tabVars, goVars, refreshVars, StillTracked, StillGoing
  <2> QED
    BY <2>1, KeptStays DEF StillGoing
<1>2. ASSUME NEW t \in Targets, Track(t)
      PROVE  Rebound
  BY <1>2, TrackDoes, KeptStays
<1>3. ASSUME NEW t \in Targets, RemoveTarget(t)
      PROVE  Rebound
  BY <1>3, RemoveTargetDoes, KeptStays
<1>4. ASSUME Handle
      PROVE  Same \/ \E e : AttachedEvent(e)
  <2>1. PICK e : \/ TrackEvent(e) \/ LookEvent(e) \/ DestroyedEvent(e)
                 \/ AttachedEvent(e) \/ DetachedEvent(e) \/ FrameEvent(e)
    BY <1>4, HandleDoes
  <2>2. CASE TrackEvent(e)
    BY <1>2, <2>2 DEF TrackEvent
  <2>3. CASE LookEvent(e)
    BY <2>3, KeptStays DEF LookEvent
  <2>4. CASE DestroyedEvent(e)
    BY <1>3, <2>4 DEF DestroyedEvent
  <2>5. CASE DetachedEvent(e)
    BY <1>0, <2>5, RemoveSessionDoes, KeptStays DEF DetachedEvent
  <2>6. CASE FrameEvent(e)
    <3>1. CASE e.kind = "removed"
      BY <2>6, <3>1, KeptStays DEF FrameEvent
    <3>2. CASE e.kind # "removed"
      <4>1. EventIsSound(e) /\ e.kind \in {"added", "navigated"} /\ FrameMoves(e) /\ UNCHANGED tabVars
        BY <2>6, <3>2 DEF FrameEvent, Handled, tabVars
      <4> QED
        BY <2>6, <4>1, FrameMovesDoes, KeptStays DEF FrameEvent
    <3> QED
      BY <3>1, <3>2
  <2> QED
    BY <2>1, <2>2, <2>3, <2>4, <2>5, <2>6
<1>5. ASSUME NEW g \in attaching, FindWindow(g) \/ LookAgain(g)
      PROVE  Same
  BY <1>5, LocateDoes, KeptStays DEF Located
<1>6. ASSUME NEW g \in attaching, Attach(g) \/ AttachFails(g)
      PROVE  Same
  BY <1>6, AttachDoes, AttachFailsDoes, KeptStays
<1>7. ASSUME NEW g \in attaching, CheckTracked(g)
      PROVE  Same
  <2>1. /\ g.session \in Session /\ initializing' = initializing
        /\ StillTracked \/ RemoveSessions({g.session})
    BY <1>7, CheckDoes DEF AttachingType
  <2> QED
    BY <1>0, <2>1, RemoveSessionDoes, KeptStays
<1>8. ASSUME \/ RefreshTargets \/ ListTargets \/ TrackListed \/ RemoveUnlisted
       PROVE  Same
  <2>1. initializing' = initializing
    BY <1>8, RefreshRests
  <2>2. CASE StillTracked
    BY <2>1, <2>2, KeptStays
  <2>3. \A t \in refresh.left : t \in Targets
    BY DEF RefreshType
  <2> QED
    BY <1>2, <1>3, <1>8, <2>1, <2>2, <2>3, RefreshDoes, TrackListedDoes, RemoveUnlistedDoes
<1> QED
  BY <1>1, <1>4, <1>5, <1>6, <1>7, <1>8 DEF SurfaceNext, BrowserStep

(* Only two steps add a session.                                           *)
LEMMA OlderBut ==
    ASSUME SurfaceType, BrowserIsSound, SurfaceNext
    PROVE  \/ Older
           \/ \E e : AttachedEvent(e)
           \/ \E g \in attaching : Answered(g)
BY SessionsKept, KeptStays, InitializingFrom

(* A goroutine that attaches is new, or goes on, or has just been answered. *)
AttachingAnew(g) ==
    \/ g \in attaching
    \/ /\ g.stage # "answered"
       /\ \/ g.session[1] \in Targets /\ g.session[2] = 0
          \/ \E h \in attaching : h.session = g.session
    \/ \E h \in attaching : \E new : Granted(h, g.session, new)

(* A goroutine that goes on is no new one.                                 *)
LEMMA AttachingOn ==
    ASSUME AttachingType, NEW g \in attaching, NEW to, to # "answered",
           attaching' = (attaching \ {g}) \cup {[g EXCEPT !.stage = to]}
    PROVE  \A k \in attaching' : AttachingAnew(k)
<1> DEFINE h == [g EXCEPT !.stage = to]
<1>1. h.stage = to /\ h.session = g.session
  BY DEF AttachingType
<1> HIDE DEF h
<1>2. \A k \in attaching' : k \in attaching \/ k = h
  BY DEF h
<1> QED
  BY <1>1, <1>2 DEF AttachingAnew

(* Track starts a goroutine that has no session yet.                       *)
LEMMA TrackAnew ==
    ASSUME TrackedType, AttachingType, NEW t \in Targets, Track(t)
    PROVE  \A g \in attaching' : AttachingAnew(g)
<1>1. \A g \in attaching' :
        g \in attaching \/ (g.stage \in {"window", "attach"} /\ g.session = <<t, 0>>)
  BY TrackDoes
<1>2. <<t, 0>>[1] = t /\ <<t, 0>>[2] = 0
  OBVIOUS
<1> QED
  BY <1>1, <1>2 DEF AttachingAnew

(* Every goroutine that attaches comes about in one of those ways.         *)
LEMMA AttachingFrom ==
    ASSUME SurfaceType, BrowserIsSound, SurfaceNext
    PROVE  \A g \in attaching' : AttachingAnew(g)
<1> USE DEF SurfaceType
<1>1. ASSUME attaching' \subseteq attaching
      PROVE  \A g \in attaching' : AttachingAnew(g)
  BY <1>1 DEF AttachingAnew
<1>2. ASSUME NEW t \in Targets, OpenTarget(t) \/ CloseTarget(t) \/ ChangePage(t)
      PROVE  attaching' = attaching
  BY <1>2, OpenDoes, ChangeDoes DEF CloseTarget, goVars, StillGoing
<1>3. ASSUME Handle
      PROVE  \A g \in attaching' : AttachingAnew(g)
  <2>1. PICK e : \/ TrackEvent(e) \/ LookEvent(e) \/ DestroyedEvent(e)
                 \/ AttachedEvent(e) \/ DetachedEvent(e) \/ FrameEvent(e)
    BY <1>3, HandleDoes
  <2>2. CASE TrackEvent(e)
    BY <2>2, TrackAnew DEF TrackEvent
  <2>3. CASE LookEvent(e)
    <3> DEFINE g == [Attaching(e.of, tabs[e.of].id) EXCEPT !.stage = "look"]
    <3>1. e.of \in Targets
      BY <2>3, SessionParts DEF LookEvent
    <3>2. g.stage = "look" /\ g.session = <<e.of, 0>>
      BY <3>1 DEF Attaching
    <3>3. <<e.of, 0>>[1] = e.of /\ <<e.of, 0>>[2] = 0
      OBVIOUS
    <3> HIDE DEF g
    <3>4. \A h \in attaching' : h \in attaching \/ h = g
      BY <2>3 DEF LookEvent, g
    <3> QED
      BY <3>1, <3>2, <3>3, <3>4 DEF AttachingAnew
  <2>4. CASE DestroyedEvent(e) \/ AttachedEvent(e) \/ DetachedEvent(e) \/ FrameEvent(e)
    BY <1>1, <2>4 DEF DestroyedEvent, AttachedEvent, DetachedEvent, FrameEvent
  <2> QED
    BY <2>1, <2>2, <2>3, <2>4
<1>4. ASSUME NEW g \in attaching, FindWindow(g) \/ LookAgain(g)
      PROVE  \A k \in attaching' : AttachingAnew(k)
  <2>1. \/ attaching' = attaching \ {g}
        \/ attaching' = (attaching \ {g}) \cup {[g EXCEPT !.stage = "attach"]}
    BY <1>4, LocateDoes DEF Located
  <2> QED
    BY <1>1, <2>1, AttachingOn
<1>5. ASSUME NEW g \in attaching, Attach(g)
      PROVE  \A k \in attaching' : AttachingAnew(k)
  <2>1. Refused(g) \/ \E s, new : Granted(g, s, new)
    BY <1>5, AttachDoes
  <2>2. CASE attaching' = (attaching \ {g}) \cup {[g EXCEPT !.stage = "failed"]}
    BY <2>2, AttachingOn
  <2>3. ASSUME NEW s, NEW new, Granted(g, s, new),
               attaching' = (attaching \ {g}) \cup {[g EXCEPT !.stage = "answered", !.session = s]}
        PROVE  \A k \in attaching' : AttachingAnew(k)
    <3> DEFINE h == [g EXCEPT !.stage = "answered", !.session = s]
    <3>1. h.session = s
      BY DEF AttachingType
    <3> HIDE DEF h
    <3>2. \A k \in attaching' : k \in attaching \/ k = h
      BY <2>3 DEF h
    <3> QED
      BY <2>3, <3>1, <3>2 DEF AttachingAnew
  <2> QED
    BY <2>1, <2>2, <2>3 DEF Refused, Granted
<1>6. ASSUME NEW g \in attaching, Answered(g) \/ CheckTracked(g) \/ AttachFails(g)
      PROVE  \A k \in attaching' : AttachingAnew(k)
  BY <1>1, <1>6, AnsweredDoes, CheckDoes, AttachFailsDoes, AttachingOn
<1>7. ASSUME NEW i \in initializing, FindTab(i) \/ AskFrames(i) \/ AskFails(i) \/ AddFrames(i)
      PROVE  attaching' = attaching
  <2> HIDE DEF SurfaceType
  <2> QED
    BY <1>7, InitializingFrom
<1>8. ASSUME \/ RefreshTargets \/ ListTargets \/ TrackListed \/ RemoveUnlisted
      PROVE  \A k \in attaching' : AttachingAnew(k)
  <2>1. \A t \in refresh.left : t \in Targets
    BY DEF RefreshType
  <2> QED
    BY <1>1, <1>8, <2>1, TrackAnew, RefreshDoes, TrackListedDoes, RemoveUnlistedDoes
<1> QED
  BY <1>1, <1>2, <1>3, <1>4, <1>5, <1>6, <1>7, <1>8 DEF SurfaceNext, BrowserStep

(* What is waited for was issued.                                          *)
LEMMA WaitsSound ==
    ASSUME BrowserIsSound, NEW x
    PROVE  /\ Waits("attached", x) => x \in Session /\ Issued(x)
           /\ Waits("detached", x) => x \in Session /\ Issued(x)
           /\ Waits("destroyed", x) => x \in Targets /\ alive[x] = "gone"
BY DEF BrowserIsSound, EventIsSound, Waits, Issued

(* A session's number stays issued.                                        *)
LEMMA IssuedStays ==
    ASSUME BrowserType, Ages
    PROVE  /\ \A s \in Session : Issued(s) => Issued(s)'
           /\ \A s : s[1] \in Targets /\ s[2] = 0 => Issued(s)'
<1>1. ASSUME NEW s \in Session, Issued(s)
      PROVE  Issued(s)'
  <2>1. s[1] \in Targets /\ s[2] \in Nat
    BY SessionParts
  <2> QED
    BY <1>1, <2>1 DEF BrowserType, Ages, Issued
<1>2. ASSUME NEW s, s[1] \in Targets, s[2] = 0
      PROVE  Issued(s)'
  BY <1>2 DEF Ages, Issued
<1> QED
  BY <1>1, <1>2

(* Every step knows only of sessions that the browser has issued.          *)
LEMMA NumbersStep ==
    ASSUME SurfaceType, BrowserIsSound, NumbersAreIssued, SurfaceNext, Ages, AttachingType'
    PROVE  NumbersAreIssued'
<1> USE DEF SurfaceType
<1>0. \A s \in Session : Issued(s) => Issued(s)'
  BY IssuedStays
<1>1. \A i \in initializing : i.session \in Session /\ Issued(i.session)
  BY DEF InitializingType, NumbersAreIssued
<1>2. /\ \A s \in Session : Known(s)' => Issued(s)'
      /\ \A i \in initializing' : Issued(i.session)'
  <2>1. CASE Older
    BY <1>0, <1>1, <2>1 DEF Older, NumbersAreIssued
  <2>2. ASSUME NEW x \in Session, Issued(x), AddSession(x), UNCHANGED <<nextTabID, tabs, windows, frames>>
        PROVE  /\ \A s \in Session : Known(s)' => Issued(s)'
               /\ \A i \in initializing' : Issued(i.session)'
    <3>1. /\ \A s \in Session : s # x => (Known(s)' <=> Known(s))
          /\ \A i \in initializing' : i \in initializing \/ i.session = x
      <4> HIDE DEF SurfaceType
      <4> QED
        BY <2>2, AddSessionFrom
    <3>2. Issued(x)'
      BY <1>0, <2>2
    <3> QED
      BY <1>0, <1>1, <3>1, <3>2 DEF NumbersAreIssued
  <2>3. ASSUME NEW e, AttachedEvent(e)
        PROVE  /\ e.of \in Session /\ Issued(e.of) /\ AddSession(e.of)
               /\ UNCHANGED <<nextTabID, tabs, windows, frames>>
    BY <2>3 DEF AttachedEvent, Handled, EventIsSound, Issued
  <2>4. ASSUME NEW g \in attaching, Answered(g)
        PROVE  /\ g.session \in Session /\ Issued(g.session) /\ AddSession(g.session)
               /\ UNCHANGED <<nextTabID, tabs, windows, frames>>
    BY <2>4, AnsweredDoes DEF AttachingType, NumbersAreIssued
  <2>5. Older \/ (\E e : AttachedEvent(e)) \/ (\E g \in attaching : Answered(g))
    <3> HIDE DEF SurfaceType
    <3> QED
      BY OlderBut
  <2> QED
    BY <2>1, <2>2, <2>3, <2>4, <2>5
<1>3. ASSUME NEW g \in attaching, NEW s, NEW new, Granted(g, s, new)
      PROVE  s \in Session /\ Issued(s)'
  <2>1. s \in Session /\ s[1] = g.target /\ s[2] = issued[g.target] + 1
        /\ issued' = [issued EXCEPT ![g.target] = @ + 1] /\ g.target \in Targets
    BY <1>3 DEF Granted, AttachingType
  <2> QED
    BY <2>1, SessionParts DEF Issued, BrowserType
<1>4. \A g \in attaching' : Issued(g.session)'
  <2> SUFFICES ASSUME NEW g \in attaching' PROVE Issued(g.session)'
    OBVIOUS
  <2>1. AttachingAnew(g)
    <3> HIDE DEF SurfaceType
    <3> QED
      BY AttachingFrom
  <2>2. \A h \in attaching : Issued(h.session)'
    <3> SUFFICES ASSUME NEW h \in attaching PROVE Issued(h.session)'
      OBVIOUS
    <3>1. CASE h.session \in Session
      BY <1>0, <3>1 DEF NumbersAreIssued
    <3>2. CASE h.session \in {<<t, 0>> : t \in Targets}
      BY <3>2, IssuedStays
    <3> QED
      BY <3>1, <3>2 DEF AttachingType
  <2> QED
    BY <1>3, <2>1, <2>2, IssuedStays DEF AttachingAnew
<1>5. \A s \in attached' : Issued(s)'
  <2>1. \A s \in attached : s \in Session /\ Issued(s)
    BY DEF BrowserType, NumbersAreIssued
  <2>2. CASE attached' \subseteq attached
    BY <1>0, <2>1, <2>2
  <2>3. ASSUME NEW g \in attaching, NEW s, NEW new, Granted(g, s, new)
        PROVE  \A r \in attached' : Issued(r)'
    BY <1>0, <1>3, <2>1, <2>3 DEF Granted
  <2>4. attached' \subseteq attached \/ \E g \in attaching : \E s, new : Granted(g, s, new)
    <3>1. ASSUME NEW t \in Targets, OpenTarget(t) \/ CloseTarget(t) \/ ChangePage(t)
          PROVE  attached' \subseteq attached
      BY <3>1 DEF OpenTarget, CloseTarget, ChangePage
    <3>2. ASSUME Handle
          PROVE  attached' = attached
      BY <3>2 DEF Handle
    <3>3. ASSUME NEW g \in attaching, FindWindow(g) \/ LookAgain(g) \/ Answered(g) \/ CheckTracked(g)
                                         \/ AttachFails(g)
          PROVE  attached' = attached
      BY <3>3 DEF FindWindow, LookAgain, Answered, CheckTracked, AttachFails, targetVars
    <3>4. ASSUME NEW g \in attaching, Attach(g)
          PROVE  attached' \subseteq attached \/ \E s, new : Granted(g, s, new)
      BY <3>4, AttachDoes DEF Refused
    <3>5. ASSUME NEW i \in initializing, FindTab(i) \/ AskFrames(i) \/ AskFails(i) \/ AddFrames(i)
          PROVE  attached' \subseteq attached
      BY <3>5 DEF FindTab, AskFrames, AskFails, AddFrames, targetVars
    <3>6. ASSUME \/ RefreshTargets \/ ListTargets \/ TrackListed \/ RemoveUnlisted
          PROVE  attached' = attached
      BY <3>6, RefreshRests DEF StillBrowser
    <3> QED
      BY <3>1, <3>2, <3>3, <3>4, <3>5, <3>6 DEF SurfaceNext, BrowserStep
  <2> QED
    BY <2>2, <2>3, <2>4
<1> QED
  BY <1>2, <1>4, <1>5 DEF NumbersAreIssued

-----------------------------------------------------------------------------
(* What the browser sends. *)

Fresh(new) ==
    /\ new \in Seq(Events) /\ queue' = queue \o new
    /\ \A k \in 1..Len(new), t \in Targets : Tells(new[k], t) => alive[t] # "gone"
    /\ \A j, k \in 1..Len(new) :
        new[k].kind = "destroyed" /\ Tells(new[j], new[k].of) => j < k
    /\ \A t \in Targets : alive[t] # "gone" /\ alive'[t] = "gone" =>
        \E k \in 1..Len(new) : new[k].kind = "destroyed" /\ new[k].of = t
    /\ \A k \in 1..Len(new) : new[k].kind = "destroyed" => alive[new[k].of] # "gone"
    /\ \A k \in 1..Len(new) : new[k].kind = "attached" =>
        Len(new) = 1 /\ \E g \in attaching : Granted(g, new[k].of, new)

(* One event, of a target that is there.                                   *)
LEMMA OneIsFresh ==
    ASSUME NEW new \in Seq(Events), queue' = queue \o new, alive' = alive, Len(new) = 1,
           new[1].kind # "destroyed",
           \A t \in Targets : Tells(new[1], t) => alive[t] # "gone",
           new[1].kind = "attached" => \E g \in attaching : Granted(g, new[1].of, new)
    PROVE  Fresh(new)
BY DEF Fresh

(* So is what a target sends when it closes.                               *)
LEMMA ClosedIsFresh ==
    ASSUME BrowserType, NEW t \in Targets, NEW gone \in SUBSET Targets, NEW new \in Seq(Events),
           Closed(t, gone, new)
    PROVE  Fresh(new)
<1>1. /\ \A u \in gone : alive[u] = "open"
      /\ alive' = [u \in Targets |-> IF u \in gone THEN "gone" ELSE alive[u]]
      /\ queue' = queue \o new
      /\ \A k \in 1..Len(new) : Closing(new[k], gone)
      /\ \A u \in gone : \E k \in 1..Len(new) : new[k].kind = "destroyed" /\ new[k].of = u
      /\ \A j, k \in 1..Len(new) :
            /\ new[k].kind = "destroyed" /\ new[j].kind = "detached" /\ new[j].of[1] = new[k].of
            => j < k
  BY DEF Closed, Closes
<1>2. \A k \in 1..Len(new), u \in Targets : Tells(new[k], u) =>
            new[k].kind = "detached" /\ new[k].of[1] = u /\ u \in gone
  BY <1>1 DEF Closing, Tells, Tracks
<1>3. \A k \in 1..Len(new) : new[k].kind = "destroyed" =>
        new[k].of \in Targets /\ alive[new[k].of] # "gone"
  BY <1>1 DEF Closing
<1>4. \A j, k \in 1..Len(new) :
        new[k].kind = "destroyed" /\ Tells(new[j], new[k].of) => j < k
  <2> SUFFICES ASSUME NEW j \in 1..Len(new), NEW k \in 1..Len(new),
                      new[k].kind = "destroyed", Tells(new[j], new[k].of)
               PROVE  j < k
    OBVIOUS
  <2>1. new[k].of \in Targets
    BY <1>3
  <2>2. new[j].kind = "detached" /\ new[j].of[1] = new[k].of
    BY <1>2, <2>1
  <2> QED
    BY <1>1, <2>2
<1>5. \A u \in Targets : alive[u] # "gone" /\ alive'[u] = "gone" =>
        \E k \in 1..Len(new) : new[k].kind = "destroyed" /\ new[k].of = u
  BY <1>1
<1>6. \A k \in 1..Len(new) : new[k].kind # "attached"
  BY <1>1 DEF Closing
<1>7. \A k \in 1..Len(new), u \in Targets : Tells(new[k], u) => alive[u] # "gone"
  BY <1>1, <1>2
<1> QED
  BY <1>1, <1>3, <1>4, <1>5, <1>6, <1>7 DEF Fresh

(* And what it sends when it opens.                                        *)
LEMMA OpenedIsFresh ==
    ASSUME BrowserType, NEW t \in Targets, NEW new \in Seq(Events), Opened(t, new)
    PROVE  Fresh(new)
<1>1. /\ alive[t] = "none" /\ alive' = [alive EXCEPT ![t] = "open"] /\ queue' = queue \o new
      /\ \A k \in 1..Len(new) : \/ new[k].kind = "created" /\ new[k].of = t
                                \/ new[k].kind = "added"
  BY DEF Opened
<1>2. \A k \in 1..Len(new), u \in Targets : Tells(new[k], u) => u = t
  BY <1>1 DEF Tells, Tracks
<1>3. \A u \in Targets : alive[u] # "gone" => alive'[u] # "gone"
  BY <1>1 DEF BrowserType
<1>4. \A k \in 1..Len(new) : new[k].kind \notin {"attached", "destroyed"}
  BY <1>1
<1>5. \A k \in 1..Len(new), u \in Targets : Tells(new[k], u) => alive[u] # "gone"
  BY <1>1, <1>2
<1> QED
  BY <1>1, <1>3, <1>4, <1>5 DEF Fresh

(* The events that wait stay the same, but for one that is handled or for  *)
(* those that are sent.                                                    *)
LEMMA QueueSteps ==
    ASSUME SurfaceType, BrowserIsSound, SurfaceNext
    PROVE  \/ queue' = queue /\ alive' = alive
           \/ Handle
           \/ \E new : Fresh(new)
<1> USE DEF SurfaceType
<1>1. ASSUME NEW t \in Targets, OpenTarget(t)
      PROVE  \E new : Fresh(new)
  BY <1>1, OpenDoes, OpenedIsFresh
<1>2. ASSUME NEW t \in Targets, CloseTarget(t)
      PROVE  \E new : Fresh(new)
  BY <1>2, CloseDoes, ClosedIsFresh
<1>3. ASSUME NEW t \in Targets, ChangePage(t)
      PROVE  \E new : Fresh(new)
  <2>1. alive[t] = "open" /\ alive' = alive
    BY <1>3, ChangeDoes
  <2>2. PICK new \in Seq(Events) : /\ queue' = queue \o new /\ Len(new) = 1
                                   /\ new[1].kind = "changed" /\ new[1].of = t
    BY <1>3, ChangeDoes
  <2>3. \A u \in Targets : Tells(new[1], u) => alive[u] # "gone"
    BY <2>1, <2>2 DEF Tells, Tracks
  <2> QED
    BY <2>1, <2>2, <2>3, OneIsFresh
<1>4. ASSUME NEW g \in attaching, Attach(g)
      PROVE  (queue' = queue /\ alive' = alive) \/ \E new : Fresh(new)
  <2>1. alive' = alive /\ (Refused(g) \/ \E s, new : Granted(g, s, new))
    BY <1>4, AttachDoes
  <2>2. ASSUME NEW s, NEW new, Granted(g, s, new)
        PROVE  Fresh(new)
    <3>1. /\ alive[g.target] = "open" /\ s \in Session /\ s[1] = g.target
          /\ new \in Seq(Events) /\ queue' = queue \o new
          /\ Len(new) = 1 /\ new[1].kind = "attached" /\ new[1].of = s
      BY <2>2 DEF Granted
    <3>2. \A u \in Targets : Tells(new[1], u) => alive[u] # "gone"
      BY <3>1 DEF Tells, Tracks
    <3> QED
      BY <2>1, <2>2, <3>1, <3>2, OneIsFresh
  <2> QED
    BY <2>1, <2>2 DEF Refused
<1>5. ASSUME NEW i \in initializing, AskFails(i)
      PROVE  (queue' = queue /\ alive' = alive) \/ \E new : Fresh(new)
  <2>1. i.session \in Session
    BY DEF InitializingType
  <2>2. /\ alive' = alive
        /\ \/ queue' = queue
           \/ /\ i.session \in attached
              /\ \E new \in Seq(Events) : /\ queue' = queue \o new /\ Len(new) = 1
                                          /\ new[1].kind = "detached" /\ new[1].of = i.session
    BY <1>5, <2>1, AskFailsDoes
  <2>3. ASSUME NEW new \in Seq(Events), queue' = queue \o new, Len(new) = 1, i.session \in attached,
               new[1].kind = "detached", new[1].of = i.session
        PROVE  Fresh(new)
    <3>1. \A u \in Targets : Tells(new[1], u) => alive[u] # "gone"
      BY <2>3 DEF Tells, Tracks, BrowserIsSound
    <3> QED
      BY <2>2, <2>3, <3>1, OneIsFresh
  <2> QED
    BY <2>2, <2>3
<1>6. ASSUME \/ \E g \in attaching : FindWindow(g) \/ LookAgain(g) \/ Answered(g)
                                       \/ CheckTracked(g) \/ AttachFails(g)
             \/ \E i \in initializing : FindTab(i) \/ AskFrames(i) \/ AddFrames(i)
      PROVE  queue' = queue /\ alive' = alive
  BY <1>6 DEF FindWindow, LookAgain, Answered, CheckTracked, AttachFails, FindTab, AskFrames,
              AddFrames, targetVars
<1>7. ASSUME \/ RefreshTargets \/ ListTargets \/ TrackListed \/ RemoveUnlisted
      PROVE  queue' = queue /\ alive' = alive
  BY <1>7, RefreshRests DEF StillBrowser
<1> QED
  BY <1>1, <1>2, <1>3, <1>4, <1>5, <1>6, <1>7 DEF SurfaceNext, BrowserStep

(* Handling an event takes it from the queue and leaves the browser        *)
(* alone.                                                                  *)
LEMMA HandleShrinks ==
    ASSUME Handle
    PROVE  /\ queue # <<>> /\ queue' = Tail(queue)
           /\ UNCHANGED <<alive, issued, attached, enabled, refresh, stale>>
BY DEF Handle, refreshVars

(* The last of a target comes after what else there is of it.              *)
LEMMA DestroyedStep ==
    ASSUME SurfaceType, BrowserIsSound, DestroyedIsLast, SurfaceNext
    PROVE  DestroyedIsLast'
<1>0. BrowserType
  BY DEF SurfaceType
<1>1. CASE queue' = queue
  BY <1>1 DEF DestroyedIsLast, Tells, Tracks
<1>2. CASE Handle
  <2>1. /\ Len(queue) \in Nat
        /\ \A k \in 1..Len(queue') : k + 1 \in 1..Len(queue) /\ queue'[k] = queue[k + 1]
    BY <1>0, <1>2, HandleShrinks, QueueShrinks
  <2>2. ASSUME NEW j \in 1..Len(queue'), NEW k \in 1..Len(queue'),
               queue'[k].kind = "destroyed", Tells(queue'[j], queue'[k].of)
        PROVE  j < k
    <3>1. j + 1 < k + 1
      BY <2>1, <2>2 DEF DestroyedIsLast
    <3> QED
      BY <3>1
  <2> QED
    BY <2>2 DEF DestroyedIsLast, Tells, Tracks
<1>3. ASSUME NEW new, Fresh(new)
      PROVE  DestroyedIsLast'
  <2> DEFINE n == Len(queue)
  <2>1. /\ \A k \in 1..Len(new), t \in Targets : Tells(new[k], t) => alive[t] # "gone"
        /\ \A j, k \in 1..Len(new) :
              new[k].kind = "destroyed" /\ Tells(new[j], new[k].of) => j < k
    BY <1>3 DEF Fresh
  <2>2. /\ n \in Nat /\ Len(new) \in Nat
        /\ \A k \in 1..Len(queue') :
              \/ k \in 1..n /\ queue'[k] = queue[k]
              \/ /\ k > n /\ k - n \in 1..Len(new)
                 /\ queue'[k] = new[k - n]
    BY <1>0, <1>3, QueueGrows DEF Fresh
  <2>3. \A j, k \in 1..n : queue[k].kind = "destroyed" /\ Tells(queue[j], queue[k].of) => j < k
    BY DEF DestroyedIsLast
  <2>4. \A k \in 1..n : queue[k].kind = "destroyed" => queue[k].of \in Targets /\ alive[queue[k].of] = "gone"
    BY DEF BrowserIsSound, EventIsSound
  <2> HIDE DEF n
  <2>5. ASSUME NEW j \in 1..Len(queue'), NEW k \in 1..Len(queue'),
               queue'[k].kind = "destroyed", Tells(queue'[j], queue'[k].of)
        PROVE  j < k
    <3>1. CASE j \in 1..n /\ queue'[j] = queue[j]
      BY <2>2, <2>3, <2>5, <3>1
    <3>2. CASE j > n /\ j - n \in 1..Len(new) /\ queue'[j] = new[j - n]
      <4>1. CASE k \in 1..n /\ queue'[k] = queue[k]
        BY <2>1, <2>4, <2>5, <3>2, <4>1
      <4>2. CASE k > n /\ k - n \in 1..Len(new) /\ queue'[k] = new[k - n]
        <5>1. j - n < k - n
          BY <2>1, <2>5, <3>2, <4>2
        <5> QED
          BY <2>2, <5>1
      <4> QED
        BY <2>2, <4>1, <4>2
    <3> QED
      BY <2>2, <3>1, <3>2
  <2> QED
    BY <2>5 DEF DestroyedIsLast, Tells, Tracks
<1> QED
  BY <1>1, <1>2, <1>3, QueueSteps

(* What a target that has gone leaves behind. *)
Gone(t) ==
    /\ t \notin stale => t \notin tracking
    /\ t \in Pages /\ t \notin stale => tabs[t].id = 0

(* An event comes when nothing is to come any more.                        *)
LEMMA SettledBefore ==
    ASSUME SurfaceType, BrowserIsSound, DestroyedIsLast, GoneIsQuiet, SurfaceNext,
           NEW t \in Targets, Ended(t)'
    PROVE  /\ \A k \in 1..Len(queue') : ~Tells(queue'[k], t)
           /\ \/ Ended(t)
              \/ /\ Handle /\ Head(queue).kind = "destroyed" /\ Head(queue).of = t
<1>0. BrowserType /\ alive'[t] = "gone"
  BY DEF SurfaceType, Ended
<1>1. CASE queue' = queue /\ alive' = alive
  <2>1. Ended(t)
    BY <1>1, QueueSame DEF Ended
  <2> QED
    BY <1>1, <2>1 DEF GoneIsQuiet
<1>2. CASE Handle
  <2>1. /\ queue # <<>> /\ queue' = Tail(queue) /\ alive' = alive
    BY <1>2, HandleShrinks
  <2>2. /\ Head(queue) = queue[1] /\ Len(queue) \in Nat /\ 1 \in 1..Len(queue)
        /\ \A k \in 1..Len(queue') : k + 1 \in 1..Len(queue) /\ queue'[k] = queue[k + 1]
    BY <1>0, <2>1, QueueShrinks
  <2>3. CASE Ended(t)
    <3>1. \A k \in 1..Len(queue) : ~Tells(queue[k], t)
      BY <2>3 DEF GoneIsQuiet
    <3> QED
      BY <2>2, <2>3, <3>1
  <2>4. CASE Head(queue).kind = "destroyed" /\ Head(queue).of = t
    <3>1. ASSUME NEW k \in 1..Len(queue), Tells(queue[k], t)
          PROVE  FALSE
      <4>1. k < 1
        BY <2>2, <2>4, <3>1 DEF DestroyedIsLast
      <4> QED
        BY <2>2, <4>1
    <3> QED
      BY <1>2, <2>2, <2>4, <3>1
  <2>5. ~Waits("destroyed", t)'
    BY DEF Ended
  <2>6. Waits("destroyed", t) => Head(queue).kind = "destroyed" /\ Head(queue).of = t
    BY <1>0, <2>1, <2>5, WaitsShrinks
  <2>7. alive[t] = "gone"
    BY <1>0, <2>1
  <2> QED
    BY <2>3, <2>4, <2>6, <2>7 DEF Ended
<1>3. ASSUME NEW new, Fresh(new)
      PROVE  /\ \A k \in 1..Len(queue') : ~Tells(queue'[k], t)
             /\ Ended(t)
  <2>1. /\ new \in Seq(Events) /\ queue' = queue \o new
        /\ \A k \in 1..Len(new) : Tells(new[k], t) => alive[t] # "gone"
        /\ alive[t] # "gone" => \E k \in 1..Len(new) : new[k].kind = "destroyed" /\ new[k].of = t
    BY <1>0, <1>3 DEF Fresh
  <2>2. ~Waits("destroyed", t)'
    BY DEF Ended
  <2>3. /\ Waits("destroyed", t) => Waits("destroyed", t)'
        /\ \A k \in 1..Len(new) : Waits(new[k].kind, new[k].of)'
    BY <1>0, <2>1, WaitsGrows
  <2>4. alive[t] = "gone"
    <3>1. ASSUME NEW k \in 1..Len(new), new[k].kind = "destroyed", new[k].of = t
          PROVE  FALSE
      BY <2>2, <2>3, <3>1
    <3> QED
      BY <2>1, <3>1
  <2>5. Ended(t) /\ \A k \in 1..Len(queue) : ~Tells(queue[k], t)
    BY <2>2, <2>3, <2>4 DEF Ended, GoneIsQuiet
  <2>6. \A k \in 1..Len(queue') :
            \/ k \in 1..Len(queue) /\ queue'[k] = queue[k]
            \/ k - Len(queue) \in 1..Len(new) /\ queue'[k] = new[k - Len(queue)]
    BY <1>0, <2>1, QueueGrows
  <2> QED
    BY <2>1, <2>4, <2>5, <2>6
<1> QED
  BY <1>1, <1>2, <1>3, QueueSteps

(* A target that is tracked, or has a tab, had it or is tracked now.       *)
LEMMA GoneFrom ==
    ASSUME SurfaceType, BrowserIsSound, TrackedWasThere, SurfaceNext, NEW t \in Targets, Gone(t)
    PROVE  \/ Gone(t)'
           \/ Handle /\ Tells(Head(queue), t)
           \/ alive[t] # "gone"
<1> USE DEF SurfaceType
<1>0. sessions \in Sessions
  BY DEF TrackedType
<1>1. ASSUME stale \subseteq stale', tracking' \subseteq tracking,
             \A p \in Pages : tabs'[p].id # 0 => tabs[p].id # 0
      PROVE  Gone(t)'
  BY <1>1 DEF Gone
<1>2. ASSUME StillTracked, stale' = stale
      PROVE  Gone(t)'
  BY <1>2 DEF Gone, StillTracked
<1>3. ASSUME NEW u \in Targets, Track(u)
      PROVE  u = t \/ (stale \subseteq stale' => Gone(t)')
  BY <1>3, TrackDoes DEF Gone
<1>4. ASSUME NEW u \in Targets, RemoveTarget(u), stale' = stale
      PROVE  Gone(t)'
  BY <1>1, <1>4, RemoveTargetIsThere
<1>5. ASSUME NEW u \in Targets, OpenTarget(u) \/ CloseTarget(u) \/ ChangePage(u)
      PROVE  Gone(t)'
  <2>1. StillTracked /\ stale' = stale
    BY <1>5, OpenDoes, ChangeDoes
       DEF CloseTarget, trackedVars, tabVars, goVars, refreshVars, StillTracked, StillGoing
  <2> QED
    BY <1>2, <2>1
<1>6. ASSUME Handle
      PROVE  Gone(t)' \/ Tells(Head(queue), t)
  <2>1. PICK e : \/ TrackEvent(e) \/ LookEvent(e) \/ DestroyedEvent(e)
                 \/ AttachedEvent(e) \/ DetachedEvent(e) \/ FrameEvent(e)
    BY <1>6, HandleDoes
  <2>2. Handled(e) /\ stale' = stale /\ e = Head(queue)
    BY <2>1 DEF TrackEvent, LookEvent, DestroyedEvent, AttachedEvent, DetachedEvent, FrameEvent, Handled
  <2>3. CASE TrackEvent(e)
    BY <1>3, <2>2, <2>3 DEF TrackEvent, Tells
  <2>4. CASE LookEvent(e)
    BY <1>2, <2>2, <2>4 DEF LookEvent
  <2>5. CASE DestroyedEvent(e)
    BY <1>4, <2>2, <2>5 DEF DestroyedEvent
  <2>6. CASE AttachedEvent(e) \/ FrameEvent(e)
    BY <1>1, <2>2, <2>6 DEF AttachedEvent, FrameEvent
  <2>7. CASE DetachedEvent(e)
    BY <1>0, <1>1, <2>2, <2>7, RemoveSessionDoes DEF DetachedEvent
  <2> QED
    BY <2>1, <2>3, <2>4, <2>5, <2>6, <2>7
<1>7. ASSUME NEW g \in attaching, FindWindow(g) \/ LookAgain(g)
      PROVE  Gone(t)'
  <2>1. Located(g)
    BY <1>7, LocateDoes
  <2>2. tracking' = tracking /\ stale' = stale /\ \A q \in Pages : tabs'[q].id = tabs[q].id
    BY <2>1, LocateType DEF Located
  <2> QED
    BY <1>1, <2>2
<1>8. ASSUME \/ \E g \in attaching : Attach(g) \/ Answered(g) \/ CheckTracked(g) \/ AttachFails(g)
             \/ \E i \in initializing : FindTab(i) \/ AskFrames(i) \/ AskFails(i) \/ AddFrames(i)
      PROVE  Gone(t)'
  <2>1. tracking' \subseteq tracking /\ tabs' = tabs /\ stale' = stale
    <3> HIDE DEF SurfaceType
    <3> QED
      BY <1>8, GoroutinesDo
  <2> QED
    BY <1>1, <2>1
<1>9. ASSUME RefreshTargets \/ ListTargets
      PROVE  Gone(t)'
  BY <1>2, <1>9, RefreshDoes
<1>10. ASSUME TrackListed
       PROVE  Gone(t)' \/ alive[t] # "gone"
  <2>1. \/ \E u \in refresh.left :
            /\ Track(u)
            /\ stale' = IF alive[u] = "gone" THEN stale \cup {u} ELSE stale
        \/ StillTracked /\ stale' = stale
    BY <1>10, TrackListedDoes
  <2>2. ASSUME NEW u \in refresh.left, Track(u),
               stale' = IF alive[u] = "gone" THEN stale \cup {u} ELSE stale
        PROVE  Gone(t)' \/ alive[t] # "gone"
    <3>1. CASE u = t
      BY <2>2, <3>1 DEF Gone
    <3>2. CASE u # t
      BY <1>3, <2>2, <3>2 DEF RefreshType
    <3> QED
      BY <3>1, <3>2
  <2> QED
    BY <1>2, <2>1, <2>2
<1>11. ASSUME RemoveUnlisted
       PROVE  Gone(t)'
  BY <1>2, <1>4, <1>11, RemoveUnlistedDoes DEF RefreshType
<1> QED
  BY <1>5, <1>6, <1>7, <1>8, <1>9, <1>10, <1>11 DEF SurfaceNext, BrowserStep

(* Every step leaves a target alone that has been destroyed, unless it is  *)
(* stale.                                                                  *)
LEMMA GoneIsQuietStep ==
    ASSUME SurfaceType, BrowserIsSound, TrackedWasThere, DestroyedIsLast, GoneIsQuiet, SurfaceNext
    PROVE  GoneIsQuiet'
<1>1. ASSUME NEW t \in Targets, Ended(t)'
      PROVE  (\A k \in 1..Len(queue') : ~Tells(queue'[k], t)) /\ Gone(t)'
  <2>1. /\ \A k \in 1..Len(queue') : ~Tells(queue'[k], t)
        /\ \/ Ended(t)
           \/ /\ Handle /\ Head(queue).kind = "destroyed" /\ Head(queue).of = t
    BY <1>1, SettledBefore
  <2>2. CASE Ended(t)
    <3>1. Gone(t) /\ alive[t] = "gone" /\ \A k \in 1..Len(queue) : ~Tells(queue[k], t)
      BY <2>2 DEF Gone, GoneIsQuiet, Ended
    <3>2. ASSUME Handle
          PROVE  ~Tells(Head(queue), t)
      BY <3>1, <3>2, HandleShrinks, QueueShrinks DEF SurfaceType
    <3> QED
      BY <2>1, <3>1, <3>2, GoneFrom
  <2>3. CASE Handle /\ Head(queue).kind = "destroyed" /\ Head(queue).of = t
    <3>1. RemoveTarget(t) /\ TrackedType
      BY <2>3 DEF Handle, SurfaceType
    <3>2. /\ t = Iframe \/ tabs[t].id # 0 => t \notin tracking'
          /\ tracking' \subseteq tracking
          /\ t \in Pages => tabs'[t].id = 0
      BY <3>1, RemoveTargetDoes
    <3>3. t \notin tracking'
      BY <3>2, SessionParts DEF TrackedWasThere
    <3> QED
      BY <2>1, <3>2, <3>3 DEF Gone
  <2> QED
    BY <2>1, <2>2, <2>3
<1> QED
  BY <1>1 DEF GoneIsQuiet, Ended, Tells, Tracks, Gone, Waits

-----------------------------------------------------------------------------
(* A session is added once by each. *)

(* Numbers are issued when the browser attaches.                           *)
LEMMA IssuedSame ==
    ASSUME SurfaceNext
    PROVE  issued' = issued \/ \E g \in attaching : Attach(g)
<1>1. ASSUME NEW t \in Targets, OpenTarget(t) \/ CloseTarget(t) \/ ChangePage(t)
      PROVE  issued' = issued
  BY <1>1 DEF OpenTarget, CloseTarget, ChangePage
<1>2. ASSUME \/ \E g \in attaching : FindWindow(g) \/ LookAgain(g) \/ Answered(g)
                                       \/ CheckTracked(g) \/ AttachFails(g)
             \/ \E i \in initializing : FindTab(i) \/ AskFrames(i) \/ AskFails(i) \/ AddFrames(i)
      PROVE  issued' = issued
  BY <1>2 DEF FindWindow, LookAgain, Answered, CheckTracked, AttachFails, FindTab, AskFrames, AskFails,
              AddFrames, targetVars
<1>3. ASSUME \/ RefreshTargets \/ ListTargets \/ TrackListed \/ RemoveUnlisted
      PROVE  issued' = issued
  BY <1>3, RefreshRests DEF StillBrowser
<1> QED
  BY <1>1, <1>2, <1>3, HandleShrinks DEF SurfaceNext, BrowserStep

(* Otherwise no session is added that was not going to be.                 *)
LEMMA PendingFrom ==
    ASSUME SurfaceType, BrowserIsSound, SurfaceNext, issued' = issued
    PROVE  /\ \A g \in attaching' : g.stage = "answered" => g \in attaching
           /\ \A s : Waits("attached", s)' => Waits("attached", s)
<1>1. ASSUME NEW g \in attaching, NEW s, NEW new, Granted(g, s, new)
      PROVE  FALSE
  <2>1. /\ g.target \in Targets /\ issued \in [Targets -> Nat]
        /\ issued' = [issued EXCEPT ![g.target] = @ + 1]
    BY <1>1 DEF Granted, SurfaceType, AttachingType, BrowserType
  <2>2. issued'[g.target] = issued[g.target] + 1 /\ issued[g.target] \in Nat
    BY <2>1
  <2> QED
    BY <2>2
<1>2. \A g \in attaching' : g.stage = "answered" => g \in attaching
  BY <1>1, AttachingFrom DEF AttachingAnew
<1>3. ASSUME NEW s, Waits("attached", s)'
      PROVE  Waits("attached", s)
  <2>0. BrowserType
    BY DEF SurfaceType
  <2>1. CASE queue' = queue
    BY <1>3, <2>1, QueueSame
  <2>2. CASE Handle
    <3>1. queue # <<>> /\ queue' = Tail(queue)
      BY <2>2, HandleShrinks
    <3> QED
      BY <1>3, <2>0, <3>1, WaitsShrinks
  <2>3. ASSUME NEW new, Fresh(new)
        PROVE  Waits("attached", s)
    <3>1. new \in Seq(Events) /\ queue' = queue \o new
          /\ \A k \in 1..Len(new) : new[k].kind # "attached"
      BY <1>1, <2>3 DEF Fresh
    <3>2. Waits("attached", s) \/ \E k \in 1..Len(new) : new[k].kind = "attached" /\ new[k].of = s
      BY <1>3, <2>0, <3>1, WaitsGrows
    <3> QED
      BY <3>1, <3>2
  <2> QED
    BY <2>1, <2>2, <2>3, QueueSteps
<1> QED
  BY <1>2, <1>3

(* A session that the browser has just attached is new.                    *)
LEMMA GrantedIsNew ==
    ASSUME SurfaceType, BrowserIsSound, NumbersAreIssued,
           NEW g \in attaching, NEW s, NEW new, Granted(g, s, new)
    PROVE  /\ s \in Session /\ ~Issued(s) /\ ~Known(s) /\ ~ToCome(s) /\ s \notin attached
           /\ ~Waits("attached", s) /\ ~Waits("detached", s)
           /\ \A i \in initializing : i.session # s
           /\ \A h \in attaching : h.session # s
<1>1. /\ g.target \in Targets /\ issued[g.target] \in Nat
      /\ s \in Session /\ s[1] = g.target /\ s[2] = issued[g.target] + 1
  BY DEF Granted, SurfaceType, AttachingType, BrowserType
<1>2. ~Issued(s)
  BY <1>1 DEF Issued
<1> QED
  BY <1>1, <1>2, WaitsSound DEF NumbersAreIssued, ToCome, Answering

QueuedOnce ==
    \A j, k \in 1..Len(queue) :
        queue[j].kind = "attached" /\ queue[k].kind = "attached" /\ queue[k].of = queue[j].of => j = k
AnsweredOnce ==
    \A g, h \in attaching :
        g.stage = "answered" /\ h.stage = "answered" /\ g.session = h.session => g = h

(* No second event is sent for a session.                                  *)
LEMMA QueuedStep ==
    ASSUME SurfaceType, BrowserIsSound, NumbersAreIssued, AddedOnce, SurfaceNext
    PROVE  QueuedOnce'
<1>0. BrowserType /\ QueuedOnce
  BY DEF SurfaceType, AddedOnce, QueuedOnce
<1>1. CASE queue' = queue
  BY <1>0, <1>1 DEF QueuedOnce
<1>2. CASE Handle
  <2>1. /\ Len(queue) \in Nat
        /\ \A k \in 1..Len(queue') : k + 1 \in 1..Len(queue) /\ queue'[k] = queue[k + 1]
    BY <1>0, <1>2, HandleShrinks, QueueShrinks
  <2>2. ASSUME NEW j \in 1..Len(queue'), NEW k \in 1..Len(queue'),
               queue'[j].kind = "attached", queue'[k].kind = "attached", queue'[k].of = queue'[j].of
        PROVE  j = k
    <3>1. j + 1 = k + 1
      BY <1>0, <2>1, <2>2 DEF QueuedOnce
    <3> QED
      BY <3>1
  <2> QED
    BY <2>2 DEF QueuedOnce
<1>3. ASSUME NEW new, Fresh(new)
      PROVE  QueuedOnce'
  <2> DEFINE n == Len(queue)
  <2>1. \A k \in 1..Len(new) : new[k].kind = "attached" =>
            Len(new) = 1 /\ ~Waits("attached", new[k].of)
    BY <1>3, GrantedIsNew DEF Fresh
  <2>2. /\ n \in Nat /\ Len(new) \in Nat
        /\ \A k \in 1..Len(queue') :
              \/ k \in 1..n /\ queue'[k] = queue[k]
              \/ /\ k > n /\ k - n \in 1..Len(new)
                 /\ queue'[k] = new[k - n]
    BY <1>0, <1>3, QueueGrows DEF Fresh
  <2>3. \A k \in 1..n : queue[k].kind = "attached" => Waits("attached", queue[k].of)
    BY DEF Waits
  <2>4. \A j, k \in 1..n :
            queue[j].kind = "attached" /\ queue[k].kind = "attached" /\ queue[k].of = queue[j].of => j = k
    BY <1>0 DEF QueuedOnce
  <2> HIDE DEF n
  <2>5. ASSUME NEW j \in 1..Len(queue'), NEW k \in 1..Len(queue'),
               queue'[j].kind = "attached", queue'[k].kind = "attached", queue'[k].of = queue'[j].of
        PROVE  j = k
    <3>1. CASE j \in 1..n /\ k \in 1..n /\ queue'[j] = queue[j] /\ queue'[k] = queue[k]
      BY <2>4, <2>5, <3>1
    <3>2. CASE j \in 1..n /\ queue'[j] = queue[j] /\ k - n \in 1..Len(new) /\ queue'[k] = new[k - n]
      BY <2>1, <2>3, <2>5, <3>2
    <3>3. CASE k \in 1..n /\ queue'[k] = queue[k] /\ j - n \in 1..Len(new) /\ queue'[j] = new[j - n]
      BY <2>1, <2>3, <2>5, <3>3
    <3>4. CASE /\ k > n /\ k - n \in 1..Len(new) /\ queue'[k] = new[k - n]
               /\ j > n /\ j - n \in 1..Len(new) /\ queue'[j] = new[j - n]
      <4>1. Len(new) = 1
        BY <2>1, <2>5, <3>4
      <4>2. k - n = 1 /\ j - n = 1
        BY <3>4, <4>1
      <4> QED
        BY <2>2, <4>2
    <3> QED
      BY <2>2, <3>1, <3>2, <3>3, <3>4
  <2> QED
    BY <2>5 DEF QueuedOnce
<1> QED
  BY <1>1, <1>2, <1>3, QueueSteps

(* The event or the answer, whichever comes first, and then the other.     *)
LEMMA AddSessionOnce ==
    ASSUME SurfaceType, AddedOnce, NEW x \in Session, AddSession(x),
           UNCHANGED <<nextTabID, tabs, windows, frames>>,
           \A s : Waits("attached", s)' => Waits("attached", s),
           \A g \in attaching' : g.stage = "answered" => g \in attaching,
           \/ Waits("attached", x) /\ ~Waits("attached", x)'
           \/ Answering(x) /\ ~Answering(x)',
           QueuedOnce'
    PROVE  AddedOnce'
<1>1. \A s : Answering(s)' => Answering(s)
  BY DEF Answering
<1>2. AnsweredOnce'
  BY DEF AddedOnce, AnsweredOnce
<1>3. ASSUME NEW s \in Session, Waits("attached", s)', Answering(s)'
      PROVE  ~Known(s)' /\ \A i \in initializing' : i.session # s
  <2>1. s # x /\ Waits("attached", s) /\ Answering(s)
    BY <1>1, <1>3
  <2> QED
    BY <2>1, AddSessionFrom DEF AddedOnce
<1>4. ASSUME NEW i \in initializing', NEW j \in initializing', i.session = j.session, i # j,
             ToCome(i.session)'
      PROVE  FALSE
  <2>1. ToCome(i.session)
    BY <1>1, <1>4 DEF ToCome
  <2>2. CASE i \in initializing /\ j \in initializing
    BY <1>4, <2>1, <2>2 DEF AddedOnce
  <2>3. initializing' = initializing
        \/ initializing' = initializing \cup {[session |-> x, stage |-> "waiting", tab |-> 0]}
    BY AddSessionDoes DEF SurfaceType, tabVars
  <2>4. ((\E k \in initializing : k.session = x) /\ i.session = x) \/ (i \in initializing /\ j \in initializing)
    BY <1>4, <2>3
  <2>5. CASE (\E k \in initializing : k.session = x) /\ i.session = x
    <3>1. Waits("attached", x) /\ Answering(x)
      BY <1>1, <1>4, <2>5 DEF ToCome
    <3> QED
      BY <2>5, <3>1 DEF AddedOnce
  <2> QED
    BY <2>2, <2>4, <2>5
<1> QED
  BY <1>2, <1>3, <1>4 DEF AddedOnce, QueuedOnce, AnsweredOnce, ToCome, Answering, Waits, Known

(* Whatever adds no session.                                               *)
LEMMA OlderOnce ==
    ASSUME AddedOnce, Older, QueuedOnce',
           \A s : Waits("attached", s)' => Waits("attached", s),
           \A g \in attaching' : g.stage = "answered" => g \in attaching
    PROVE  AddedOnce'
<1>1. \A s : Answering(s)' => Answering(s)
  BY DEF Answering
<1>2. AnsweredOnce'
  BY DEF AddedOnce, AnsweredOnce
<1>3. ASSUME NEW s \in Session, Waits("attached", s)', Answering(s)'
      PROVE  ~Known(s)' /\ \A i \in initializing' : i.session # s
  BY <1>1, <1>3 DEF AddedOnce, Older
<1>4. ASSUME NEW i \in initializing', NEW j \in initializing', i.session = j.session, i # j,
             ToCome(i.session)'
      PROVE  FALSE
  <2>1. ToCome(i.session)
    BY <1>1, <1>4 DEF ToCome
  <2>2. PICK k \in initializing, l \in initializing :
            k # l /\ k.session = i.session /\ l.session = i.session
    BY <1>4 DEF Older
  <2> QED
    BY <2>1, <2>2 DEF AddedOnce
<1> QED
  BY <1>2, <1>3, <1>4 DEF AddedOnce, QueuedOnce, AnsweredOnce, ToCome, Answering, Waits, Known

(* The browser attaches: the session is in the event and in the answer.    *)
LEMMA GrantedOnce ==
    ASSUME SurfaceType, BrowserIsSound, NumbersAreIssued, AddedOnce,
           NEW g \in attaching, NEW s, NEW new, Granted(g, s, new),
           UNCHANGED <<sessions, initializing>>, QueuedOnce'
    PROVE  AddedOnce'
<1>1. /\ s \in Session /\ ~Known(s) /\ ~ToCome(s)
      /\ \A i \in initializing : i.session # s
      /\ \A h \in attaching : h.session # s
  BY GrantedIsNew
<1>2. \A r : Waits("attached", r)' => Waits("attached", r) \/ r = s
  <2>1. new \in Seq(Events) /\ queue' = queue \o new /\ Len(new) = 1 /\ new[1].of = s
    BY DEF Granted
  <2>2. BrowserType
    BY DEF SurfaceType
  <2>3. \A r : Waits("attached", r)' =>
            Waits("attached", r) \/ \E k \in 1..Len(new) : new[k].kind = "attached" /\ new[k].of = r
    BY <2>1, <2>2, WaitsGrows
  <2> QED
    BY <2>1, <2>3
<1>3. \E h : h.session = s /\ \A k \in attaching' : k.stage = "answered" => k \in attaching \/ k = h
  <2> DEFINE h == [g EXCEPT !.stage = "answered", !.session = s]
             f == [g EXCEPT !.stage = "failed"]
  <2>1. h.session = s /\ f.stage = "failed"
    BY DEF SurfaceType, AttachingType
  <2>2. attaching' = (attaching \ {g}) \cup {h} \/ attaching' = (attaching \ {g}) \cup {f}
    BY DEF Granted
  <2> HIDE DEF h, f
  <2> QED
    BY <2>1, <2>2
<1>4. PICK h : h.session = s /\ \A k \in attaching' : k.stage = "answered" => k \in attaching \/ k = h
  BY <1>3
<1>5. AnsweredOnce'
  BY <1>1, <1>4 DEF AddedOnce, AnsweredOnce
<1>6. \A r : Answering(r)' => Answering(r) \/ r = s
  BY <1>4 DEF Answering
<1>7. ASSUME NEW r \in Session, Waits("attached", r)', Answering(r)'
      PROVE  ~Known(r)' /\ \A i \in initializing' : i.session # r
  <2>1. CASE r = s
    BY <1>1, <2>1 DEF Known
  <2>2. CASE r # s
    BY <1>2, <1>6, <1>7, <2>2 DEF AddedOnce, Known
  <2> QED
    BY <2>1, <2>2
<1>8. ASSUME NEW i \in initializing', NEW j \in initializing', i.session = j.session, i # j,
             ToCome(i.session)'
      PROVE  FALSE
  <2>1. i.session # s /\ i \in initializing /\ j \in initializing
    BY <1>1
  <2>2. ToCome(i.session)
    BY <1>2, <1>6, <1>8, <2>1 DEF ToCome
  <2> QED
    BY <1>8, <2>1, <2>2 DEF AddedOnce
<1> QED
  BY <1>5, <1>7, <1>8 DEF AddedOnce, QueuedOnce, AnsweredOnce, ToCome, Answering, Waits, Known

(* Every step keeps each session to one event and one answer.              *)
LEMMA AddedStep ==
    ASSUME SurfaceType, BrowserIsSound, NumbersAreIssued, AddedOnce, SurfaceNext
    PROVE  AddedOnce'
<1>0. QueuedOnce' /\ BrowserType /\ QueuedOnce /\ AnsweredOnce
  BY QueuedStep DEF SurfaceType, AddedOnce, QueuedOnce, AnsweredOnce
<1>1. ASSUME NEW g \in attaching, Attach(g)
      PROVE  AddedOnce'
  <2>1. /\ Refused(g) \/ \E s, new : Granted(g, s, new)
        /\ UNCHANGED <<initializing, sessions>>
    BY <1>1, AttachDoes DEF SurfaceType, StillTracked
  <2>2. CASE Refused(g)
    <3>1. Older
      BY <2>1 DEF Older, Known
    <3>2. queue' = queue /\ attaching' = (attaching \ {g}) \cup {[g EXCEPT !.stage = "failed"]}
      BY <2>2 DEF Refused
    <3>3. [g EXCEPT !.stage = "failed"].stage = "failed"
      BY DEF SurfaceType, AttachingType
    <3>4. \A h \in attaching' : h.stage = "answered" => h \in attaching
      BY <3>2, <3>3
    <3>5. \A s : Waits("attached", s)' => Waits("attached", s)
      BY <3>2, QueueSame
    <3> QED
      BY <1>0, <3>1, <3>4, <3>5, OlderOnce
  <2> QED
    BY <1>0, <2>1, <2>2, GrantedOnce
<1>2. ASSUME issued' = issued
      PROVE  AddedOnce'
  <2>1. /\ \A g \in attaching' : g.stage = "answered" => g \in attaching
        /\ \A s : Waits("attached", s)' => Waits("attached", s)
    BY <1>2, PendingFrom
  <2>2. CASE Older
    BY <1>0, <2>1, <2>2, OlderOnce
  <2>3. ASSUME NEW e, AttachedEvent(e)
        PROVE  AddedOnce'
    <3>1. /\ queue # <<>> /\ queue' = Tail(queue) /\ e = Head(queue) /\ e.kind = "attached"
          /\ e.of \in Session /\ AddSession(e.of) /\ UNCHANGED <<nextTabID, tabs, windows, frames>>
      BY <2>3 DEF AttachedEvent, Handled
    <3>2. /\ e = queue[1] /\ 1 \in 1..Len(queue) /\ Len(queue) \in Nat
          /\ \A k \in 1..Len(queue') : k + 1 \in 1..Len(queue) /\ queue'[k] = queue[k + 1]
      BY <1>0, <3>1, QueueShrinks
    <3>3. Waits("attached", e.of)
      BY <3>1, <3>2 DEF Waits
    <3>4. ~Waits("attached", e.of)'
      <4> SUFFICES ASSUME NEW k \in 1..Len(queue'), queue'[k].kind = "attached", queue'[k].of = e.of
                   PROVE  FALSE
        BY DEF Waits
      <4>1. 1 = k + 1
        BY <1>0, <3>1, <3>2 DEF QueuedOnce
      <4> QED
        BY <4>1
    <3> QED
      BY <1>0, <2>1, <3>1, <3>3, <3>4, AddSessionOnce
  <2>4. ASSUME NEW g \in attaching, Answered(g)
        PROVE  AddedOnce'
    <3>1. /\ g.stage = "answered" /\ AddSession(g.session)
          /\ attaching' = (attaching \ {g}) \cup {[g EXCEPT !.stage = "check"]}
          /\ UNCHANGED <<nextTabID, tabs, windows, frames>>
      BY <2>4, AnsweredDoes
    <3>2. [g EXCEPT !.stage = "check"].stage = "check" /\ g.session \in Session
      BY <3>1 DEF SurfaceType, AttachingType
    <3>3. Answering(g.session)
      BY <3>1 DEF Answering
    <3>4. ~Answering(g.session)'
      <4> SUFFICES ASSUME NEW h \in attaching', h.stage = "answered", h.session = g.session
                   PROVE  FALSE
        BY DEF Answering
      <4>1. h \in attaching /\ h # g
        BY <3>1, <3>2
      <4> QED
        BY <1>0, <3>1, <4>1 DEF AnsweredOnce
    <3> QED
      BY <1>0, <2>1, <3>1, <3>2, <3>3, <3>4, AddSessionOnce
  <2> QED
    BY <2>2, <2>3, <2>4, OlderBut
<1> QED
  BY <1>1, <1>2, IssuedSame

-----------------------------------------------------------------------------
(* Every session that is new has a goroutine that goes after it. *)

Pursued(s) ==
    /\ sessions[s].stage = "new" => \E i \in initializing : i.session = s /\ i.stage = "waiting"
    /\ sessions[s].stage = "initializing" =>
        \E i \in initializing : i.session = s /\ i.stage # "waiting"
    /\ sessions[s].stage = "ready" => sessions[s].tab # 0

(* A session that is bound or forgotten, while its goroutines go on.       *)
LEMMA PursuedStays ==
    ASSUME NEW s \in Session, Pursued(s), Binds(s) \/ Lost(s),
           \A i \in initializing : i.session = s => i \in initializing'
    PROVE  Pursued(s)'
<1>1. CASE Lost(s)
  BY <1>1 DEF Lost, Pursued
<1>2. CASE Binds(s)
  <2>1. /\ sessions'[s].stage = sessions[s].stage
        /\ sessions'[s].tab = sessions[s].tab \/ sessions[s].tab = 0
    BY <1>2 DEF Binds
  <2>2. sessions'[s].stage = "ready" => sessions'[s].tab # 0
    BY <1>2, <2>1 DEF Pursued, Binds
  <2> QED
    BY <2>1, <2>2 DEF Pursued
<1> QED
  BY <1>1, <1>2

(* A session that is added has the goroutine that is started for it.       *)
LEMMA AddSessionPursued ==
    ASSUME SurfaceType, NewIsPursued, NEW x \in Session, AddSession(x),
           UNCHANGED <<nextTabID, tabs, windows, frames>>
    PROVE  NewIsPursued'
<1>1. /\ \A s \in Session : s # x \/ Known(x) => Binds(s)
      /\ \/ Known(x) /\ initializing' = initializing
         \/ /\ ~Known(x)
            /\ initializing' = initializing \cup {[session |-> x, stage |-> "waiting", tab |-> 0]}
            /\ sessions'[x].stage = "new"
  BY AddSessionDoes DEF SurfaceType, tabVars
<1>2. \A s \in Session : Pursued(s)
  BY DEF NewIsPursued, Pursued
<1>3. \A s \in Session : s # x \/ Known(x) => Pursued(s)'
  BY <1>1, <1>2, PursuedStays
<1>4. ASSUME ~Known(x)
      PROVE  Pursued(x)'
  <2> DEFINE c == [session |-> x, stage |-> "waiting", tab |-> 0]
  <2>1. c.session = x /\ c.stage = "waiting"
    OBVIOUS
  <2>2. c \in initializing' /\ sessions'[x].stage = "new"
    BY <1>1, <1>4
  <2> HIDE DEF c
  <2> QED
    BY <2>1, <2>2 DEF Pursued
<1> QED
  BY <1>3, <1>4 DEF NewIsPursued, Pursued

(* What a goroutine does to its own session.                               *)
LEMMA OwnPursued ==
    ASSUME SurfaceType, NEW i \in initializing, NewIsPursued,
           FindTab(i) \/ AskFrames(i) \/ AskFails(i) \/ AddFrames(i)
    PROVE  Pursued(i.session)'
<1> USE DEF SurfaceType
<1> DEFINE x == i.session
<1>0. /\ x \in Session /\ sessions \in Sessions /\ sessions[x].stage \in SessionStages
      /\ i \in [session : Session, stage : {"waiting", "asking", "told"}, tab : Nat]
  BY DEF TrackedType, InitializingType, Sessions
<1>1. Pursued(x)
  BY <1>0 DEF NewIsPursued, Pursued
<1>2. CASE FindTab(i)
  <2>1. i.stage = "waiting" /\ (FoundNothing(i) \/ FoundTab(i) \/ FoundNoTab(i))
    BY <1>2, FindTabDoes
  <2>2. CASE FoundNothing(i)
    <3>1. /\ sessions[x].stage # "new" /\ initializing' = initializing \ {i} /\ Binds(x)
      BY <1>0, <2>2 DEF FoundNothing
    <3>2. sessions'[x].stage = "initializing" =>
            \E k \in initializing' : k.session = x /\ k.stage # "waiting"
      BY <1>1, <2>1, <3>1 DEF Pursued, Binds
    <3>3. sessions'[x].stage = "ready" => sessions'[x].tab # 0
      BY <1>1, <3>1 DEF Pursued, Binds
    <3> QED
      BY <3>1, <3>2, <3>3 DEF Pursued, Binds
  <2>3. CASE FoundTab(i)
    <3> DEFINE j == [i EXCEPT !.stage = "asking", !.tab = sessions'[x].tab]
    <3>1. j.session = x /\ j.stage = "asking"
      BY <1>0
    <3>2. sessions'[x].stage = "initializing" /\ initializing' = (initializing \ {i}) \cup {j}
      BY <2>3 DEF FoundTab
    <3> HIDE DEF j
    <3> QED
      BY <3>1, <3>2 DEF Pursued
  <2>4. CASE FoundNoTab(i)
    BY <1>0, <2>4, RemoveSessionDoes DEF FoundNoTab, Pursued
  <2> QED
    BY <2>1, <2>2, <2>3, <2>4
<1>3. CASE AskFrames(i)
  <2> DEFINE j == [i EXCEPT !.stage = "told"]
  <2>1. j.session = x /\ j.stage = "told"
    BY <1>0
  <2>2. /\ i.stage = "asking" /\ sessions' = sessions
        /\ \/ ~Known(x)
           \/ initializing' = (initializing \ {i}) \cup {j}
    BY <1>3, AskFramesDoes DEF StillTracked
  <2> HIDE DEF j
  <2>3. CASE ~Known(x)
    BY <2>2, <2>3 DEF Known, Pursued
  <2>4. CASE initializing' = (initializing \ {i}) \cup {j}
    BY <1>1, <2>1, <2>2, <2>4 DEF Pursued
  <2> QED
    BY <2>2, <2>3, <2>4
<1>4. CASE AskFails(i)
  BY <1>0, <1>4, AskFailsDoes, RemoveSessionDoes DEF Pursued
<1>5. CASE AddFrames(i)
  <2>1. \/ ~Known(x) /\ sessions' = sessions
        \/ sessions'[x].stage = "ready" /\ sessions'[x].tab # 0
    BY <1>5, AddFramesDoes DEF Framed
  <2> QED
    BY <2>1 DEF Known, Pursued
<1> QED
  BY <1>2, <1>3, <1>4, <1>5

(* Every step leaves a session that is new its goroutine.                  *)
LEMMA PursuedStep ==
    ASSUME SurfaceType, BrowserIsSound, NewIsPursued, SurfaceNext
    PROVE  NewIsPursued'
<1>0. \A s \in Session : Pursued(s)
  BY DEF NewIsPursued, Pursued
<1>1. CASE Rebound /\ initializing' = initializing
  <2>1. \A s \in Session : Pursued(s)'
    BY <1>0, <1>1, PursuedStays DEF Rebound
  <2> QED
    BY <2>1 DEF NewIsPursued, Pursued
<1>2. ASSUME NEW e, AttachedEvent(e)
      PROVE  NewIsPursued'
  BY <1>2, AddSessionPursued DEF AttachedEvent
<1>3. ASSUME NEW g \in attaching, Answered(g)
      PROVE  NewIsPursued'
  BY <1>3, AnsweredDoes, AddSessionPursued DEF SurfaceType, AttachingType
<1>4. ASSUME NEW i \in initializing, FindTab(i) \/ AskFrames(i) \/ AskFails(i) \/ AddFrames(i)
      PROVE  NewIsPursued'
  <2>1. /\ \A s \in Session : s # i.session => Binds(s)
        /\ \A k \in initializing : k # i => k \in initializing'
    BY <1>4, InitializingFrom
  <2>2. \A s \in Session : s # i.session => Pursued(s)'
    BY <1>0, <2>1, PursuedStays
  <2>3. Pursued(i.session)'
    BY <1>4, OwnPursued
  <2> QED
    BY <2>2, <2>3 DEF NewIsPursued, Pursued
<1> QED
  BY <1>1, <1>2, <1>3, <1>4, SessionsKept

-----------------------------------------------------------------------------
(* As long as a page is there, it has one tab. *)

(* A tab that a session may be given.                                      *)
TabKept(s) == Lost(s) \/ sessions'[s].tab \in {sessions[s].tab, TabFor(s[1], tabs', frames')}

(* Steps that bind or lose a session give it no other tab.                 *)
LEMMA KeptOf ==
    ASSUME NEW s \in Session, Binds(s) \/ Lost(s) \/ sessions'[s] = sessions[s]
    PROVE  TabKept(s)
BY DEF Binds, Lost, TabKept

(* Nor does the step that adds it.                                         *)
LEMMA AddSessionKeeps ==
    ASSUME SurfaceType, NEW x \in Session, AddSession(x), UNCHANGED <<nextTabID, tabs, windows, frames>>
    PROVE  /\ \A s \in Session : TabKept(s)
           /\ \A i \in initializing' : i \in initializing \/ i.tab = 0
<1>1. /\ \A s \in Session : s # x \/ Known(x) => Binds(s)
      /\ \/ Known(x) /\ initializing' = initializing
         \/ /\ ~Known(x)
            /\ initializing' = initializing \cup {[session |-> x, stage |-> "waiting", tab |-> 0]}
            /\ sessions'[x].stage = "new" /\ sessions'[x].tab = TabFor(x[1], tabs, frames)
  BY AddSessionDoes DEF SurfaceType, tabVars
<1>2. ~Known(x) => TabKept(x)
  BY <1>1 DEF TabKept
<1> QED
  BY <1>1, <1>2, KeptOf

(* The goroutine takes the tab of its session with it.                     *)
LEMMA OwnKeeps ==
    ASSUME SurfaceType, NEW i \in initializing,
           FindTab(i) \/ AskFrames(i) \/ AskFails(i) \/ AddFrames(i)
    PROVE  /\ TabKept(i.session)
           /\ \A k \in initializing' :
                \/ k \in initializing
                \/ k.session = i.session /\ k.tab \in {i.tab, sessions'[i.session].tab}
<1> USE DEF SurfaceType
<1> DEFINE x == i.session
<1>0. /\ x \in Session /\ sessions \in Sessions
      /\ i \in [session : Session, stage : {"waiting", "asking", "told"}, tab : Nat]
  BY DEF TrackedType, InitializingType
<1>1. CASE FindTab(i)
  <2>1. FoundNothing(i) \/ FoundTab(i) \/ FoundNoTab(i)
    BY <1>1, FindTabDoes
  <2>2. CASE FoundNothing(i)
    BY <1>0, <2>2, KeptOf DEF FoundNothing
  <2>3. CASE FoundTab(i)
    <3> DEFINE j == [i EXCEPT !.stage = "asking", !.tab = sessions'[x].tab]
    <3>1. j.session = x /\ j.tab = sessions'[x].tab
      BY <1>0
    <3>2. initializing' = (initializing \ {i}) \cup {j}
      BY <2>3 DEF FoundTab
    <3>3. TabKept(x)
      BY <2>3 DEF FoundTab, TabKept
    <3> HIDE DEF j
    <3> QED
      BY <3>1, <3>2, <3>3
  <2>4. CASE FoundNoTab(i)
    <3>1. Loses /\ initializing' = initializing \ {i}
      BY <1>0, <2>4, RemoveSessionDoes DEF FoundNoTab
    <3> QED
      BY <1>0, <3>1, KeptOf DEF Loses
  <2> QED
    BY <2>1, <2>2, <2>3, <2>4
<1>2. CASE AskFrames(i)
  <2> DEFINE j == [i EXCEPT !.stage = "told"]
  <2>1. j.session = x /\ j.tab = i.tab
    BY <1>0
  <2>2. /\ sessions' = sessions
        /\ initializing' = initializing \ {i} \/ initializing' = (initializing \ {i}) \cup {j}
    BY <1>2, AskFramesDoes DEF StillTracked
  <2>3. TabKept(x)
    BY <1>0, <2>2, KeptOf
  <2> HIDE DEF j
  <2> QED
    BY <2>1, <2>2, <2>3
<1>3. CASE AskFails(i)
  <2>1. Loses /\ initializing' = initializing \ {i}
    BY <1>0, <1>3, AskFailsDoes, RemoveSessionDoes
  <2> QED
    BY <1>0, <2>1, KeptOf DEF Loses
<1>4. CASE AddFrames(i)
  <2>1. /\ initializing' = initializing \ {i}
        /\ \/ ~Known(x) /\ sessions' = sessions
           \/ Framed(i)
    BY <1>4, AddFramesDoes
  <2>2. TabKept(x)
    BY <1>0, <2>1, KeptOf DEF Framed, TabKept
  <2> QED
    BY <2>1, <2>2
<1> QED
  BY <1>1, <1>2, <1>3, <1>4

(* No step does.                                                           *)
LEMMA TabsKept ==
    ASSUME SurfaceType, BrowserIsSound, SurfaceNext
    PROVE  /\ \A s \in Session : TabKept(s)
           /\ \A k \in initializing' :
                \/ k \in initializing
                \/ k.tab = 0
                \/ k.tab = sessions'[k.session].tab
                \/ \E i \in initializing : k.session = i.session /\ k.tab = i.tab
<1>1. CASE Rebound /\ initializing' = initializing
  BY <1>1, KeptOf DEF Rebound
<1>2. ASSUME NEW x \in Session, AddSession(x), UNCHANGED <<nextTabID, tabs, windows, frames>>
      PROVE  /\ \A s \in Session : TabKept(s)
             /\ \A i \in initializing' : i \in initializing \/ i.tab = 0
  BY <1>2, AddSessionKeeps
<1>3. ASSUME NEW e, AttachedEvent(e)
      PROVE  \E x \in Session : AddSession(x) /\ UNCHANGED <<nextTabID, tabs, windows, frames>>
  BY <1>3 DEF AttachedEvent
<1>4. ASSUME NEW g \in attaching, Answered(g)
      PROVE  \E x \in Session : AddSession(x) /\ UNCHANGED <<nextTabID, tabs, windows, frames>>
  BY <1>4, AnsweredDoes DEF SurfaceType, AttachingType
<1>5. ASSUME NEW i \in initializing, FindTab(i) \/ AskFrames(i) \/ AskFails(i) \/ AddFrames(i)
      PROVE  /\ \A s \in Session : TabKept(s)
             /\ \A k \in initializing' :
                    \/ k \in initializing
                    \/ k.session = i.session /\ k.tab \in {i.tab, sessions'[i.session].tab}
  <2>1. \A s \in Session : s # i.session => Binds(s)
    BY <1>5, InitializingFrom
  <2> QED
    BY <1>5, <2>1, OwnKeeps, KeptOf
<1> QED
  BY <1>1, <1>2, <1>3, <1>4, <1>5, SessionsKept

TrackedAnew(p) == alive[p] # "gone" \/ p \in stale' \/ (Handle /\ Tracks(Head(queue), p))
TabStays(p) ==
    \/ tabs'[p].id = tabs[p].id
    \/ tabs[p].id = 0 /\ TrackedAnew(p)
    \/ tabs'[p].id = 0 /\ alive'[p] = "gone"
FrameFrom(f) ==
    \/ frames'[f] \in {0, frames[f]}
    \/ \E s \in Session : PageOf(s[1]) = PageOf(f) /\ frames'[f] = sessions[s].tab
    \/ \E i \in initializing : i.session[1] = f /\ frames'[f] = i.tab

(* A tab goes with its page; a frame gets the tab of its page.             *)
LEMMA TabsFrom ==
    ASSUME SurfaceType, BrowserIsSound, TrackedWasThere, SurfaceNext, Ages
    PROVE  /\ \A p \in Pages : TabStays(p)
           /\ \A f \in Targets : FrameFrom(f)
<1> USE DEF SurfaceType
<1> DEFINE Fine == (\A p \in Pages : TabStays(p)) /\ (\A f \in Targets : FrameFrom(f))
<1>1. ASSUME frames' = frames, \A p \in Pages : tabs'[p].id = tabs[p].id
      PROVE  Fine
  BY <1>1 DEF TabStays, FrameFrom
<1>2. ASSUME NEW t \in Targets, OpenTarget(t) \/ CloseTarget(t) \/ ChangePage(t)
      PROVE  Fine
  <2>1. StillTracked
    BY <1>2, OpenDoes, ChangeDoes DEF CloseTarget, trackedVars, tabVars, StillTracked
  <2> QED
    BY <1>1, <2>1 DEF StillTracked
<1>3. ASSUME NEW t \in Targets, Track(t), TrackedAnew(t)
      PROVE  Fine
  <2>1. /\ \A p \in Pages : tabs'[p] = tabs[p] \/ (p = t /\ tabs[p].id = 0)
        /\ frames' = frames
    BY <1>3, TrackDoes
  <2> QED
    BY <1>3, <2>1 DEF TabStays, FrameFrom
<1>4. ASSUME NEW t \in Targets, RemoveTarget(t), alive'[t] = "gone"
      PROVE  Fine
  <2>1. /\ \A p \in Pages : tabs'[p] = tabs[p] \/ (p = t /\ tabs'[p] = NoTab)
        /\ \A f \in Targets : frames'[f] \in {0, frames[f]}
    BY <1>4, RemoveTargetDoes
  <2> QED
    BY <1>4, <2>1 DEF TabStays, FrameFrom, NoTab
<1>5. ASSUME Handle
      PROVE  Fine
  <2>1. PICK e : \/ TrackEvent(e) \/ LookEvent(e) \/ DestroyedEvent(e)
                 \/ AttachedEvent(e) \/ DetachedEvent(e) \/ FrameEvent(e)
    BY <1>5, HandleDoes
  <2>2. CASE TrackEvent(e)
    BY <1>3, <1>5, <2>2 DEF TrackEvent, Handled, TrackedAnew
  <2>3. CASE LookEvent(e)
    BY <1>1, <2>3 DEF LookEvent, StillTracked
  <2>4. CASE DestroyedEvent(e)
    BY <1>4, <2>4 DEF DestroyedEvent, Handled, EventIsSound
  <2>5. CASE AttachedEvent(e) \/ DetachedEvent(e)
    BY <1>1, <2>5 DEF AttachedEvent, DetachedEvent
  <2>6. CASE FrameEvent(e)
    <3>1. CASE e.kind = "removed"
      <4>1. tabs' = tabs /\ frames' = [frames EXCEPT ![Iframe] = 0]
        BY <2>6, <3>1 DEF FrameEvent
      <4>2. \A f \in Targets : frames'[f] \in {0, frames[f]}
        BY <4>1 DEF TrackedType
      <4> QED
        BY <4>1, <4>2 DEF TabStays, FrameFrom
    <3>2. CASE e.kind # "removed"
      <4>1. EventIsSound(e) /\ e.kind \in {"added", "navigated"} /\ FrameMoves(e) /\ UNCHANGED tabVars
        BY <2>6, <3>2 DEF FrameEvent, Handled, tabVars
      <4>2. \A f \in Targets : \/ frames'[f] \in {0, frames[f]}
                               \/ \E s \in Session : s[1] = Home /\ frames'[f] = sessions[s].tab
                                                      /\ (f = Home \/ f = Iframe)
        BY <4>1, FrameMovesDoes
      <4>3. \A f \in Targets : FrameFrom(f)
        BY <4>2, SessionParts DEF FrameFrom, PageOf
      <4> QED
        BY <4>1, <4>3 DEF tabVars, TabStays
    <3> QED
      BY <3>1, <3>2
  <2> QED
    BY <2>1, <2>2, <2>3, <2>4, <2>5, <2>6
<1>6. ASSUME NEW g \in attaching, FindWindow(g) \/ LookAgain(g)
      PROVE  Fine
  <2>1. Located(g)
    BY <1>6, LocateDoes
  <2> QED
    BY <1>1, <2>1, LocateType DEF Located
<1>7. ASSUME NEW g \in attaching, Attach(g) \/ Answered(g) \/ CheckTracked(g) \/ AttachFails(g)
      PROVE  Fine
  BY <1>1, <1>7, AttachDoes, AnsweredDoes, CheckDoes, AttachFailsDoes DEF StillTracked
<1>8. ASSUME NEW i \in initializing, FindTab(i) \/ AskFrames(i) \/ AskFails(i)
      PROVE  Fine
  <2>1. i.session \in Session
    BY DEF InitializingType
  <2> QED
    BY <1>1, <1>8, <2>1, FindTabDoes, AskFramesDoes, AskFailsDoes DEF StillTracked
<1>9. ASSUME NEW i \in initializing, AddFrames(i)
      PROVE  Fine
  <2>1. /\ tabs' = tabs
        /\ frames' = frames \/ frames' = [frames EXCEPT ![i.session[1]] = i.tab]
    BY <1>9, AddFramesDoes DEF Framed
  <2>2. \A f \in Targets : frames'[f] = frames[f] \/ (i.session[1] = f /\ frames'[f] = i.tab)
    BY <2>1 DEF TrackedType
  <2> QED
    BY <2>1, <2>2 DEF TabStays, FrameFrom
<1>10. ASSUME \/ RefreshTargets \/ ListTargets \/ TrackListed \/ RemoveUnlisted
       PROVE  Fine
  <2>1. CASE StillTracked
    BY <1>1, <2>1 DEF StillTracked
  <2>2. \A t \in refresh.left : t \in Targets
    BY DEF RefreshType
  <2>3. ASSUME TrackListed, NEW t \in refresh.left,
               stale' = IF alive[t] = "gone" THEN stale \cup {t} ELSE stale
        PROVE  TrackedAnew(t)
    BY <2>3 DEF TrackedAnew
  <2>4. ASSUME RemoveUnlisted, NEW t \in refresh.left
        PROVE  alive'[t] = "gone"
    BY <2>2, <2>4, RemoveUnlistedDoes DEF TrackedWasThere, Ages
  <2> QED
    BY <1>3, <1>4, <1>10, <2>1, <2>2, <2>4, <2>3, RefreshDoes, TrackListedDoes,
       RemoveUnlistedDoes
<1> QED
  BY <1>2, <1>5, <1>6, <1>7, <1>8, <1>9, <1>10 DEF SurfaceNext, BrowserStep

(* Every step keeps the tab of a page the only one of its sessions and     *)
(* frames.                                                                 *)
LEMMA AgreeStep ==
    ASSUME SurfaceType, BrowserIsSound, TrackedWasThere, TabsAgree, SurfaceNext, Ages, InitializingType'
    PROVE  TabsAgree'
<1>1. /\ \A p \in Pages : TabStays(p)
      /\ \A f \in Targets : FrameFrom(f)
      /\ \A s \in Session : TabKept(s)
  BY TabsFrom, TabsKept
<1>2. \A t \in Targets : PageOf(t) \in Pages /\ PageOf(t) \in Targets /\ PageOf(PageOf(t)) = PageOf(t)
  BY SessionParts DEF PageOf
<1> DEFINE Here(t) == alive'[PageOf(t)] # "gone"
<1>3. ASSUME NEW t \in Targets, Here(t)
      PROVE  alive[PageOf(t)] # "gone" /\ \A n \in TabOf(t) : n \in {0, tabs'[PageOf(t)].id}
  BY <1>1, <1>2, <1>3 DEF Ages, TabOf, TabStays
<1>4. ASSUME NEW t \in Targets, Here(t)
      PROVE  frames'[t] \in {0, tabs'[PageOf(t)].id}
  <2>1. frames[t] \in TabOf(t)
    BY <1>3, <1>4 DEF TabsAgree
  <2>2. ASSUME NEW s \in Session, PageOf(s[1]) = PageOf(t)
        PROVE  sessions[s].tab \in TabOf(t)
    <3>1. s[1] \in Targets
      BY SessionParts
    <3> QED
      BY <1>3, <1>4, <2>2, <3>1 DEF TabsAgree, TabOf
  <2>3. ASSUME NEW i \in initializing, i.session[1] = t
        PROVE  i.tab \in TabOf(t)
    BY <1>3, <1>4, <2>3 DEF TabsAgree
  <2>4. FrameFrom(t)
    BY <1>1
  <2>5. frames'[t] = 0 \/ frames'[t] \in TabOf(t)
    BY <2>1, <2>2, <2>3, <2>4 DEF FrameFrom
  <2> QED
    BY <1>3, <1>4, <2>5
<1>5. ASSUME NEW s \in Session, Here(s[1])
      PROVE  sessions'[s].tab \in {0, tabs'[PageOf(s[1])].id}
  <2>1. s[1] \in Targets
    BY SessionParts
  <2>2. sessions[s].tab \in TabOf(s[1])
    BY <1>3, <1>5, <2>1 DEF TabsAgree
  <2>3. TabFor(s[1], tabs', frames') \in {0, tabs'[PageOf(s[1])].id}
    <3>1. s[1] = Iframe => PageOf(Home) = PageOf(s[1]) /\ Home \in Targets
      BY SessionParts DEF PageOf
    <3>2. s[1] = Iframe => frames'[Home] \in {0, tabs'[PageOf(s[1])].id}
      BY <1>4, <1>5, <3>1
    <3>3. s[1] \in Pages => PageOf(s[1]) = s[1]
      BY SessionParts DEF PageOf
    <3>4. frames'[s[1]] \in {0, tabs'[PageOf(s[1])].id}
      BY <1>4, <1>5, <2>1
    <3> QED
      BY <3>2, <3>3, <3>4 DEF TabFor
  <2>4. TabKept(s)
    BY <1>1
  <2> QED
    BY <1>3, <1>5, <2>1, <2>2, <2>3, <2>4 DEF TabKept, Lost
<1>6. ASSUME NEW k \in initializing', Here(k.session[1])
      PROVE  k.tab \in {0, tabs'[PageOf(k.session[1])].id}
  <2>1. k.session \in Session /\ k.session[1] \in Targets
    BY SessionParts DEF InitializingType
  <2>2. \A i \in initializing : i.session = k.session => i.tab \in {0, tabs'[PageOf(k.session[1])].id}
    BY <1>3, <1>6, <2>1 DEF TabsAgree
  <2>3. sessions'[k.session].tab \in {0, tabs'[PageOf(k.session[1])].id}
    BY <1>5, <1>6, <2>1
  <2>4. \/ k \in initializing
        \/ k.tab = 0
        \/ k.tab = sessions'[k.session].tab
        \/ \E i \in initializing : k.session = i.session /\ k.tab = i.tab
    BY TabsKept
  <2> QED
    BY <2>2, <2>3, <2>4
<1> QED
  BY <1>4, <1>5, <1>6 DEF TabsAgree, TabOf

-----------------------------------------------------------------------------
(* Windows. *)

Windowed == WindowsAreReal /\ WindowsAreUsed

(* A page that is tracked anew has no window yet.                          *)
LEMMA TrackWindows ==
    ASSUME TrackedType, AttachingType, Windowed, NEW t \in Targets, Track(t)
    PROVE  Windowed'
<1>1. /\ windows' = windows
      /\ \A p \in Pages : \/ tabs'[p] = tabs[p]
                          \/ tabs[p].id = 0 /\ tabs'[p].id # 0 /\ tabs'[p].window = 0
  BY TrackDoes
<1>2. \A p \in Pages : tabs'[p].window = tabs[p].window
  BY <1>1 DEF Windowed, WindowsAreReal
<1> QED
  BY <1>1, <1>2 DEF Windowed, WindowsAreReal, WindowsAreUsed

(* removeTabLocked: the window goes if it was its last tab.                *)
LEMMA RemoveTargetWindows ==
    ASSUME TrackedType, Windowed, NEW t \in Targets, RemoveTarget(t)
    PROVE  Windowed'
<1>1. CASE t \in Pages /\ tabs[t].id # 0
  <2>1. /\ tabs' = [tabs EXCEPT ![t] = NoTab]
        /\ windows' = Kept(windows, tabs', tabs[t].window)
    BY <1>1 DEF RemoveTarget
  <2>2. /\ tabs'[t] = NoTab /\ \A p \in Pages : p # t => tabs'[p] = tabs[p]
    BY <1>1, <2>1 DEF TrackedType, Tabs
  <2>3. /\ windows' \subseteq windows /\ \A raw \in windows : raw # tabs[t].window => raw \in windows'
        /\ tabs[t].window \in windows' =>
                \/ \E p \in Pages : tabs'[p].id # 0 /\ tabs'[p].window = tabs[t].window
        /\ (\E p \in Pages : tabs'[p].id # 0 /\ tabs'[p].window = tabs[t].window) => windows' = windows
    BY <2>1 DEF Kept
  <2>4. \A p \in Pages : tabs'[p].window # 0 => p # t /\ tabs'[p] = tabs[p] /\ tabs'[p].id # 0
    BY <2>2 DEF NoTab, Windowed, WindowsAreReal
  <2>5. WindowsAreReal'
    BY <2>2, <2>3 DEF NoTab, Windowed, WindowsAreReal
  <2>6. ASSUME NEW p \in Pages, tabs'[p].window # 0
        PROVE  tabs'[p].window \in windows'
    BY <2>3, <2>4, <2>6 DEF Windowed, WindowsAreUsed
  <2>7. ASSUME NEW raw \in windows'
        PROVE  \E p \in Pages : tabs'[p].window = raw
    BY <2>2, <2>3 DEF Windowed, WindowsAreUsed
  <2> QED
    BY <2>5, <2>6, <2>7 DEF Windowed, WindowsAreUsed
<1>2. CASE ~(t \in Pages /\ tabs[t].id # 0)
  <2>1. tabs' = tabs /\ windows' = windows
    BY <1>2 DEF RemoveTarget, tabVars
  <2> QED
    BY <2>1 DEF Windowed, WindowsAreReal, WindowsAreUsed
<1> QED
  BY <1>1, <1>2

(* A page that moves takes its window with it.                             *)
LEMMA AssignWindowWindows ==
    ASSUME TrackedType, Windowed, NEW p \in Pages, NEW raw \in Int \ {0}, AssignWindow(p, raw)
    PROVE  Windowed'
<1>1. CASE tabs[p].id = 0
  BY <1>1 DEF AssignWindow, tabVars, Windowed, WindowsAreReal, WindowsAreUsed
<1>2. CASE tabs[p].id # 0
  <2> DEFINE old == tabs[p].window
  <2>1. /\ tabs' = [tabs EXCEPT ![p].window = raw]
        /\ windows' = IF old = raw THEN windows \cup {raw}
                      ELSE Kept(windows \cup {raw}, tabs', old)
    BY <1>2 DEF AssignWindow
  <2>2. /\ tabs'[p].window = raw /\ tabs'[p].id # 0
        /\ \A q \in Pages : q # p => tabs'[q] = tabs[q]
    BY <1>2, <2>1 DEF TrackedType, Tabs
  <2>3. /\ windows' \subseteq windows \cup {raw} /\ raw \in windows'
        /\ \A w \in windows : w # old => w \in windows'
        /\ old \in windows' => old = raw \/ \E q \in Pages : tabs'[q].id # 0 /\ tabs'[q].window = old
        /\ (\E q \in Pages : tabs'[q].id # 0 /\ tabs'[q].window = old) => windows \subseteq windows'
    BY <2>1 DEF Kept
  <2>4. \A q \in Pages : tabs'[q].window # 0 => tabs'[q].id # 0
    BY <2>2 DEF Windowed, WindowsAreReal
  <2>5. WindowsAreReal'
    BY <2>2, <2>3 DEF Windowed, WindowsAreReal
  <2>6. ASSUME NEW q \in Pages, tabs'[q].window # 0
        PROVE  tabs'[q].window \in windows'
    BY <2>2, <2>3, <2>4, <2>6 DEF Windowed, WindowsAreUsed
  <2>7. ASSUME NEW w \in windows'
        PROVE  \E q \in Pages : tabs'[q].window = w
    BY <2>2, <2>3 DEF Windowed, WindowsAreUsed
  <2> QED
    BY <2>5, <2>6, <2>7 DEF Windowed, WindowsAreUsed
<1> QED
  BY <1>1, <1>2

(* Every step keeps a window just as long as it has a tab.                 *)
LEMMA WindowsStep ==
    ASSUME SurfaceType, BrowserIsSound, Windowed, SurfaceNext
    PROVE  Windowed'
<1> USE DEF SurfaceType
<1>1. ASSUME tabs' = tabs, windows' = windows
      PROVE  Windowed'
  BY <1>1 DEF Windowed, WindowsAreReal, WindowsAreUsed
<1>2. ASSUME NEW t \in Targets, OpenTarget(t) \/ CloseTarget(t) \/ ChangePage(t)
      PROVE  Windowed'
  <2>1. StillTracked
    BY <1>2, OpenDoes, ChangeDoes DEF CloseTarget, trackedVars, tabVars, StillTracked
  <2> QED
    BY <1>1, <2>1 DEF StillTracked
<1>3. ASSUME Handle
      PROVE  Windowed'
  <2>1. PICK e : \/ TrackEvent(e) \/ LookEvent(e) \/ DestroyedEvent(e)
                 \/ AttachedEvent(e) \/ DetachedEvent(e) \/ FrameEvent(e)
    BY <1>3, HandleDoes
  <2>2. CASE TrackEvent(e)
    BY <2>2, TrackWindows DEF TrackEvent
  <2>3. CASE DestroyedEvent(e)
    BY <2>3, RemoveTargetWindows DEF DestroyedEvent
  <2>4. CASE LookEvent(e) \/ AttachedEvent(e) \/ DetachedEvent(e) \/ FrameEvent(e)
    BY <1>1, <2>4 DEF LookEvent, AttachedEvent, DetachedEvent, FrameEvent, StillTracked
  <2> QED
    BY <2>1, <2>2, <2>3, <2>4
<1>4. ASSUME NEW g \in attaching, FindWindow(g) \/ LookAgain(g)
      PROVE  Windowed'
  <2>1. /\ g.target \in Pages
        /\ (\E raw \in Int \ {0} : AssignWindow(g.target, raw)) \/ UNCHANGED tabVars
    BY <1>4, LocateDoes DEF Located
  <2> QED
    BY <1>1, <2>1, AssignWindowWindows DEF tabVars
<1>5. ASSUME \/ \E g \in attaching : Attach(g) \/ Answered(g) \/ CheckTracked(g) \/ AttachFails(g)
             \/ \E i \in initializing : FindTab(i) \/ AskFrames(i) \/ AskFails(i) \/ AddFrames(i)
      PROVE  Windowed'
  <2>1. tabs' = tabs /\ windows' = windows
    <3> HIDE DEF SurfaceType
    <3> QED
      BY <1>5, GoroutinesDo
  <2> QED
    BY <1>1, <2>1
<1>6. ASSUME \/ RefreshTargets \/ ListTargets \/ TrackListed \/ RemoveUnlisted
      PROVE  Windowed'
  <2>1. CASE StillTracked
    BY <1>1, <2>1 DEF StillTracked
  <2>2. \A t \in refresh.left : t \in Targets
    BY DEF RefreshType
  <2> QED
    BY <1>6, <2>1, <2>2, TrackWindows, RemoveTargetWindows, RefreshDoes, TrackListedDoes,
       RemoveUnlistedDoes
<1> QED
  BY <1>2, <1>3, <1>4, <1>5, <1>6 DEF SurfaceNext, BrowserStep

-----------------------------------------------------------------------------
(* What becomes of a session that the browser has detached. *)

(* Targets that are stale stay so.                                         *)
LEMMA StaleGrows ==
    ASSUME SurfaceNext
    PROVE  stale \subseteq stale'
<1>1. CASE TrackListed
  BY <1>1, TrackListedDoes
<1>2. CASE RefreshTargets \/ ListTargets \/ RemoveUnlisted
  BY <1>2, RefreshDoes, RemoveUnlistedDoes
<1>3. CASE ~(RefreshTargets \/ ListTargets \/ TrackListed \/ RemoveUnlisted)
  BY <1>3 DEF SurfaceNext, BrowserStep, OpenTarget, CloseTarget, ChangePage, Handle, FindWindow,
              LookAgain, Attach, Answered, CheckTracked, AttachFails, FindTab, AskFrames, AskFails,
              AddFrames, goVars, refreshVars
<1> QED
  BY <1>1, <1>2, <1>3

(* A session has frames only if it was attached when it asked for them.    *)
LEMMA NeverStays ==
    ASSUME SurfaceType, BrowserIsSound, SurfaceNext, NEW s \in Session, s \notin attached, Never(s)
    PROVE  Never(s)'
<1> USE DEF SurfaceType
<1>1. CASE Rebound /\ initializing' = initializing
  BY <1>1 DEF Rebound, Binds, Lost, Never
<1>2. ASSUME NEW x \in Session, AddSession(x), UNCHANGED <<nextTabID, tabs, windows, frames>>
      PROVE  Never(s)'
  <2> DEFINE c == [session |-> x, stage |-> "waiting", tab |-> 0]
  <2>1. /\ s # x \/ Known(x) => Binds(s)
        /\ \/ Known(x) /\ initializing' = initializing
           \/ /\ ~Known(x) /\ initializing' = initializing \cup {c} /\ sessions'[x].stage = "new"
    BY <1>2, AddSessionDoes DEF tabVars
  <2>2. c.stage = "waiting"
    OBVIOUS
  <2> HIDE DEF c
  <2>3. sessions'[s].stage # "ready"
    BY <2>1 DEF Binds, Never
  <2> QED
    BY <2>1, <2>2, <2>3 DEF Never
<1>3. ASSUME NEW i \in initializing, FindTab(i) \/ AskFrames(i) \/ AskFails(i) \/ AddFrames(i)
      PROVE  Never(s)'
  <2>0. /\ i.session \in Session /\ sessions \in Sessions
        /\ i \in [session : Session, stage : {"waiting", "asking", "told"}, tab : Nat]
    BY DEF InitializingType, TrackedType
  <2>1. s # i.session => Binds(s)
    BY <1>3, InitializingFrom
  <2>2. CASE s # i.session
    <3>1. \/ initializing' = initializing \ {i}
          \/ \E j : j.session = i.session /\ initializing' = (initializing \ {i}) \cup {j}
      BY <1>3, InitializingFrom
    <3> QED
      BY <2>1, <2>2, <3>1 DEF Never, Binds
  <2>3. CASE s = i.session /\ FindTab(i)
    <3>1. FoundNothing(i) \/ FoundTab(i) \/ FoundNoTab(i)
      BY <2>3, FindTabDoes
    <3>2. CASE FoundNothing(i)
      BY <3>2 DEF FoundNothing, Never, Binds
    <3>3. CASE FoundTab(i)
      <4> DEFINE j == [i EXCEPT !.stage = "asking", !.tab = sessions'[i.session].tab]
      <4>1. j.stage = "asking"
        BY <2>0
      <4>2. sessions'[s].stage = "initializing" /\ initializing' = (initializing \ {i}) \cup {j}
        BY <2>3, <3>3 DEF FoundTab
      <4> HIDE DEF j
      <4> QED
        BY <4>1, <4>2 DEF Never
    <3>4. CASE FoundNoTab(i)
      BY <2>0, <2>3, <3>4, RemoveSessionDoes DEF FoundNoTab, Never
    <3> QED
      BY <3>1, <3>2, <3>3, <3>4
  <2>4. CASE s = i.session /\ AskFrames(i)
    BY <2>4, AskFramesDoes DEF Never, StillTracked
  <2>5. CASE s = i.session /\ AskFails(i)
    BY <2>0, <2>5, AskFailsDoes, RemoveSessionDoes DEF Never
  <2>6. CASE s = i.session /\ AddFrames(i)
    BY <2>6, AddFramesDoes DEF Never
  <2> QED
    BY <1>3, <2>2, <2>3, <2>4, <2>5, <2>6
<1> QED
  BY <1>1, <1>2, <1>3, SessionsKept, AnsweredDoes DEF AttachedEvent, AttachingType

(* A session that gets known is added by its event or by its answer, and   *)
(* to the tab of its target.                                               *)
AddedNow(s) ==
    \/ \E e : AttachedEvent(e) /\ e.of = s
    \/ \E g \in attaching : Answered(g) /\ g.session = s

(* There is no other way for a session to get known.                       *)
LEMMA KnownAnew ==
    ASSUME SurfaceType, BrowserIsSound, SurfaceNext, NEW s \in Session, ~Known(s), Known(s)'
    PROVE  /\ AddedNow(s)
           /\ sessions'[s].tab = TabFor(s[1], tabs', frames')
<1> USE DEF SurfaceType
<1>1. ASSUME NEW x \in Session, AddSession(x), UNCHANGED <<nextTabID, tabs, windows, frames>>
      PROVE  x = s /\ sessions'[s].tab = TabFor(s[1], tabs', frames')
  <2>1. x = s
    BY <1>1, AddSessionFrom
  <2> QED
    BY <1>1, <2>1, AddSessionDoes DEF tabVars
<1>2. ASSUME NEW e, AttachedEvent(e)
      PROVE  AddedNow(s) /\ sessions'[s].tab = TabFor(s[1], tabs', frames')
  BY <1>1, <1>2 DEF AttachedEvent, AddedNow
<1>3. ASSUME NEW g \in attaching, Answered(g)
      PROVE  AddedNow(s) /\ sessions'[s].tab = TabFor(s[1], tabs', frames')
  BY <1>1, <1>3, AnsweredDoes DEF AttachingType, AddedNow
<1> QED
  BY <1>2, <1>3, OlderBut DEF Older

(* What is to come of a session came with it, or was to come before.       *)
LEMMA PendingStays ==
    ASSUME SurfaceType, BrowserIsSound, NumbersAreIssued, SurfaceNext,
           NEW s \in Session, Issued(s), (ToCome(s) \/ Known(s))'
    PROVE  ToCome(s) \/ Known(s)
<1> USE DEF SurfaceType
<1>1. ASSUME Known(s)', ~Known(s)
      PROVE  ToCome(s)
  <2>1. AddedNow(s)
    BY <1>1, KnownAnew
  <2>2. ASSUME NEW e, AttachedEvent(e), e.of = s
        PROVE  Waits("attached", s)
    <3>1. queue # <<>> /\ e = Head(queue) /\ e.kind = "attached" /\ queue' = Tail(queue)
      BY <2>2 DEF AttachedEvent, Handled
    <3>2. Head(queue) = queue[1] /\ 1 \in 1..Len(queue)
      BY <3>1, QueueShrinks
    <3> QED
      BY <2>2, <3>1, <3>2 DEF Waits
  <2> QED
    BY <2>1, <2>2, AnsweredDoes DEF AddedNow, ToCome, Answering
<1>2. ASSUME ToCome(s)', issued' = issued
      PROVE  ToCome(s)
  BY <1>2, PendingFrom DEF ToCome, Answering
<1>3. ASSUME ToCome(s)', NEW g \in attaching, NEW r, NEW new, Granted(g, r, new)
      PROVE  ToCome(s)
  <2>1. r # s
    BY <1>3, GrantedIsNew
  <2>2. /\ new \in Seq(Events) /\ queue' = queue \o new /\ Len(new) = 1 /\ new[1].of = r
    BY <1>3 DEF Granted
  <2>3. Waits("attached", s)' => Waits("attached", s)
    BY <2>1, <2>2, WaitsGrows
  <2>4. g \in [target : Targets, tab : Nat, session : {<<t, 0>> : t \in Targets} \cup Session,
               stage : {"window", "look", "attach", "answered", "check", "failed"}]
    BY DEF AttachingType
  <2> DEFINE h == [g EXCEPT !.stage = "answered", !.session = r]
             f == [g EXCEPT !.stage = "failed"]
  <2>5. h.session = r /\ f.stage = "failed"
    BY <2>4
  <2>6. attaching' = (attaching \ {g}) \cup {h} \/ attaching' = (attaching \ {g}) \cup {f}
    BY <1>3 DEF Granted
  <2> HIDE DEF h, f
  <2>7. Answering(s)' => Answering(s)
    BY <2>1, <2>5, <2>6 DEF Answering
  <2> QED
    BY <1>3, <2>3, <2>7 DEF ToCome
<1>4. issued' = issued \/ \E g \in attaching : \E r, new : Granted(g, r, new)
  BY IssuedSame, AttachDoes DEF Refused
<1> QED
  BY <1>1, <1>2, <1>3, <1>4

(* What waits of a target that has gone.                                   *)
LEMMA GoneWaits ==
    ASSUME SurfaceType, BrowserIsSound, SurfaceNext, NEW s \in Session, alive[s[1]] = "gone"
    PROVE  /\ Waits("destroyed", s[1])' => Waits("destroyed", s[1])
           /\ LateEnd(s) => LateEnd(s)'
           /\ Waits("detached", s) =>
                \/ Waits("detached", s)'
                \/ Handle /\ Head(queue).kind = "detached" /\ Head(queue).of = s
           /\ LateEnd(s) /\ Handle /\ Tracks(Head(queue), s[1]) => Waits("detached", s)'
<1> USE DEF SurfaceType
<1>1. CASE queue' = queue /\ alive' = alive
  <2>1. ~Handle
    <3>1. ASSUME Handle
          PROVE  FALSE
      <4>1. queue # <<>> /\ queue' = Tail(queue)
        BY <3>1, HandleShrinks
      <4>2. Len(queue') = Len(queue) - 1 /\ Len(queue) \in Nat
        BY <4>1 DEF BrowserType
      <4> QED
        BY <1>1, <4>2
    <3> QED
      BY <3>1
  <2> QED
    BY <1>1, <2>1, QueueSame
<1>2. CASE Handle
  <2>1. queue # <<>> /\ queue' = Tail(queue)
    BY <1>2, HandleShrinks
  <2> QED
    BY <1>2, <2>1, WaitsShrinks
<1>3. ASSUME NEW new, Fresh(new)
      PROVE  /\ Waits("destroyed", s[1])' => Waits("destroyed", s[1])
             /\ LateEnd(s) => LateEnd(s)'
             /\ Waits("detached", s) => Waits("detached", s)'
             /\ ~Handle
  <2>1. /\ new \in Seq(Events) /\ queue' = queue \o new
        /\ \A k \in 1..Len(new), t \in Targets : Tells(new[k], t) => alive[t] # "gone"
        /\ \A k \in 1..Len(new) : new[k].kind = "destroyed" => alive[new[k].of] # "gone"
    BY <1>3 DEF Fresh
  <2>2. Waits("detached", s) => Waits("detached", s)'
    BY <2>1, WaitsGrows
  <2>3. Waits("destroyed", s[1])' =>
            Waits("destroyed", s[1]) \/ \E k \in 1..Len(new) : new[k].kind = "destroyed" /\ new[k].of = s[1]
    <3>1. \A kind, x : Waits(kind, x)' =>
            Waits(kind, x) \/ \E k \in 1..Len(new) : new[k].kind = kind /\ new[k].of = x
      BY <2>1, WaitsGrows
    <3> QED
      BY <3>1
  <2>4. LateEnd(s) /\ (\A k \in 1..Len(new) : ~Tracks(new[k], s[1])) => LateEnd(s)'
    BY <2>1, WaitsGrows
  <2>5. \A k \in 1..Len(new) : ~Tracks(new[k], s[1])
    BY <2>1, SessionParts DEF Tells
  <2>6. ~Handle
    <3>1. ASSUME Handle
          PROVE  FALSE
      <4>1. queue # <<>> /\ queue' = Tail(queue)
        BY <3>1, HandleShrinks
      <4>2. Len(queue') = Len(queue) - 1 /\ Len(queue) \in Nat
        BY <4>1 DEF BrowserType
      <4>3. Len(queue') = Len(queue) + Len(new) /\ Len(new) \in Nat
        BY <2>1 DEF BrowserType
      <4> QED
        BY <4>2, <4>3
    <3> QED
      BY <3>1
  <2> QED
    BY <2>1, <2>2, <2>3, <2>4, <2>5, <2>6
<1> QED
  BY <1>1, <1>2, <1>3, QueueSteps

(* A goroutine that is to look again does so.                              *)
LEMMA CheckingStays ==
    ASSUME SurfaceType, BrowserIsSound, SurfaceNext, NEW h \in attaching, h.stage = "check"
    PROVE  h \in attaching' \/ CheckTracked(h)
<1> USE DEF SurfaceType
<1>1. ASSUME NEW t \in Targets, OpenTarget(t) \/ CloseTarget(t) \/ ChangePage(t)
      PROVE  h \in attaching'
  BY <1>1 DEF OpenTarget, CloseTarget, ChangePage, goVars
<1>2. ASSUME NEW t \in Targets, Track(t)
      PROVE  h \in attaching'
  BY <1>2, TrackDoes
<1>3. ASSUME Handle
      PROVE  h \in attaching'
  <2>1. PICK e : \/ TrackEvent(e) \/ LookEvent(e) \/ DestroyedEvent(e)
                 \/ AttachedEvent(e) \/ DetachedEvent(e) \/ FrameEvent(e)
    BY <1>3, HandleDoes
  <2>2. CASE TrackEvent(e)
    BY <1>2, <2>2 DEF TrackEvent
  <2>3. CASE ~TrackEvent(e)
    BY <2>1, <2>3 DEF LookEvent, DestroyedEvent, AttachedEvent, DetachedEvent, FrameEvent
  <2> QED
    BY <2>2, <2>3
<1>4. ASSUME NEW g \in attaching, FindWindow(g) \/ LookAgain(g)
      PROVE  h \in attaching'
  BY <1>4, LocateDoes DEF Located
<1>5. ASSUME NEW g \in attaching, Attach(g)
      PROVE  h \in attaching'
  BY <1>5, AttachDoes DEF Refused, Granted
<1>6. ASSUME NEW g \in attaching, Answered(g) \/ AttachFails(g)
      PROVE  h \in attaching'
  BY <1>6, AnsweredDoes, AttachFailsDoes
<1>7. ASSUME NEW g \in attaching, CheckTracked(g)
      PROVE  h \in attaching' \/ CheckTracked(h)
  BY <1>7, CheckDoes
<1>8. ASSUME NEW i \in initializing, FindTab(i) \/ AskFrames(i) \/ AskFails(i) \/ AddFrames(i)
      PROVE  h \in attaching'
  BY <1>8, InitializingFrom
<1>9. ASSUME RefreshTargets \/ ListTargets \/ TrackListed \/ RemoveUnlisted
      PROVE  h \in attaching'
  BY <1>2, <1>9, RefreshDoes, TrackListedDoes, RemoveUnlistedDoes DEF RefreshType
<1> QED
  BY <1>1, <1>3, <1>4, <1>5, <1>6, <1>7, <1>8, <1>9 DEF SurfaceNext, BrowserStep

(* How the browser comes to have detached a session.                       *)
LEMMA DetachedFrom ==
    ASSUME SurfaceType, BrowserIsSound, NumbersAreIssued, SurfaceNext,
           NEW s \in Session, Issued(s)', s \notin attached'
    PROVE  /\ Issued(s)
           /\ \/ s \notin attached
              \/ \E t \in Targets : CloseTarget(t)
              \/ \E i \in initializing : AskFails(i) /\ i.session = s
<1> USE DEF SurfaceType
<1>1. ASSUME NEW g \in attaching, NEW r, NEW new, Granted(g, r, new)
      PROVE  Issued(s) /\ s \notin attached
  <2>1. /\ g.target \in Targets /\ r \in Session /\ r[1] = g.target /\ r[2] = issued[g.target] + 1
        /\ issued' = [issued EXCEPT ![g.target] = @ + 1] /\ attached' = attached \cup {r}
    BY <1>1 DEF Granted, AttachingType
  <2>2. s # r /\ s \notin attached
    BY <2>1
  <2>3. s[1] = r[1] => s[2] # r[2]
    BY <2>1, <2>2, SessionParts
  <2>4. s[2] \in Nat /\ s[1] \in Targets /\ issued[s[1]] \in Nat
    BY SessionParts DEF BrowserType
  <2>5. issued'[s[1]] = IF s[1] = r[1] THEN r[2] ELSE issued[s[1]]
    BY <2>1, <2>4 DEF BrowserType
  <2>6. s[2] <= issued'[s[1]]
    BY DEF Issued
  <2>7. Issued(s)
    BY <2>1, <2>3, <2>4, <2>5, <2>6, SessionParts DEF Issued
  <2> QED
    BY <2>2, <2>7
<1>2. issued' = issued \/ \E g \in attaching : \E r, new : Granted(g, r, new)
  BY IssuedSame, AttachDoes DEF Refused
<1>3. issued' = issued => Issued(s)
  BY DEF Issued
<1>4. CASE attached' = attached
  BY <1>1, <1>2, <1>3, <1>4
<1>5. ASSUME NEW i \in initializing, AskFails(i)
      PROVE  s \notin attached \/ i.session = s
  BY <1>5, AskFailsDoes DEF InitializingType
<1>6. \/ attached' = attached
      \/ \E t \in Targets : CloseTarget(t)
      \/ \E g \in attaching : Attach(g)
      \/ \E i \in initializing : AskFails(i)
  BY DEF SurfaceNext, BrowserStep, OpenTarget, ChangePage, Handle, FindWindow,
         LookAgain, Answered, CheckTracked, AttachFails, FindTab, AskFrames,
         AddFrames, RefreshTargets, ListTargets, TrackListed, RemoveUnlisted, targetVars
<1>7. ASSUME NEW g \in attaching, Attach(g)
      PROVE  s \notin attached
  BY <1>1, <1>7, AttachDoes DEF Refused
<1> QED
  BY <1>1, <1>2, <1>3, <1>4, <1>5, <1>6, <1>7

(* What DetachedGoes says of one session.                                  *)
GoesAway(s) == OpenGoes(s) /\ ClosedGoes(s) /\ SettledGoes(s)

(* A session that was detached before: while its target is open.           *)
LEMMA OpenGoesOn ==
    ASSUME SurfaceType, BrowserIsSound, NumbersAreIssued, SurfaceNext, Ages,
           NEW s \in Session, Issued(s), s \notin attached, GoesAway(s)
    PROVE  OpenGoes(s)'
<1> SUFFICES ASSUME alive'[s[1]] = "open", (ToCome(s) \/ Known(s))'
             PROVE  Never(s)'
  BY DEF OpenGoes
<1>1. s[1] \in Targets /\ s[2] \in Nat /\ s[2] >= 1
  BY SessionParts
<1>2. alive[s[1]] = "open"
  <2>1. alive[s[1]] # "none"
    BY <1>1 DEF BrowserIsSound, Issued
  <2>2. alive[s[1]] # "gone"
    BY <1>1 DEF Ages
  <2> QED
    BY <1>1, <2>1, <2>2 DEF SurfaceType, BrowserType
<1>3. ToCome(s) \/ Known(s)
  BY PendingStays
<1>4. Never(s)
  BY <1>2, <1>3 DEF GoesAway, OpenGoes
<1> QED
  BY <1>4, NeverStays

(* While the end of its target waits: the tab it has, if it is known.      *)
LEMMA TabGoesOn ==
    ASSUME SurfaceType, BrowserIsSound, TrackedWasThere, NumbersAreIssued, SurfaceNext, Ages,
           NEW s \in Session, s[1] \in Pages, s[1] \notin stale', alive[s[1]] = "gone",
           LateEnd(s), Known(s)',
           Known(s) => \/ Waits("detached", s)
                       \/ tabs[s[1]].id = 0
                       \/ tabs[s[1]].id = sessions[s].tab
    PROVE  Waits("detached", s)' \/ tabs'[s[1]].id \in {0, sessions'[s].tab}
<1> DEFINE p == s[1]
<1>1. /\ sessions' \in Sessions /\ tabs' \in Tabs /\ frames' \in [Targets -> Nat]
      /\ sessions \in Sessions
  BY TypeStep DEF SurfaceType, TrackedType
<1>2. tabs'[p].id # 0 => TabFor(p, tabs', frames') = tabs'[p].id
  BY DEF TabFor
<1>3. CASE ~Known(s)
  BY <1>2, <1>3, KnownAnew
<1>4. CASE Known(s) /\ Waits("detached", s)
  <2>1. ASSUME Handle, Head(queue).kind = "detached", Head(queue).of = s
        PROVE  FALSE
    <3>1. RemoveSessions({s})
      BY <2>1 DEF Handle
    <3> QED
      BY <1>1, <3>1, RemoveSessionDoes DEF Known
  <2> QED
    BY <1>4, <2>1, GoneWaits
<1>5. CASE Known(s) /\ tabs[p].id \in {0, sessions[s].tab}
  <2>1. TabStays(p) /\ TabKept(s)
    BY TabsFrom, TabsKept
  <2>2. ~Lost(s)
    BY DEF Lost, Known
  <2>3. CASE tabs'[p].id = tabs[p].id
    BY <1>2, <1>5, <2>1, <2>2, <2>3 DEF TabKept
  <2>4. CASE TrackedAnew(p)
    BY <2>4, GoneWaits DEF TrackedAnew
  <2> QED
    BY <2>1, <2>3, <2>4 DEF TabStays
<1> QED
  BY <1>3, <1>4, <1>5

(* So it is for a session that was detached before, while the end waits.   *)
LEMMA ClosedGoesOn ==
    ASSUME SurfaceType, BrowserIsSound, TrackedWasThere, NumbersAreIssued, SurfaceNext, Ages,
           NEW s \in Session, Issued(s), s \notin attached, GoesAway(s), s[1] \notin stale'
    PROVE  ClosedGoes(s)'
<1> SUFFICES ASSUME s[1] \in Pages, alive'[s[1]] = "gone", Waits("destroyed", s[1])',
                    (ToCome(s) \/ Known(s))', ~Never(s)'
             PROVE  /\ LateEnd(s)'
                    /\ Known(s)' => Waits("detached", s)' \/ tabs'[s[1]].id \in {0, sessions'[s].tab}
  BY DEF ClosedGoes
<1>1. s[1] \in Targets /\ s[2] \in Nat /\ s[2] >= 1
  BY SessionParts
<1>2. ToCome(s) \/ Known(s)
  BY PendingStays
<1>3. ~Never(s)
  BY NeverStays
<1>4. alive[s[1]] = "gone"
  <2>1. alive[s[1]] # "none"
    BY <1>1 DEF BrowserIsSound, Issued
  <2>2. alive[s[1]] # "open"
    BY <1>2, <1>3 DEF GoesAway, OpenGoes
  <2> QED
    BY <1>1, <2>1, <2>2 DEF SurfaceType, BrowserType
<1>5. Waits("destroyed", s[1])
  BY <1>4, GoneWaits
<1>6. /\ LateEnd(s)
      /\ Known(s) => \/ Waits("detached", s)
                     \/ tabs[s[1]].id = 0
                     \/ tabs[s[1]].id = sessions[s].tab
  BY <1>2, <1>3, <1>4, <1>5 DEF GoesAway, ClosedGoes
<1>7. LateEnd(s)'
  BY <1>4, <1>6, GoneWaits
<1> QED
  BY <1>4, <1>6, <1>7, TabGoesOn

(* Once its target is destroyed.                                           *)
LEMMA SettledGoesOn ==
    ASSUME SurfaceType, BrowserIsSound, DestroyedIsLast, GoneIsQuiet, SurfaceNext,
           NEW s \in Session, s \notin attached, GoesAway(s), s[1] \notin stale'
    PROVE  SettledGoes(s)'
<1> SUFFICES ASSUME Ended(s[1])', Known(s)'
             PROVE  Never(s)' \/ Checking(s)'
  BY DEF SettledGoes
<1> USE DEF SurfaceType
<1>0. /\ s[1] \in Targets /\ s[1] \notin stale /\ sessions \in Sessions
  BY SessionParts, StaleGrows DEF TrackedType
<1>1. CASE Never(s)
  BY <1>1, NeverStays
<1>2. CASE Ended(s[1]) /\ Known(s) /\ Checking(s)
  <2>1. PICK h \in attaching : h.stage = "check" /\ h.session = s
    BY <1>2 DEF Checking
  <2>2. CASE h \in attaching'
    BY <2>1, <2>2 DEF Checking
  <2>3. CASE CheckTracked(h)
    <3>1. h.target = s[1] /\ h.target \notin tracking
      BY <1>0, <1>2, <2>1 DEF AttachingType, GoneIsQuiet
    <3>2. RemoveSessions({s})
      BY <2>1, <2>3, <3>1, CheckDoes
    <3> QED
      BY <1>0, <3>2, RemoveSessionDoes DEF Known
  <2> QED
    BY <2>1, <2>2, <2>3, CheckingStays
<1>3. CASE Ended(s[1]) /\ ~Known(s)
  <2>1. AddedNow(s)
    BY <1>3, KnownAnew
  <2>2. ASSUME NEW e, AttachedEvent(e), e.of = s
        PROVE  FALSE
    <3>1. queue # <<>> /\ e = Head(queue) /\ e.kind = "attached" /\ queue' = Tail(queue)
      BY <2>2 DEF AttachedEvent, Handled
    <3>2. Head(queue) = queue[1] /\ 1 \in 1..Len(queue)
      BY <3>1, QueueShrinks
    <3> QED
      BY <1>0, <1>3, <2>2, <3>1, <3>2 DEF GoneIsQuiet, Tells
  <2>3. ASSUME NEW g \in attaching, Answered(g), g.session = s
        PROVE  Checking(s)'
    <3>1. g \in [target : Targets, tab : Nat, session : {<<t, 0>> : t \in Targets} \cup Session,
                 stage : {"window", "look", "attach", "answered", "check", "failed"}]
      BY DEF AttachingType
    <3> DEFINE h == [g EXCEPT !.stage = "check"]
    <3>2. h.stage = "check" /\ h.session = s
      BY <2>3, <3>1
    <3>3. h \in attaching'
      BY <2>3, AnsweredDoes
    <3> HIDE DEF h
    <3> QED
      BY <3>2, <3>3 DEF Checking
  <2> QED
    BY <2>1, <2>2, <2>3 DEF AddedNow
<1>4. CASE Handle /\ Head(queue).kind = "destroyed" /\ Head(queue).of = s[1]
  <2>1. RemoveTarget(s[1]) /\ queue # <<>> /\ queue' = Tail(queue)
    BY <1>4 DEF Handle
  <2>2. /\ Head(queue) = queue[1] /\ Len(queue) \in Nat /\ 1 \in 1..Len(queue)
    BY <2>1, QueueShrinks
  <2>3. Known(s) /\ ~Lost(s)
    BY <1>0, <2>1, RemoveTargetDoes, KnownStays DEF Lost, Known
  <2>4. s[1] \in Pages /\ tabs[s[1]].id # 0
    BY <1>0, <2>1, <2>3, RemoveTargetDoes, SessionParts
  <2>5. sessions[s].tab # tabs[s[1]].id
    BY <1>0, <2>1, <2>4, RemoveTargetDoes DEF Known
  <2>6. alive[s[1]] = "gone" /\ Waits("destroyed", s[1])
    <3>1. alive'[s[1]] = "gone" /\ alive' = alive
      BY <1>4, HandleShrinks DEF Ended
    <3> QED
      BY <1>4, <2>2, <3>1 DEF Waits
  <2>7. ~Waits("detached", s)
    <3>1. ASSUME NEW j \in 1..Len(queue), queue[j].kind = "detached", queue[j].of = s
          PROVE  FALSE
      <4>1. Tells(queue[j], s[1])
        BY <3>1 DEF Tells
      <4>2. j < 1
        BY <1>4, <2>2, <4>1 DEF DestroyedIsLast
      <4> QED
        BY <2>2, <4>2
    <3> QED
      BY <3>1 DEF Waits
  <2>8. Never(s)
    BY <2>3, <2>4, <2>5, <2>6, <2>7 DEF GoesAway, ClosedGoes
  <2> QED
    BY <1>1, <2>8
<1>5. Ended(s[1]) => (Known(s) => Never(s) \/ Checking(s))
  BY DEF GoesAway, SettledGoes
<1>6. \/ Ended(s[1])
      \/ Handle /\ Head(queue).kind = "destroyed" /\ Head(queue).of = s[1]
  BY <1>0, SettledBefore
<1> QED
  BY <1>1, <1>2, <1>3, <1>4, <1>5, <1>6

(* A session that is detached by this step: with its target.               *)
LEMMA ClosedAnew ==
    ASSUME SurfaceType, NEW s \in Session, s \in attached, s \notin attached',
           NEW t \in Targets, CloseTarget(t)
    PROVE  GoesAway(s)'
<1>1. PICK gone \in SUBSET Targets, new \in Seq(Events) : Closed(t, gone, new)
  BY CloseDoes DEF SurfaceType
<1>2. /\ s[1] \in gone /\ s[1] \in Targets /\ alive'[s[1]] = "gone"
      /\ new \in Seq(Events) /\ queue' = queue \o new
      /\ \A k \in 1..Len(new) : Closing(new[k], gone)
      /\ \E k \in 1..Len(new) : new[k].kind = "destroyed" /\ new[k].of = s[1]
      /\ \E k \in 1..Len(new) : new[k].kind = "detached" /\ new[k].of = s
  BY <1>1, SessionParts DEF Closed, Closes
<1>3. \A k \in 1..Len(new) : ~Tracks(new[k], s[1])
  BY <1>2 DEF Closing, Tracks
<1>4. \A k \in 1..Len(new) : Waits(new[k].kind, new[k].of)'
  BY <1>2, WaitsGrows DEF SurfaceType
<1>5. Waits("destroyed", s[1])' /\ Waits("detached", s)'
  BY <1>2, <1>4
<1>6. LateEnd(s)'
  BY <1>2, <1>3, WaitsGrows DEF SurfaceType
<1> QED
  BY <1>2, <1>5, <1>6 DEF GoesAway, OpenGoes, ClosedGoes, SettledGoes, Ended

(* Or because it could not be initialized.                                 *)
LEMMA FailedAnew ==
    ASSUME SurfaceType, BrowserIsSound, AddedOnce, NEW i \in initializing, AskFails(i),
           i.session \in attached
    PROVE  GoesAway(i.session)'
<1> DEFINE s == i.session
<1>1. /\ s \in Session /\ s[1] \in Targets /\ sessions \in Sessions /\ BrowserType
  BY SessionParts DEF SurfaceType, InitializingType, TrackedType
<1>2. /\ RemoveSessions({s}) /\ initializing' = initializing \ {i}
      /\ alive' = alive /\ attaching' = attaching
  BY <1>1, AskFailsDoes
<1>3. PICK new \in Seq(Events) : /\ queue' = queue \o new /\ Len(new) = 1
                                 /\ new[1].kind = "detached" /\ new[1].of = s
  BY <1>1, AskFailsDoes
<1>4. ~Known(s)' /\ sessions'[s].stage # "ready"
  BY <1>1, <1>2, RemoveSessionDoes DEF Known
<1>5. alive'[s[1]] = "open"
  BY <1>1, <1>2 DEF BrowserIsSound
<1>6. ToCome(s)' => ToCome(s)
  <2>1. \A kind, x : Waits(kind, x)' =>
            Waits(kind, x) \/ \E k \in 1..Len(new) : new[k].kind = kind /\ new[k].of = x
    BY <1>1, <1>3, WaitsGrows
  <2>2. Waits("attached", s)' => Waits("attached", s)
    BY <1>3, <2>1
  <2> QED
    BY <1>2, <2>2 DEF ToCome, Answering
<1>7. ToCome(s) => Never(s)'
  <2>1. \A k \in initializing : k.session = s /\ k # i => ~ToCome(s)
    BY DEF AddedOnce
  <2> QED
    BY <1>2, <1>4, <2>1 DEF Never
<1> QED
  BY <1>4, <1>5, <1>6, <1>7 DEF GoesAway, OpenGoes, ClosedGoes, SettledGoes, Ended

(* Every step leaves a session that was detached on its way out.           *)
LEMMA DetachedStep ==
    ASSUME SurfaceType, BrowserIsSound, TrackedWasThere, NumbersAreIssued, DestroyedIsLast,
           GoneIsQuiet, AddedOnce, DetachedGoes, SurfaceNext, Ages
    PROVE  DetachedGoes'
<1> SUFFICES ASSUME NEW s \in Session, Issued(s)', s \notin attached', s[1] \notin stale'
             PROVE  GoesAway(s)'
  BY DEF DetachedGoes, GoesAway
<1>1. s[1] \notin stale /\ Issued(s)
  BY StaleGrows, DetachedFrom
<1>2. CASE s \notin attached
  <2>1. GoesAway(s)
    BY <1>1, <1>2 DEF DetachedGoes, GoesAway
  <2>2. OpenGoes(s)'
    BY <1>1, <1>2, <2>1, OpenGoesOn
  <2>3. ClosedGoes(s)'
    BY <1>1, <1>2, <2>1, ClosedGoesOn
  <2>4. SettledGoes(s)'
    BY <1>2, <2>1, SettledGoesOn
  <2> QED
    BY <2>2, <2>3, <2>4 DEF GoesAway
<1>3. CASE s \in attached
  <2>1. \/ \E t \in Targets : CloseTarget(t)
        \/ \E i \in initializing : AskFails(i) /\ i.session = s
    BY <1>3, DetachedFrom
  <2> QED
    BY <1>3, <2>1, ClosedAnew, FailedAnew
<1> QED
  BY <1>2, <1>3

-----------------------------------------------------------------------------
(* It is inductive, and gives what is promised. *)

(* It holds to begin with: nothing is known and nothing waits.             *)
LEMMA SurfaceStarts ==
    ASSUME SurfaceInit
    PROVE  SurfaceInv
<1> USE DEF SurfaceInit
<1>1. \A s \in Session : ~Known(s) /\ sessions[s].tab = 0 /\ sessions[s].stage = "none"
  BY DEF Known
<1>2. \A kind, x : ~Waits(kind, x)
  BY DEF Waits
<1>3. \A s : ~ToCome(s)
  BY <1>2 DEF ToCome, Answering
<1>4. SurfaceType
  <2>1. BrowserType
    BY DEF BrowserType
  <2>2. TrackedType
    BY DEF TrackedType, tabVars, Tabs, NoTab, Sessions, SessionStages
  <2>3. AttachingType /\ InitializingType
    BY DEF AttachingType, InitializingType
  <2>4. RefreshType
    BY DEF RefreshType, Idle
  <2> QED
    BY <2>1, <2>2, <2>3, <2>4 DEF SurfaceType
<1>5. BrowserIsSound
  BY DEF BrowserIsSound
<1>6. TrackedWasThere
  BY DEF TrackedWasThere, Idle, NoTab
<1>7. NumbersAreIssued
  BY <1>1 DEF NumbersAreIssued
<1>8. DestroyedIsLast
  BY DEF DestroyedIsLast
<1>9. GoneIsQuiet
  BY DEF GoneIsQuiet, NoTab
<1>10. AddedOnce
  BY <1>1, <1>3 DEF AddedOnce, Answering
<1>11. NewIsPursued
  BY <1>1 DEF NewIsPursued
<1>12. TabsAgree
  BY <1>1 DEF TabsAgree, TabOf
<1>13. DetachedGoes
  BY <1>1, <1>3 DEF DetachedGoes, OpenGoes, ClosedGoes, SettledGoes, Never
<1>14. WindowsAreReal /\ WindowsAreUsed
  BY DEF WindowsAreReal, WindowsAreUsed, NoTab
<1> QED
  BY <1>4, <1>5, <1>6, <1>7, <1>8, <1>9, <1>10, <1>11, <1>12, <1>13, <1>14 DEF SurfaceInv

(* Every step keeps it.                                                    *)
LEMMA SurfaceGoesOn ==
    ASSUME SurfaceInv, SurfaceNext
    PROVE  SurfaceInv'
<1> USE DEF SurfaceInv
<1>1. SurfaceType'
  BY TypeStep
<1>2. BrowserIsSound' /\ Ages
  BY SoundStep
<1>3. TrackedWasThere'
  BY <1>2, ThereStep
<1>4. NumbersAreIssued'
  BY <1>1, <1>2, NumbersStep DEF SurfaceType
<1>5. DestroyedIsLast'
  BY DestroyedStep
<1>6. GoneIsQuiet'
  BY GoneIsQuietStep
<1>7. AddedOnce'
  BY AddedStep
<1>8. NewIsPursued'
  BY PursuedStep
<1>9. TabsAgree'
  BY <1>1, <1>2, AgreeStep DEF SurfaceType
<1>10. DetachedGoes'
  BY <1>2, DetachedStep
<1>11. WindowsAreReal' /\ WindowsAreUsed'
  BY WindowsStep DEF Windowed
<1> QED
  BY <1>1, <1>2, <1>3, <1>4, <1>5, <1>6, <1>7, <1>8, <1>9, <1>10, <1>11

(* And so does a step that changes nothing.                                *)
LEMMA SurfaceStutters ==
    ASSUME SurfaceInv, UNCHANGED surfaceVars
    PROVE  SurfaceInv'
<1> USE DEF SurfaceInv
<1>0. /\ StillBrowser /\ StillTracked /\ StillGoing
  BY DEF surfaceVars, targetVars, trackedVars, tabVars, goVars, refreshVars,
         StillBrowser, StillTracked, StillGoing
<1> USE DEF StillBrowser, StillTracked, StillGoing
<1>1. SurfaceType'
  BY <1>0, SameTypes DEF SurfaceType
<1>2. BrowserIsSound' /\ TrackedWasThere' /\ NumbersAreIssued'
  BY <1>0 DEF BrowserIsSound, EventIsSound, TrackedWasThere, NumbersAreIssued, Issued, Known
<1>3. DestroyedIsLast' /\ GoneIsQuiet'
  BY <1>0 DEF DestroyedIsLast, GoneIsQuiet, Ended, Waits, Tells, Tracks
<1>4. AddedOnce' /\ NewIsPursued' /\ TabsAgree'
  BY <1>0 DEF AddedOnce, ToCome, Waits, Answering, Known, NewIsPursued, TabsAgree, TabOf, PageOf
<1>5. DetachedGoes'
  BY <1>0 DEF DetachedGoes, Issued, OpenGoes, ClosedGoes, SettledGoes, Ended, Never, LateEnd,
              Tracks, ToCome, Waits, Answering, Known, Checking
<1>6. WindowsAreReal' /\ WindowsAreUsed'
  BY <1>0 DEF WindowsAreReal, WindowsAreUsed
<1> QED
  BY <1>1, <1>2, <1>3, <1>4, <1>5, <1>6

(* When all is handled, a session that is left is ready, in the tab of its *)
(* page, and its target is there.                                          *)
LEMMA SurfaceHasSettled ==
    ASSUME SurfaceInv
    PROVE  SurfaceSettles
<1> USE DEF SurfaceInv
<1> SUFFICES ASSUME AllHandled, NEW s \in Session, Known(s), s[1] \notin stale
             PROVE  alive[s[1]] = "open" /\ sessions[s].tab \in TabIDs
  BY DEF SurfaceSettles, GoneIsForgotten
<1>1. queue = <<>> /\ attaching = {} /\ initializing = {}
  BY DEF AllHandled
<1>2. /\ s[1] \in Targets /\ s[2] \in Nat /\ s[2] >= 1
      /\ s[1] \in Pages \/ s[1] = Iframe
  BY SessionParts
<1>3. sessions[s].stage = "ready" /\ sessions[s].tab # 0
  <2>1. sessions[s].stage \in SessionStages /\ sessions[s].stage # "none"
    BY DEF SurfaceType, TrackedType, Sessions, Known
  <2> QED
    BY <1>1, <2>1 DEF NewIsPursued, SessionStages
<1>4. alive[s[1]] # "none"
  BY <1>2 DEF NumbersAreIssued, Issued, BrowserIsSound
<1>5. alive[s[1]] # "gone"
  <2> SUFFICES ASSUME alive[s[1]] = "gone"
               PROVE  FALSE
    OBVIOUS
  <2>1. Ended(s[1])
    BY <1>1 DEF Ended, Waits
  <2>2. s \notin attached /\ Issued(s)
    BY DEF BrowserIsSound, NumbersAreIssued
  <2>3. Never(s) \/ Checking(s)
    BY <2>1, <2>2 DEF DetachedGoes, SettledGoes
  <2> QED
    BY <1>1, <1>3, <2>3 DEF Never, Checking
<1>6. alive[s[1]] = "open"
  BY <1>2, <1>4, <1>5 DEF SurfaceType, BrowserType
<1>7. PageOf(s[1]) \in Pages /\ alive[PageOf(s[1])] # "gone"
  BY <1>2, <1>6, SessionParts DEF PageOf, BrowserIsSound
<1>8. sessions[s].tab = tabs[PageOf(s[1])].id
  BY <1>2, <1>3, <1>7 DEF TabsAgree, TabOf
<1> QED
  BY <1>3, <1>6, <1>7, <1>8 DEF TabIDs

(* What is known of the browser is true once every event and every answer  *)
(* has been handled, whatever closed while it was attached to, listed or   *)
(* initialized; and a window is kept just as long as it has a tab.         *)
THEOREM SurfaceDoesSettle == SurfaceSpec => []SurfaceSettles
<1>1. SurfaceInit => SurfaceInv
  BY SurfaceStarts
<1>2. SurfaceInv /\ [SurfaceNext]_surfaceVars => SurfaceInv'
  BY SurfaceGoesOn, SurfaceStutters
<1>3. SurfaceInv => SurfaceSettles
  BY SurfaceHasSettled
<1> QED
  BY <1>1, <1>2, <1>3, PTL DEF SurfaceSpec
=============================================================================

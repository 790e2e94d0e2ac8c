---------------------------- MODULE MCBrowserConfig ----------------------------
(***************************************************************************)
(* Small instances, for TLC, of what requests do to the browser under a    *)
(* mutex of the API (the configuration of Chromium, the size of the        *)
(* headless display, mouse and keyboard input), of the tracker of its      *)
(* targets, of what live views are told of its focus, and of the handoff   *)
(* of an identity to a fork.  They share no state in this model; the       *)
(* initial choice of `part` says which of them a behaviour is about, and   *)
(* the others rest.                                                        *)
(***************************************************************************)
EXTENDS ChromiumConfig, Display, ForkIdentity, LiveFocus, BrowserSurface, TLC

CONSTANTS
    q1, q2,
    Parts,              \* the parts that are explored
    Width, Padding, Bends, MinGap, MaxRequests,
    First, Second       \* the frames of Inner

VARIABLES
    part,
    pointer, down, text, actions, action, plan, at, over, before, cut, stuck, requests

TwoRequests == {q1, q2}
Symmetry == Permutations(TwoRequests)

inputs == <<pointer, down, text, actions, action, plan, at, over, before, cut, stuck,
            requests>>
configVars == <<part, vars, displayVars, inputs, surfaceVars, forkVars, focusVars>>

(* Movements, clicks, drags from edge to edge, held keys, and texts, with  *)
(* and without a modifier; batches of two.                                 *)
Action(kind, path, hold, smooth) ==
    [kind |-> kind, path |-> path, hold |-> hold, smooth |-> smooth,
     steps |-> 2, keys |-> <<>>, text |-> <<>>, type |-> "click"]
Shift == <<"shift">>
Typing(chars, smooth) == [Action("type", <<>>, <<>>, smooth) EXCEPT !.text = chars]
Pressing(kind, chars) == [Action(kind, <<>>, Shift, TRUE) EXCEPT !.keys = chars]

SomeBatches ==
    {<<Action("move", <<3>>, Shift, TRUE)>>, <<Action("move", <<0>>, <<>>, TRUE)>>,
     <<Action("sleep", <<>>, <<>>, TRUE), Action("move", <<2>>, Shift, FALSE)>>,
     <<Action("move", <<4>>, Shift, FALSE)>>,
     <<Action("click", <<3>>, Shift, TRUE)>>, <<Action("scroll", <<3>>, Shift, TRUE)>>,
     <<[Action("click", <<1>>, <<>>, TRUE) EXCEPT !.type = "down"],
       Action("drag", <<0, 3>>, Shift, TRUE)>>,
     <<Action("drag", <<3, 0, 2>>, Shift, TRUE)>>,
     <<Action("drag", <<3, 0, 2>>, Shift, FALSE)>>,
     <<Pressing("hold", <<"a", "b">>), Pressing("tap", <<"a">>)>>,
     <<Typing(<<"z">>, FALSE), Typing(<<"a", "b", "c", " ", "d", " ">>, TRUE)>>}

I == INSTANCE ComputerInput WITH Batches <- SomeBatches

(* One target, with a refresh and a trouble; a page and its frame, with a  *)
(* trouble; two pages.                                                     *)
FewTargets ==
    LET coming == {t \in Targets : alive[t] # "gone"} IN
    IF part # "surface" THEN coming = {} /\ refreshes = 0 /\ troubles = 0
    ELSE \/ Cardinality(coming) = 1 /\ refreshes = 0 /\ troubles = 0
         \/ coming = {Home, Iframe} /\ refreshes = MaxRefreshes /\ troubles = 0
         \/ coming = Pages /\ refreshes = MaxRefreshes /\ troubles = MaxTroubles

(* A whole identity, and one without credentials for Envoy.                *)
WholeAndPartial ==
    [n \in Names \cup {"past"} |-> IF n = "n2" THEN {"stream"} ELSE {"jwt", "stream"}]

(* One live view with a page that changes twice; with a page that changes  *)
(* once, and a connection that is lost; two that come and go.              *)
FewViews ==
    LET once == timers = MaxTimers /\ Second \notin exists IN
    IF part # "focus"
    THEN exists = {Top} /\ focus = None /\ timers = 0 /\ changes = 0 /\ losses = 0
    ELSE \/ once /\ First \in exists /\ changes = 0 /\ losses = MaxLosses /\ focus = None
         \/ once /\ First \in exists /\ changes = 1 /\ losses = 0 /\ focus = Top
         \/ exists = {Top} /\ timers = 0 /\ changes = MaxChanges

(* Uploads that may load over CDP, uploads that need a policy, flags.      *)
Asks(apis, places, contents) ==
    {[api |-> a, places |-> places, token |-> contents] : a \in apis}

SomeBodies ==
    Asks({"upload", "force", "configure", "prefer_cdp"}, Places, "x")
        \cup Asks({"configure"}, {"dir", "policy"}, "y")
        \cup Asks({"patch"}, {"flags"}, "f")

(* Two requests bring different contents, unless they are flags.           *)
DifferentBodies ==
    \A r, q \in Requests : r = q \/ body[r].token # body[q].token \/ body[r].api = "patch"

ConfigInit ==
    /\ part \in Parts
    /\ Init /\ DisplayInit /\ I!Init /\ SurfaceInit /\ FewTargets /\ ForkInit
    /\ FocusInit /\ FewViews
    /\ IF part = "chromium" THEN DifferentBodies
       ELSE \A r \in Requests : body[r].api = "patch"
    /\ part # "display" => xvfb = 1
    /\ part # "input" => pointer = 0
    /\ part # "handoff" => ~wait /\ env["name"] = "nobody"

ChromiumNext ==
    /\ part = "chromium" /\ Next
    /\ UNCHANGED <<part, displayVars, inputs, surfaceVars, forkVars, focusVars>>

ScreenNext ==
    /\ part = "display" /\ DisplayNext
    /\ UNCHANGED <<part, vars, inputs, surfaceVars, forkVars, focusVars>>

InputNext ==
    /\ part = "input" /\ I!Next
    /\ UNCHANGED <<part, vars, displayVars, surfaceVars, forkVars, focusVars>>

SurfacePartNext ==
    /\ part = "surface" /\ SurfaceNext
    /\ UNCHANGED <<part, vars, displayVars, inputs, forkVars, focusVars>>

HandoffNext ==
    /\ part = "handoff" /\ ForkNext
    /\ UNCHANGED <<part, vars, displayVars, inputs, surfaceVars, focusVars>>

FocusPartNext ==
    /\ part = "focus" /\ FocusNext
    /\ UNCHANGED <<part, vars, displayVars, inputs, surfaceVars, forkVars>>

ConfigNext ==
    ChromiumNext \/ ScreenNext \/ InputNext \/ SurfacePartNext \/ HandoffNext \/ FocusPartNext

ConfigSpec == ConfigInit /\ [][ConfigNext]_configVars

(* Four lives and a restart of the tail for one request, three lives for   *)
(* two of them; a page that changes while somebody looks.                  *)
Focus ==
    /\ \/ life <= 3 /\ tails = 0
       \/ \E r \in Requests : pc[r] = "new" /\ body[r].api = "patch"
    /\ \/ part # "focus" \/ First \notin exists \/ runs = 0
       \/ run # 0 /\ subs # {}

-----------------------------------------------------------------------------
(* An action that succeeds has done what it was asked to do: the pointer   *)
(* is where the movement was to end, and the text is the one to be typed;  *)
(* and no key and no button stays down.                                    *)
InputEndsWell == I!PointerLands /\ I!TypedIsText /\ I!NothingHeld
=============================================================================

------------------------------ MODULE ComputerInput ------------------------------
(***************************************************************************)
(* Mouse and keyboard input (cmd/api/api/computer.go).  An action becomes  *)
(* a few runs of xdotool, one after the other, under inputMu; a run is     *)
(* killed when the context of the request ends, and may fail by itself, so *)
(* the code releases what it has pressed.  Curves and typos are random     *)
(* (lib/mousetrajectory, lib/typinghumanizer) and must not change where    *)
(* the pointer ends or what is typed.                                      *)
(*                                                                         *)
(* One axis of the screen is modelled: the code treats both alike.  Pauses *)
(* inside a movement are left out, as a run may be cut anywhere.           *)
(***************************************************************************)
EXTENDS Integers, Sequences, SequencesExt

CONSTANTS
    Width,      \* of the screen
    Padding,    \* how far a curve may leave it: boundsPadding
    Bends,      \* points of a curve between its ends
    MinGap,     \* least distance of two typos: half of avgGap, 5 or more
    Batches,    \* the requests: sequences of actions
    MaxRequests \* bound on them

VARIABLES
    pointer, down, text,    \* the X server, and what is written in the page
    actions,    \* what is left of the request that holds inputMu
    action,     \* the one under way, a sequence of at most one
    plan,       \* the runs of xdotool that are left of it
    at,         \* how many commands of the first one have been executed
    over,       \* the context of the request has ended
    before,     \* history: what was down and typed before the action
    cut,        \* history: the stage of the action that failed, or "no"
    stuck,      \* history: a release that was run failed by itself
    requests    \* how many requests have got the lock

display == <<pointer, down, text>>
history == <<before, cut, stuck>>
vars == <<display, actions, action, plan, at, over, history, requests>>

Screen == 0..(Width - 1)

-----------------------------------------------------------------------------
(* xdotool: what a command does to the X server.                           *)
Do(op, arg) == [op |-> op, arg |-> arg]
Clamp(x) == IF x < 0 THEN 0 ELSE IF x > Width - 1 THEN Width - 1 ELSE x

Execute(c) ==
    /\ down' = CASE c.op = "down" -> down \cup {c.arg}
                 [] c.op = "up" -> down \ {c.arg}
                 [] OTHER -> down
    /\ pointer' = CASE c.op = "move" -> c.arg
                    [] c.op = "relative" -> Clamp(pointer + c.arg)
                    [] OTHER -> pointer
    /\ text' = CASE c.op = "type" -> Append(text, c.arg)
                 [] c.op = "backspace" /\ text # <<>> -> Front(text)
                 [] OTHER -> text

Downs(keys) == [k \in 1..Len(keys) |-> Do("down", keys[k])]
Ups(keys) == [k \in 1..Len(keys) |-> Do("up", keys[k])]
Taps(keys) == FlattenSeq([k \in 1..Len(keys) |-> <<Do("down", keys[k]), Do("up", keys[k])>>])
Types(s) == [k \in 1..Len(s) |-> Do("type", s[k])]
Relative(steps) == [k \in 1..Len(steps) |-> Do("relative", steps[k])]

(* A run of xdotool under a context, and what is run if it fails.  What    *)
(* releases keys and buttons is to be run even if the request is cancelled.*)
Run(stage, do, ctx) ==
    [stage |-> stage, do |-> do, ctx |-> ctx, undo |-> <<>>, undoCtx |-> ctx]
Guarded(stage, do, undo, undoCtx) ==
    [stage |-> stage, do |-> do, ctx |-> "request", undo |-> undo, undoCtx |-> undoCtx]
Once(do) == Run("once", do, "request")

(* Mutant of CleanupContext: that of the request, which may have ended.    *)
ContextOfRequest == "request"

CleanupContext == "background"

-----------------------------------------------------------------------------
(* Movements.  A curve goes from its first point to its last one and may   *)
(* leave the screen in between.                                            *)
Curves == [1..Bends -> (-Padding)..(Width - 1 + Padding)]

(* Mutant of OnScreen: clampPoints is left out.                            *)
OnScreenUnclamped(points) == points

OnScreen(points) == [k \in 1..Len(points) |-> Clamp(points[k])]

Steps(points) == [k \in 1..(Len(points) - 1) |-> points[k + 1] - points[k]]

(* doMoveMouseSmooth: every step is a run of its own; keyups are deferred. *)
SmoothMove(from, to, curve, hold) ==
    LET steps == Steps(OnScreen(<<from>> \o curve \o <<to>>))
        moves == [k \in 1..Len(steps) |->
                    Guarded("move", <<Do("relative", steps[k])>>, Ups(hold), CleanupContext)]
    IN IF hold = <<>> THEN moves
       ELSE <<Run("press", Downs(hold), "request")>> \o moves
              \o <<Run("deferred", Ups(hold), CleanupContext)>>

(* GenerateMultiSegmentTrajectory: the segments share their ends.          *)
Trajectory(path, curves) ==
    <<path[1]>> \o FlattenSeq([k \in 1..(Len(path) - 1) |-> curves[k] \o <<path[k + 1]>>])

(* math.Round(n / d)                                                       *)
Rounded(n, d) ==
    IF n >= 0 THEN (2 * n + d) \div (2 * d) ELSE -((d - 2 * n) \div (2 * d))

(* generateRelativeSteps rounds the places, and steps from one to the next.*)
RelativeSteps(dx, steps) ==
    IF dx = 0 THEN <<>>
    ELSE [k \in 1..steps |-> Rounded(k * dx, steps) - Rounded((k - 1) * dx, steps)]

(* doDragMouse.  The linear movement and the first run are cleaned up     *)
(* under the context of the request, the end is not cleaned up at all.     *)
Drag(a, curves) ==
    LET release == <<Do("up", "button")>> \o Ups(a.hold)
        line == FlattenSeq([k \in 1..(Len(a.path) - 1) |->
                              RelativeSteps(a.path[k + 1] - a.path[k], a.steps)])
        curve == Steps(OnScreen(Trajectory(a.path, curves)))
    IN <<Guarded("press", Downs(a.hold) \o <<Do("move", a.path[1]), Do("down", "button")>>,
                 Ups(a.hold), "request"),
         Guarded("pause", <<>>, release, CleanupContext),
         IF a.smooth THEN Guarded("move", Relative(curve), release, CleanupContext)
                     ELSE Guarded("line", Relative(line), release, "request"),
         Run("release", release, "request")>>

-----------------------------------------------------------------------------
(* Typing.  A chunk is a word with the spaces behind it.                   *)
ChunkEnds(s) ==
    {k \in 1..Len(s) : k = Len(s) \/ (s[k] = " " /\ s[k + 1] # " ")}
ChunkStart(s, end) ==
    1 + (CHOOSE k \in ChunkEnds(s) \cup {0} :
            k < end /\ \A j \in ChunkEnds(s) : j < end => j <= k)

(* A neighbour on the keyboard; what is not a letter has none.             *)
Adjacent(c) == IF c = " " THEN c ELSE "?"

(* What is typed by mistake at place p of the chunk, and what it stands    *)
(* for; a transposition takes two characters if the chunk has them.        *)
Mistake(s, p, end, kind) ==
    CASE kind = "adjacent" -> <<Adjacent(s[p])>>
      [] kind = "doubling" -> <<s[p], s[p]>>
      [] kind = "extra" -> <<Adjacent(s[p]), s[p]>>
      [] kind = "transpose" -> IF p < end THEN <<s[p + 1], s[p]>> ELSE <<Adjacent(s[p])>>
Corrected(p, end, kind) == IF kind = "transpose" /\ p < end THEN 2 ELSE 1

(* Mutant of Backspaces: as many as characters are typed again.            *)
BackspacesOfCorrection(s, p, end, kind) == Corrected(p, end, kind)

Backspaces(s, p, end, kind) ==
    CASE kind \in {"doubling", "extra"} -> 2
      [] kind = "transpose" /\ p < end -> 2
      [] OTHER -> 1

Repeat(n, c) == [k \in 1..n |-> c]

(* smoothTypeChunkWithTypos: a typo at a place that has been typed already *)
(* is skipped.                                                             *)
Corrects(s, end, typos, done, p) ==
    IF p \notin DOMAIN typos \/ p <= done.upto THEN done
    ELSE [upto |-> p + Corrected(p, end, typos[p]) - 1,
          runs |-> done.runs \o
             <<Types(SubSeq(s, done.upto + 1, p - 1)),
               Types(Mistake(s, p, end, typos[p])),
               Repeat(Backspaces(s, p, end, typos[p]), Do("backspace", "")),
               Types(SubSeq(s, p, p + Corrected(p, end, typos[p]) - 1))>>]

TypeChunk(s, end, typos) ==
    LET start == ChunkStart(s, end)
        done == FoldLeft(LAMBDA d, p : Corrects(s, end, typos, d, p),
                         [upto |-> start - 1, runs |-> <<>>],
                         [k \in 1..(end - start + 1) |-> start + k - 1])
    IN Append(done.runs, Types(SubSeq(s, done.upto + 1, end)))

(* doTypeTextSmooth                                                        *)
TypeText(s, typos) ==
    LET ends == SetToSortSeq(ChunkEnds(s), <)
        runs == FlattenSeq([k \in 1..Len(ends) |-> TypeChunk(s, ends[k], typos)])
        some == SelectSeq(runs, LAMBDA r : r # <<>>)
    IN [k \in 1..Len(some) |-> Once(some[k])]

-----------------------------------------------------------------------------
(* doPressKey: keys are held for a duration, or tapped.                    *)
Hold(a) ==
    LET release == Ups(a.keys) \o Ups(a.hold)
    IN <<Guarded("press", Downs(a.hold) \o Downs(a.keys), release, "request"),
         Guarded("pause", <<>>, release, CleanupContext),
         Run("release", release, CleanupContext)>>

(* doMoveMouseInstant, doClickMouse, doScroll and taps are one run.        *)
AtOnce(a, do) == <<Once(Downs(a.hold) \o do \o Ups(a.hold))>>

Click(a) ==
    CASE a.type = "click" -> Taps(<<"button">>)
      [] a.type = "down" -> <<Do("down", "button")>>
      [] a.type = "up" -> <<Do("up", "button")>>

(* The runs of an action, for some curves and typos.                       *)
Plan(a, curves, typos) ==
    CASE a.kind = "move" /\ a.smooth -> SmoothMove(pointer, a.path[1], curves[1], a.hold)
      [] a.kind = "move" /\ ~a.smooth -> AtOnce(a, <<Do("move", a.path[1])>>)
      [] a.kind = "click" ->
            SmoothMove(pointer, a.path[1], curves[1], <<>>)
                \o AtOnce(a, <<Do("move", a.path[1])>> \o Click(a))
      [] a.kind = "scroll" -> AtOnce(a, <<Do("move", a.path[1])>> \o Taps(<<"wheel">>))
      [] a.kind = "drag" -> Drag(a, curves)
      [] a.kind = "hold" -> Hold(a)
      [] a.kind = "tap" -> AtOnce(a, Taps(a.keys))
      [] a.kind = "sleep" -> <<Once(<<>>)>>
      [] a.kind = "type" /\ a.smooth -> TypeText(a.text, typos)
      [] a.kind = "type" /\ ~a.smooth -> <<Once(Types(a.text))>>

(* GenerateTypoPositions: neither at the start of the text nor too close.  *)
TypoPlaces(len) ==
    {places \in SUBSET ((MinGap + 1)..len) :
        \A p, q \in places : p < q => q - p >= MinGap}

TypoKinds == {"adjacent", "doubling", "transpose", "extra"}

-----------------------------------------------------------------------------
Init ==
    /\ pointer \in Screen /\ down = {} /\ text = <<>>
    /\ actions = <<>> /\ action = <<>>
    /\ plan = <<>> /\ at = 0
    /\ over = FALSE
    /\ before = [down |-> {}, text |-> <<>>]
    /\ cut = "no" /\ stuck = FALSE
    /\ requests = 0

(* A request gets inputMu, perhaps after its client has gone.              *)
Lock ==
    /\ actions = <<>> /\ action = <<>>
    /\ requests < MaxRequests
    /\ requests' = requests + 1
    /\ actions' \in Batches
    /\ over' \in BOOLEAN
    /\ UNCHANGED <<display, action, plan, at, history>>

(* A place off the screen is refused, and so is every place when the size  *)
(* of the screen cannot be read.                                           *)
Begin ==
    /\ action = <<>> /\ actions # <<>>
    /\ LET a == Head(actions) IN
        /\ action' = <<a>>
        /\ \/ /\ a.path # <<>>
              /\ plan' = <<>> /\ cut' = "refused"
           \/ /\ \A k \in 1..Len(a.path) : a.path[k] \in Screen
              /\ cut' = "no"
              /\ \E curves \in [1..Len(a.path) -> Curves],
                    places \in TypoPlaces(Len(a.text)) :
                    \E typos \in [places -> TypoKinds] : plan' = Plan(a, curves, typos)
    /\ actions' = Tail(actions)
    /\ at' = 0
    /\ before' = [down |-> down, text |-> text]
    /\ stuck' = FALSE
    /\ UNCHANGED <<display, over, requests>>

(* Nothing is started under a context that has ended.                      *)
Command ==
    /\ plan # <<>> /\ at < Len(plan[1].do)
    /\ at > 0 \/ ~over \/ plan[1].ctx = "background"
    /\ Execute(plan[1].do[at + 1])
    /\ at' = at + 1
    /\ UNCHANGED <<actions, action, plan, over, history, requests>>

RunEnds ==
    /\ plan # <<>> /\ at = Len(plan[1].do)
    /\ plan' = Tail(plan) /\ at' = 0
    /\ UNCHANGED <<display, actions, action, over, history, requests>>

(* A command fails, or the run is killed, or the pause ended, because the  *)
(* context has ended.  The rest of the plan is not run; an error of what   *)
(* only cleans up is not looked at.                                        *)
Fails ==
    /\ plan # <<>>
    /\ LET r == plan[1] IN
        /\ at < Len(r.do) \/ (over /\ r.ctx = "request")
        /\ plan' = IF r.undo = <<>> THEN <<>> ELSE <<Run("cleanup", r.undo, r.undoCtx)>>
        /\ cut' = IF r.stage \in {"deferred", "cleanup"} THEN cut ELSE r.stage
        /\ stuck' = (stuck \/ r.ctx = "background" \/ (r.stage = "cleanup" /\ ~over))
    /\ at' = 0
    /\ UNCHANGED <<display, actions, action, over, before, requests>>

(* The next action of the batch, or the answer.                            *)
Finish ==
    /\ action # <<>> /\ plan = <<>>
    /\ action' = <<>>
    /\ actions' = IF cut = "no" THEN actions ELSE <<>>
    /\ UNCHANGED <<display, plan, at, over, history, requests>>

ContextEnds ==
    /\ action # <<>> /\ ~over
    /\ over' = TRUE
    /\ UNCHANGED <<display, actions, action, plan, at, history, requests>>

Next ==
    \/ Lock \/ Begin \/ Command \/ RunEnds \/ Fails \/ Finish
    \/ ContextEnds

Spec == Init /\ [][Next]_vars

-----------------------------------------------------------------------------
Done == action # <<>> /\ plan = <<>>

(* A movement ends where it was asked to, whatever curve it has taken: the *)
(* steps are relative, and the X server cuts what would leave the screen.  *)
(* (Nobody else moves the pointer meanwhile.)                              *)
PointerLands ==
    (Done /\ cut = "no" /\ action[1].path # <<>>)
        => pointer = Last(action[1].path)

(* What is typed is the text, with every typo corrected; what was written  *)
(* before is never erased, however the typing is cut short.                *)
TypedIsText ==
    /\ action # <<>> => IsPrefix(before.text, text)
    /\ (Done /\ cut = "no") => text = before.text \o action[1].text

(* Nothing is left pressed by an action that succeeded, unless xdotool     *)
(* fails to release it; nor by one that was cut while a curve was followed *)
(* or a pause waited out, for these release even if the client is gone.    *)
(* A drag along straight lines, and the first run of a drag or of held     *)
(* keys, release under the context of the request, so this is said of them *)
(* only while the client is there: one that goes away leaves the button    *)
(* and the keys down.  Nothing is said of what has no release: the first   *)
(* run of a movement, the last run of a drag, and actions of one run.      *)
CutAlone ==
    cut = "line" \/ (cut = "press" /\ action[1].kind # "move")

NothingHeld ==
    (Done /\ ~stuck /\ (cut \in {"no", "refused", "pause", "move"} \/ (~over /\ CutAlone)))
        => down \subseteq before.down \cup
              (IF action[1].type = "down" THEN {"button"} ELSE {})
=============================================================================

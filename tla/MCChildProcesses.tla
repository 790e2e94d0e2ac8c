---------------------------- MODULE MCChildProcesses ----------------------------
(***************************************************************************)
(* Small instances, for TLC, of what the API does with the processes it    *)
(* starts: managed processes and their output, terminals, and the browser  *)
(* REPL.  They share no state; the initial choice of `part` says which of  *)
(* them a behaviour is about, and the others rest.                         *)
(***************************************************************************)
EXTENDS Processes, BrowserRepl, PtyAttach

CONSTANTS
    p1, p2, c1, c2, r1, r2,
    Parts           \* the parts that are explored

VARIABLE part

TwoProcs == {p1, p2}
TwoClients == {c1, c2}
TwoCallers == {r1, r2}

allVars == <<part, vars, ptyVars, replVars>>

ChildInit == part \in Parts /\ Init /\ PtyInit /\ ReplInit

ProcessesNext == part = "processes" /\ Next /\ UNCHANGED <<part, ptyVars, replVars>>
PtyPartNext == part = "pty" /\ PtyNext /\ UNCHANGED <<part, vars, replVars>>
ReplPartNext == part = "repl" /\ ReplNext /\ UNCHANGED <<part, vars, ptyVars>>

ChildNext == ProcessesNext \/ PtyPartNext \/ ReplPartNext

(* The fairness of each part, for the behaviours that are about it.        *)
ProcessesFairness ==
    /\ \A p \in Procs :
        /\ WF_vars(part = "processes" /\ LoopStep(p))
        /\ WF_vars(part = "processes" /\ EndStep(p))
    /\ \A c \in Clients : WF_vars(part = "processes" /\ StreamStep(c))

PtyPartFairness ==
    /\ \A s \in Sessions : WF_ptyVars(part = "pty" /\ ForwardStep(s))
    /\ WF_ptyVars(part = "pty" /\ WriterStep)
    /\ WF_ptyVars(part = "pty" /\ WatcherStep)
    /\ WF_ptyVars(part = "pty" /\ MainStep)
    /\ WF_ptyVars(part = "pty" /\ ReaderEnds /\ ~client.open)
    /\ WF_ptyVars(part = "pty" /\ ClientCloses /\ client.exit)

ReplPartFairness ==
    /\ \A c \in Callers :
        /\ SF_replVars(part = "repl" /\ Acquire(c))
        /\ WF_replVars(part = "repl" /\ HandlerStep(c))
    /\ WF_replVars(part = "repl" /\ ShutdownStep)

ChildSpec ==
    /\ ChildInit /\ [][ChildNext]_allVars
    /\ ProcessesFairness /\ PtyPartFairness /\ ReplPartFairness

-----------------------------------------------------------------------------
(* What is not explored together.  Two processes share the budget, and     *)
(* nothing else: then one is executed and one spawned, nobody streams, and *)
(* what ends processes early is left to the instances with one.  Streams   *)
(* meet a process that only its output may end.                            *)
Started == {p \in Procs : kind[p] # "none"}
Streaming == \E c \in Clients : reader[c] # NoReader
Undisturbed == \A p \in Started :
    /\ causes[p] = Causes /\ reason[p] \in {"", "output_limit"}
    /\ pipe[p]["stderr"] = "eof"

(* Which of two that are alike comes first, or asks for what, does not     *)
(* matter.                                                                 *)
Order == [none |-> 0, code |-> 1, reset |-> 2, resetCode |-> 3, custom |-> 4]

Focus ==
    /\ kind[p2] # "none" => kind[p1] # "none"
    /\ reader[c2] # NoReader => reader[c1] # NoReader
    /\ request[r2] # "none" => Order[request[r1]] <= Order[request[r2]]
    /\ Cardinality(Started) > 1 =>
        /\ ~Streaming /\ Undisturbed
        /\ kind[p1] = "exec" /\ kind[p2] = "spawn"
        /\ \A p \in Procs : loop[p] # "drained"
    /\ Streaming => Undisturbed

-----------------------------------------------------------------------------
(* Whoever waits is answered: the streams of a process that has exited     *)
(* end, and every request to the REPL is answered.                         *)
CallsEnd == ProcessesEnd /\ ReplAnswers
=============================================================================

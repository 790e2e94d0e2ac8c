------------------------------- MODULE EventLog -------------------------------
(***************************************************************************)
(* What the event stream promises its readers (lib/events): events come in *)
(* the order they were published in; a reader gets each of them once, or   *)
(* is told exactly how many it has missed.  What is kept, and for how      *)
(* long, is not said.                                                      *)
(***************************************************************************)
EXTENDS Naturals

CONSTANTS Readers

VARIABLES
    latest,     \* the number of events that can be read
    position,   \* the next event of each reader, 0 while it is not open
    got,        \* history: the last event each reader got
    missed      \* history: how many events it was told it missed

logVars == <<latest, position, got, missed>>

LogInit ==
    /\ latest = 0
    /\ position = [r \in Readers |-> 0]
    /\ got = [r \in Readers |-> 0]
    /\ missed = [r \in Readers |-> 0]

LogPublish ==
    /\ latest' = latest + 1
    /\ UNCHANGED <<position, got, missed>>

(* A reader opens anywhere; one that opens ahead of an empty log is moved  *)
(* to the first event.                                                     *)
LogOpen(r) ==
    /\ position[r] = 0 \/ latest = 0
    /\ position'[r] \in Nat \ {0}
    /\ position' = [position EXCEPT ![r] = position'[r]]
    /\ UNCHANGED <<latest, got, missed>>

LogDeliver(r) ==
    /\ position[r] \in 1..latest
    /\ got' = [got EXCEPT ![r] = position[r]]
    /\ position' = [position EXCEPT ![r] = @ + 1]
    /\ UNCHANGED <<latest, missed>>

LogGap(r) ==
    /\ position[r] > 0
    /\ \E n \in (position[r] + 1)..latest :
        /\ position' = [position EXCEPT ![r] = n]
        /\ missed' = [missed EXCEPT ![r] = @ + n - position[r]]
    /\ UNCHANGED <<latest, got>>

LogNext ==
    \/ LogPublish
    \/ \E r \in Readers : LogOpen(r) \/ LogDeliver(r) \/ LogGap(r)

LogSpec == LogInit /\ [][LogNext]_logVars
=============================================================================

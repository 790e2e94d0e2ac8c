------------------------------ MODULE EventStream ------------------------------
(***************************************************************************)
(* The event stream (lib/events): the ring buffer with its two bounds, the *)
(* publisher, the readers of the SSE endpoint, and the StorageWriter of a  *)
(* sink, which runs until its context is cancelled and is then drained.    *)
(* TelemetrySession.Publish holds its mutex around EventStream.Publish, so *)
(* there is one publisher at a time; its number is assigned before, and    *)
(* under another lock than, the envelope is stored.                        *)
(***************************************************************************)
EXTENDS Integers, Sequences, FiniteSets, FiniteSetsExt

CONSTANTS
    Streams,    \* readers of StreamTelemetryEvents
    Writers,    \* StorageWriters
    Capacity,   \* rb.cap
    MaxBytes,   \* rb.maxBytes
    Sizes,      \* what an envelope costs to hold (envelopeBytes)
    MaxSeq      \* bounds the number of events

ASSUME EventAssumption ==
    /\ Streams \cap Writers = {}
    /\ Capacity \in Nat \ {0}
    /\ MaxBytes \in Nat \ {0}
    /\ Sizes \subseteq Nat \ {0}
    /\ MaxSeq \in Nat

VARIABLES
    seq,        \* es.seq
    unstored,   \* the sizes of the numbered event that is not in the ring yet
    buf,        \* rb.buf: seq 0 is the empty Envelope
    latestSeq, bytes, floorSeq,
    nextSeq,    \* the position of each Reader, 0 before NewReader
    phase,      \* where the goroutine of each reader is; "woken": the channel
                \* it took under the lock and waits on has been closed
    ctx,        \* the context it reads under
    got, missed,    \* history: as in EventLog
    unsaved     \* history: the writers that read an event and did not save it

ringVars == <<buf, latestSeq, bytes, floorSeq>>
readerVars == <<nextSeq, phase, ctx, got, missed, unsaved>>
vars == <<seq, unstored, ringVars, readerVars>>

Readers == Streams \cup Writers
Empty == [seq |-> 0, size |-> 0]
Reading == {"reading", "waiting", "woken"}

TypeOK ==
    /\ seq \in 0..MaxSeq
    /\ unstored \subseteq Sizes /\ Cardinality(unstored) <= 1
    /\ buf \in [0..(Capacity - 1) -> [seq : 0..MaxSeq, size : Sizes \cup {0}]]
    /\ latestSeq \in 0..MaxSeq
    /\ bytes \in Nat
    /\ floorSeq \in 1..(MaxSeq + 1)
    /\ nextSeq \in [Readers -> 0..(MaxSeq + 1)]
    /\ phase \in [Readers -> Reading \cup {"new", "ended", "draining", "closed"}]
    /\ ctx \in [Readers -> {"live", "cancelled"}]
    /\ got \in [Readers -> 0..MaxSeq]
    /\ missed \in [Readers -> 0..MaxSeq]
    /\ unsaved \subseteq Writers

Init ==
    /\ seq = 0
    /\ unstored = {}
    /\ buf = [i \in 0..(Capacity - 1) |-> Empty]
    /\ latestSeq = 0 /\ bytes = 0 /\ floorSeq = 1
    /\ nextSeq = [r \in Readers |-> 0]
    /\ phase = [r \in Readers |-> "new"]
    /\ ctx = [r \in Readers |-> "live"]
    /\ got = [r \in Readers |-> 0]
    /\ missed = [r \in Readers |-> 0]
    /\ unsaved = {}

-----------------------------------------------------------------------------
Slot(n) == n % Capacity

(* Mutant of OldestSeq: the floor of byte eviction is forgotten.           *)
OldestByCount == IF latestSeq > Capacity THEN latestSeq - Capacity + 1 ELSE 1

(* oldestSeq: what neither bound has evicted.                              *)
OldestSeq ==
    LET byCount == IF latestSeq > Capacity THEN latestSeq - Capacity + 1 ELSE 1
    IN  IF floorSeq > byCount THEN floorSeq ELSE byCount

(* The numbers whose slot has not moved on.                                *)
HeldIn(b, ns) == {n \in ns : b[Slot(n)].seq = n}

(* What evicting the numbers ns gives back.                                *)
BytesOf(b, ns) == MapThenSumSet(LAMBDA n : b[Slot(n)].size, HeldIn(b, ns))

(* evictForBytesLocked: the floor rises until the ring is inside its       *)
(* budget or only the newest envelope is left.                             *)
NewFloor(b, total, newest) ==
    Min({f \in floorSeq..newest :
            f = newest \/ total - BytesOf(b, floorSeq..(f - 1)) <= MaxBytes})

AssignSeq ==
    /\ seq < MaxSeq
    /\ unstored = {}
    /\ seq' = seq + 1
    /\ \E size \in Sizes : unstored' = {size}
    /\ UNCHANGED <<ringVars, readerVars>>

(* Mutant of Wake: a publish that evicts forgets those who wait.           *)
WakeUnlessEvicting(r) ==
    IF phase[r] = "waiting" /\ floorSeq' = floorSeq THEN "woken" ELSE phase[r]

(* The channel is closed and replaced: whoever waits on it is woken.       *)
Wake(r) == IF phase[r] = "waiting" THEN "woken" ELSE phase[r]

(* ringBuffer.publish.                                                     *)
RingPublish(size) ==
    LET slot == Slot(seq)
        written == [buf EXCEPT ![slot] = [seq |-> seq, size |-> size]]
        total == bytes - buf[slot].size + size
        floor == NewFloor(written, total, seq)
        evicted == HeldIn(written, floorSeq..(floor - 1))
    IN  /\ latestSeq' = seq
        /\ floorSeq' = floor
        /\ bytes' = total - BytesOf(written, floorSeq..(floor - 1))
        /\ buf' = [i \in DOMAIN buf |-> IF \E n \in evicted : Slot(n) = i
                                          THEN Empty ELSE written[i]]

StoreEnvelope ==
    \E size \in unstored :
        /\ RingPublish(size)
        /\ phase' = [r \in Readers |-> Wake(r)]
        /\ unstored' = {}
        /\ UNCHANGED <<seq, nextSeq, ctx, got, missed, unsaved>>

-----------------------------------------------------------------------------
(* NewReader: a stream starts from now, from the oldest envelope, or after *)
(* any id the client names (resolveStartSeq); a writer after a boundary.   *)
OpenReader(r) ==
    /\ phase[r] = "new"
    /\ \E after \in 0..(IF r \in Streams THEN MaxSeq ELSE seq) :
        nextSeq' = [nextSeq EXCEPT ![r] = after + 1]
    /\ phase' = [phase EXCEPT ![r] = "reading"]
    /\ UNCHANGED <<seq, unstored, ringVars, ctx, got, missed, unsaved>>

(* A read finds that the reader was overtaken, and by how much.            *)
Gap(r) ==
    /\ nextSeq[r] < OldestSeq
    /\ missed' = [missed EXCEPT ![r] = @ + OldestSeq - nextSeq[r]]
    /\ nextSeq' = [nextSeq EXCEPT ![r] = OldestSeq]
    /\ UNCHANGED <<got, unsaved>>

(* A read finds the next envelope.  A writer appends it; the storage of S2 *)
(* refuses under a context that is over, and nobody tries again.           *)
Deliver(r) ==
    LET envelope == buf[Slot(nextSeq[r])]
    IN  /\ nextSeq[r] \in OldestSeq..latestSeq
        /\ got' = [got EXCEPT ![r] = envelope.seq]
        /\ nextSeq' = [nextSeq EXCEPT ![r] = @ + 1]
        /\ unsaved' = IF r \in Writers /\ phase[r] = "reading" /\ ctx[r] # "live"
                        THEN unsaved \cup {r} ELSE unsaved
        /\ UNCHANGED missed

(* Nothing to read: Read moves a reader of an empty ring to the beginning, *)
(* and waits on the channel it took under the lock.                        *)
Wait(r) ==
    /\ latestSeq = 0 \/ nextSeq[r] > latestSeq
    /\ nextSeq' = IF latestSeq = 0 THEN [nextSeq EXCEPT ![r] = 1] ELSE nextSeq
    /\ phase' = [phase EXCEPT ![r] = "waiting"]
    /\ UNCHANGED <<got, missed, unsaved>>

(* Reader.Read, which looks at its context only once it waits.             *)
Read(r) ==
    /\ phase[r] = "reading"
    /\ \/ latestSeq > 0 /\ (Gap(r) \/ Deliver(r)) /\ UNCHANGED phase
       \/ Wait(r)
    /\ UNCHANGED <<seq, unstored, ringVars, ctx>>

Woken(r) ==
    /\ phase[r] = "woken"
    /\ phase' = [phase EXCEPT ![r] = "reading"]
    /\ UNCHANGED <<seq, unstored, ringVars, nextSeq, ctx, got, missed, unsaved>>

(* The 15 seconds of a stream are over: a keepalive, and it reads on.      *)
KeepAlive(r) ==
    /\ r \in Streams
    /\ phase[r] = "waiting" /\ ctx[r] = "live"
    /\ phase' = [phase EXCEPT ![r] = "reading"]
    /\ UNCHANGED <<seq, unstored, ringVars, nextSeq, ctx, got, missed, unsaved>>

(* The client leaves; the controller of a sink stops its writer.           *)
CancelReader(r) ==
    /\ phase[r] \in Reading /\ ctx[r] = "live"
    /\ ctx' = [ctx EXCEPT ![r] = "cancelled"]
    /\ UNCHANGED <<seq, unstored, ringVars, nextSeq, phase, got, missed, unsaved>>

ReadCancelled(r) ==
    /\ phase[r] \in {"waiting", "woken"} /\ ctx[r] = "cancelled"
    /\ phase' = [phase EXCEPT ![r] = IF r \in Writers THEN "ended" ELSE "closed"]
    /\ UNCHANGED <<seq, unstored, ringVars, nextSeq, ctx, got, missed, unsaved>>

(* The writer's Stop: once Run has returned the ring is drained without    *)
(* waiting, and the storage closed.                                        *)
StartDrain(w) ==
    /\ phase[w] = "ended"
    /\ phase' = [phase EXCEPT ![w] = "draining"]
    /\ UNCHANGED <<seq, unstored, ringVars, nextSeq, ctx, got, missed, unsaved>>

Drain(w) ==
    /\ phase[w] = "draining"
    /\ \/ latestSeq > 0 /\ nextSeq[w] <= latestSeq /\ (Gap(w) \/ Deliver(w))
          /\ UNCHANGED phase
       \/ /\ latestSeq = 0 \/ nextSeq[w] > latestSeq
          /\ phase' = [phase EXCEPT ![w] = "closed"]
          /\ UNCHANGED <<nextSeq, got, missed, unsaved>>
    /\ UNCHANGED <<seq, unstored, ringVars, ctx>>

(* Stop's context is over: it returns an error and may be called again.    *)
StopExpires(w) ==
    /\ phase[w] = "draining"
    /\ phase' = [phase EXCEPT ![w] = "ended"]
    /\ UNCHANGED <<seq, unstored, ringVars, nextSeq, ctx, got, missed, unsaved>>

-----------------------------------------------------------------------------
ReaderStep(r) == Read(r) \/ Woken(r) \/ ReadCancelled(r)

WriterStep(w) == StartDrain(w) \/ Drain(w) \/ StopExpires(w)

Next ==
    \/ AssignSeq \/ StoreEnvelope
    \/ \E r \in Readers :
        OpenReader(r) \/ ReaderStep(r) \/ KeepAlive(r) \/ CancelReader(r)
    \/ \E w \in Writers : WriterStep(w)

(* A publisher finishes and readers run; nobody has to publish, to open or *)
(* leave a stream, or to stop a writer.  A client reads what it is sent.   *)
Fairness ==
    /\ WF_vars(StoreEnvelope)
    /\ \A r \in Readers : WF_vars(ReaderStep(r))

Spec == Init /\ [][Next]_vars /\ Fairness

-----------------------------------------------------------------------------
(* A reader that keeps reading catches up with what can be read: no publish*)
(* is slept through (readerWake).                                          *)
ReadersCatchUp ==
    \A r \in Readers :
        phase[r] \in Reading ~> (nextSeq[r] > latestSeq \/ phase[r] \notin Reading)

(* The readers see a log: in order, nothing twice, gaps announced exactly. *)
Log == INSTANCE EventLog
    WITH latest <- latestSeq, position <- nextSeq

ImplementsEventLog == Log!LogSpec

(* "Stop waits for the Run goroutine to exit, drains any remaining ring    *)
(* events, then closes" (s2storage.go:217): a writer that was closed in    *)
(* time has saved all it has read.                                         *)
ClosedHasSaved == \A w \in Writers : phase[w] = "closed" => w \notin unsaved
=============================================================================

------------------------- MODULE BrowserSideProofs --------------------------
(***************************************************************************)
(* EventStream implements EventLog, for any readers, any capacity, budget  *)
(* and sizes; storage keeps what was captured for it, and the export sink  *)
(* follows the configuration, for any requests and any number of events; a *)
(* tool that was refused has not run, and a result that has come is told,  *)
(* for any invocations; and no capture publishes into a later one or is    *)
(* left in a page, for any targets.                                        *)
(***************************************************************************)
EXTENDS EventStream, Telemetry, WebMcp, CdpMonitor, FiniteSetTheorems,
        WellFoundedInduction, TLAPS

-----------------------------------------------------------------------------
(* The event stream. *)

(* A number set has a smallest member, which Min names.                    *)
LEMMA MinIsMember ==
    ASSUME NEW S \in SUBSET Nat, S # {}
    PROVE  Min(S) \in S
<1> DEFINE T == {0..x : x \in S}
           R == StrictSubsetOrdering(Nat)
<1>1. T \subseteq FiniteSubsetsOf(Nat)
  <2> SUFFICES ASSUME NEW x \in S PROVE 0..x \in FiniteSubsetsOf(Nat)
    OBVIOUS
  <2>1. 0..x \in SUBSET Nat
    OBVIOUS
  <2>2. IsFiniteSet(0..x)
    BY FS_Interval
  <2> QED
    BY <2>1, <2>2 DEF FiniteSubsetsOf
<1>2. \E t \in T : \A u \in T : ~ (<<u, t>> \in R)
  <2>1. T # {}
    OBVIOUS
  <2> QED
    BY <1>1, <2>1, FS_StrictSubsetOrderingWellFounded, WFMin, Zenon
<1>3. PICK x \in S : \A y \in S : ~ (<<0..y, 0..x>> \in R)
  BY <1>2
<1>4. \A y \in S : x <= y
  <2> SUFFICES ASSUME NEW y \in S, y < x PROVE FALSE
    OBVIOUS
  <2>1. 0..y \subseteq 0..x /\ x \in 0..x /\ x \notin 0..y
    OBVIOUS
  <2>2. <<0..y, 0..x>> \in R
    BY <2>1 DEF StrictSubsetOrdering
  <2> QED
    BY <1>3, <2>2
<1> QED
  BY <1>4 DEF Min

(* Two numbers that share a slot are at least a ring apart.                *)
LEMMA SlotsDiffer ==
    ASSUME NEW m \in Nat, NEW n \in Nat, m < n, n < m + Capacity
    PROVE  Slot(m) # Slot(n)
<1> SUFFICES ASSUME Slot(m) = Slot(n) PROVE FALSE
  OBVIOUS
<1> DEFINE a == m \div Capacity
           b == n \div Capacity
<1>1. a \in Nat /\ b \in Nat /\ m = Capacity * a + Slot(m) /\ n = Capacity * b + Slot(n)
  BY EventAssumption DEF Slot
<1>2. n - m = Capacity * b - Capacity * a
  BY <1>1, EventAssumption DEF Slot
<1> HIDE DEF a, b
<1>3. CASE b <= a
  BY <1>1, <1>2, <1>3, EventAssumption
<1>4. CASE b > a
  BY <1>1, <1>2, <1>4, EventAssumption
<1> QED
  BY <1>1, <1>3, <1>4

(* Every number has a slot in the buffer.                                  *)
LEMMA SlotInRing == ASSUME NEW n \in Nat PROVE Slot(n) \in 0..(Capacity - 1)
  BY EventAssumption DEF Slot

-----------------------------------------------------------------------------
(* The inductive invariant.  What the ring holds is the heart of it: each  *)
(* number that neither bound has evicted is still in its slot, which is    *)
(* what makes "the next envelope" the one a reader's position names.       *)
StreamType ==
    /\ seq \in Nat /\ latestSeq \in Nat /\ floorSeq \in Nat \ {0}
    /\ unstored \subseteq Sizes
    /\ buf \in [0..(Capacity - 1) -> [seq : Nat, size : Sizes \cup {0}]]
    /\ nextSeq \in [Readers -> Nat]
    /\ phase \in [Readers -> Reading \cup {"new", "ended", "draining", "closed"}]

(* One number at most is assigned and not stored.                          *)
NumberedIsNext ==
    seq = IF unstored = {} THEN latestSeq ELSE latestSeq + 1

(* Byte eviction never evicts the newest envelope.                         *)
FloorIsPublished == floorSeq <= IF latestSeq = 0 THEN 1 ELSE latestSeq

RingHolds == \A n \in OldestSeq..latestSeq : buf[Slot(n)].seq = n

OpenIsPlaced == \A r \in Readers : nextSeq[r] = 0 <=> phase[r] = "new"

StreamInv ==
    StreamType /\ NumberedIsNext /\ FloorIsPublished /\ RingHolds /\ OpenIsPlaced

(* oldestSeq is a number, and one that was published once anything was.    *)
LEMMA OldestIsPublished ==
    ASSUME StreamInv
    PROVE  /\ OldestSeq \in Nat \ {0}
           /\ latestSeq > 0 => OldestSeq <= latestSeq
  BY EventAssumption DEF StreamInv, StreamType, FloorIsPublished, OldestSeq

(* evictForBytesLocked raises the floor, and stops at the newest envelope. *)
LEMMA NewFloorInRing ==
    ASSUME StreamInv, NEW b, NEW total, NEW newest \in Nat, floorSeq <= newest
    PROVE  NewFloor(b, total, newest) \in floorSeq..newest
<1> DEFINE S == {f \in floorSeq..newest :
                   f = newest \/ total - BytesOf(b, floorSeq..(f - 1)) <= MaxBytes}
<1>1. S \in SUBSET Nat /\ newest \in S /\ S \subseteq floorSeq..newest
  BY DEF StreamInv, StreamType
<1>2. NewFloor(b, total, newest) = Min(S)
  BY DEF NewFloor
<1> HIDE DEF S
<1> QED
  BY <1>1, <1>2, MinIsMember

-----------------------------------------------------------------------------
(* ringBuffer.publish: the new envelope is in its slot, the survivors are  *)
(* in theirs, and a slot that eviction empties belongs to none of them.    *)
LEMMA RingPublishHolds ==
    ASSUME StreamInv, NEW size \in unstored, RingPublish(size)
    PROVE  /\ latestSeq' = seq /\ seq = latestSeq + 1
           /\ floorSeq' \in floorSeq..seq
           /\ buf' \in [0..(Capacity - 1) -> [seq : Nat, size : Sizes \cup {0}]]
           /\ RingHolds'
<1> DEFINE written == [buf EXCEPT ![Slot(seq)] = [seq |-> seq, size |-> size]]
           total == bytes - buf[Slot(seq)].size + size
           floor == NewFloor(written, total, seq)
           evicted == HeldIn(written, floorSeq..(floor - 1))
<1>1. seq = latestSeq + 1 /\ latestSeq \in Nat /\ seq \in Nat /\ size \in Sizes
  BY DEF StreamInv, StreamType, NumberedIsNext
<1>2. floorSeq \in Nat \ {0} /\ floorSeq <= seq
  BY <1>1 DEF StreamInv, StreamType, FloorIsPublished
<1>3. /\ latestSeq' = seq /\ floorSeq' = floor
      /\ buf' = [i \in DOMAIN buf |-> IF \E n \in evicted : Slot(n) = i
                                        THEN Empty ELSE written[i]]
  BY DEF RingPublish
<1>4. floor \in floorSeq..seq
  BY <1>1, <1>2, NewFloorInRing
<1>5. Slot(seq) \in 0..(Capacity - 1)
  BY <1>1, SlotInRing
<1>6. written \in [0..(Capacity - 1) -> [seq : Nat, size : Sizes \cup {0}]]
  BY <1>1, <1>5 DEF StreamInv, StreamType
<1>7. \A n \in evicted : n \in floorSeq..(floor - 1) /\ written[Slot(n)].seq = n
  BY DEF HeldIn
<1>8. written[Slot(seq)] = [seq |-> seq, size |-> size]
  BY <1>5 DEF StreamInv, StreamType
<1> HIDE DEF floor, evicted
<1>9. buf' \in [0..(Capacity - 1) -> [seq : Nat, size : Sizes \cup {0}]]
  BY <1>3, <1>6 DEF Empty, StreamInv, StreamType
<1>10. ASSUME NEW n \in OldestSeq'..latestSeq'
       PROVE  buf'[Slot(n)].seq = n
  <2>1. /\ n \in Nat /\ n <= seq /\ floor <= n /\ n < seq + 1
        /\ seq > Capacity => seq - Capacity + 1 <= n
    BY <1>1, <1>2, <1>3, <1>4, EventAssumption DEF OldestSeq
  <2>2. Slot(n) \in 0..(Capacity - 1)
    BY <2>1, SlotInRing
  <2>3. written[Slot(n)].seq = n
    <3>1. CASE n = seq
      BY <3>1, <1>8
    <3>2. CASE n < seq
      <4>1. Slot(n) # Slot(seq)
        <5>1. n \in Nat /\ n < seq /\ seq < n + Capacity
          BY <1>1, <1>2, <1>4, <2>1, <3>2, EventAssumption
        <5> QED
          BY <5>1, <1>1, SlotsDiffer
      <4>2. written[Slot(n)] = buf[Slot(n)]
        BY <4>1, <2>2 DEF StreamInv, StreamType
      <4>3. n \in OldestSeq..latestSeq
        BY <1>1, <1>2, <1>4, <2>1, <3>2, EventAssumption DEF OldestSeq
      <4> QED
        BY <4>2, <4>3 DEF StreamInv, RingHolds
    <3> QED
      BY <2>1, <1>1, <3>1, <3>2
  <2>4. ~ \E m \in evicted : Slot(m) = Slot(n)
    <3> SUFFICES ASSUME NEW m \in evicted, Slot(m) = Slot(n) PROVE FALSE
      OBVIOUS
    <3>1. m = n
      BY <1>7, <2>3
    <3> QED
      BY <3>1, <1>7, <1>4, <1>2, <1>1, <2>1
  <2>5. buf'[Slot(n)] = written[Slot(n)]
    BY <1>3, <2>2, <2>4 DEF StreamInv, StreamType
  <2> QED
    BY <2>3, <2>5
<1>11. RingHolds'
  BY <1>10 DEF RingHolds
<1> QED
  BY <1>1, <1>3, <1>4, <1>9, <1>11

-----------------------------------------------------------------------------
(* A step that leaves the ring alone has only its readers to answer for.   *)
LEMMA ReaderKeepsInv ==
    ASSUME StreamInv, UNCHANGED <<seq, unstored, buf, latestSeq, floorSeq>>,
           nextSeq' \in [Readers -> Nat],
           phase' \in [Readers -> Reading \cup {"new", "ended", "draining", "closed"}],
           OpenIsPlaced'
    PROVE  StreamInv'
<1>1. StreamType' /\ NumberedIsNext' /\ FloorIsPublished'
  BY DEF StreamInv, StreamType, NumberedIsNext, FloorIsPublished
<1>2. RingHolds'
  BY DEF StreamInv, RingHolds, OldestSeq, Slot
<1> QED
  BY <1>1, <1>2 DEF StreamInv

(* NewReader opens a reader that was not open, anywhere but at 0.          *)
LEMMA OpenReaderStep ==
    ASSUME StreamInv, NEW r \in Readers, OpenReader(r)
    PROVE  StreamInv' /\ Log!LogOpen(r)
<1>1. nextSeq[r] = 0
  BY DEF OpenReader, StreamInv, OpenIsPlaced
<1>2. PICK after \in 0..(IF r \in Streams THEN MaxSeq ELSE seq) :
        nextSeq' = [nextSeq EXCEPT ![r] = after + 1]
  BY DEF OpenReader
<1>3. after \in Nat /\ nextSeq' \in [Readers -> Nat] /\ nextSeq'[r] = after + 1
  BY <1>2, EventAssumption DEF StreamInv, StreamType
<1>4. phase' = [phase EXCEPT ![r] = "reading"]
      /\ UNCHANGED <<seq, unstored, buf, latestSeq, floorSeq, got, missed>>
  BY DEF OpenReader, ringVars
<1>5. /\ phase' \in [Readers -> Reading \cup {"new", "ended", "draining", "closed"}]
      /\ OpenIsPlaced'
  BY <1>2, <1>3, <1>4 DEF StreamInv, StreamType, OpenIsPlaced, Reading
<1>6. Log!LogOpen(r)
  BY <1>1, <1>2, <1>3, <1>4 DEF Log!LogOpen
<1> QED
  BY <1>3, <1>4, <1>5, <1>6, ReaderKeepsInv

(* A gap tells the reader exactly how far it is moved.                     *)
LEMMA GapStep ==
    ASSUME StreamInv, NEW r \in Readers, phase[r] # "new", latestSeq > 0, Gap(r),
           UNCHANGED <<seq, unstored, ringVars>>
    PROVE  /\ Log!LogGap(r)
           /\ nextSeq' \in [Readers -> Nat]
           /\ \A q \in Readers : nextSeq'[q] = 0 <=> nextSeq[q] = 0
<1>1. nextSeq \in [Readers -> Nat] /\ nextSeq[r] \in Nat /\ nextSeq[r] > 0
  BY DEF StreamInv, StreamType, OpenIsPlaced
<1>2. OldestSeq \in Nat /\ OldestSeq <= latestSeq /\ latestSeq \in Nat
  BY OldestIsPublished DEF StreamInv, StreamType
<1>3. OldestSeq \in (nextSeq[r] + 1)..latestSeq
  BY <1>1, <1>2 DEF Gap
<1>4. /\ nextSeq' = [nextSeq EXCEPT ![r] = OldestSeq]
      /\ missed' = [missed EXCEPT ![r] = @ + OldestSeq - nextSeq[r]]
      /\ UNCHANGED <<latestSeq, got>>
  BY DEF Gap, ringVars
<1>5. Log!LogGap(r)
  BY <1>1, <1>3, <1>4 DEF Log!LogGap
<1>6. /\ nextSeq' \in [Readers -> Nat]
      /\ \A q \in Readers : nextSeq'[q] = 0 <=> nextSeq[q] = 0
  BY <1>1, <1>2, <1>3, <1>4
<1> QED
  BY <1>5, <1>6

(* The envelope a reader is given is the one its position names: its slot  *)
(* has not moved on.                                                       *)
LEMMA DeliverStep ==
    ASSUME StreamInv, NEW r \in Readers, phase[r] # "new", Deliver(r),
           UNCHANGED <<seq, unstored, ringVars>>
    PROVE  /\ Log!LogDeliver(r)
           /\ nextSeq' \in [Readers -> Nat]
           /\ \A q \in Readers : nextSeq'[q] = 0 <=> nextSeq[q] = 0
<1>1. nextSeq \in [Readers -> Nat] /\ nextSeq[r] \in Nat /\ nextSeq[r] > 0
  BY DEF StreamInv, StreamType, OpenIsPlaced
<1>2. nextSeq[r] \in OldestSeq..latestSeq /\ OldestSeq \in Nat /\ latestSeq \in Nat
  BY OldestIsPublished DEF Deliver, StreamInv, StreamType
<1>3. buf[Slot(nextSeq[r])].seq = nextSeq[r]
  BY <1>2 DEF StreamInv, RingHolds
<1>4. /\ got' = [got EXCEPT ![r] = nextSeq[r]]
      /\ nextSeq' = [nextSeq EXCEPT ![r] = @ + 1]
      /\ UNCHANGED <<latestSeq, missed>>
  BY <1>3 DEF Deliver, ringVars
<1>5. Log!LogDeliver(r)
  BY <1>1, <1>2, <1>4 DEF Log!LogDeliver
<1>6. /\ nextSeq' \in [Readers -> Nat]
      /\ \A q \in Readers : nextSeq'[q] = 0 <=> nextSeq[q] = 0
  BY <1>1, <1>4
<1> QED
  BY <1>5, <1>6

(* A reader that waits is moved to the first event while there is none,    *)
(* which the abstract log allows.                                          *)
LEMMA WaitStep ==
    ASSUME StreamInv, NEW r \in Readers, phase[r] = "reading", Wait(r),
           UNCHANGED <<seq, unstored, ringVars>>
    PROVE  StreamInv' /\ (Log!LogOpen(r) \/ UNCHANGED Log!logVars)
<1>1. nextSeq \in [Readers -> Nat] /\ nextSeq[r] # 0
  BY DEF StreamInv, StreamType, OpenIsPlaced
<1>2. /\ nextSeq' = IF latestSeq = 0 THEN [nextSeq EXCEPT ![r] = 1] ELSE nextSeq
      /\ phase' = [phase EXCEPT ![r] = "waiting"]
      /\ UNCHANGED <<seq, unstored, buf, latestSeq, floorSeq, got, missed>>
  BY DEF Wait, ringVars
<1>3. nextSeq' \in [Readers -> Nat] /\ \A q \in Readers : nextSeq'[q] = 0 <=> nextSeq[q] = 0
  BY <1>1, <1>2
<1>4. /\ phase' \in [Readers -> Reading \cup {"new", "ended", "draining", "closed"}]
      /\ OpenIsPlaced'
  BY <1>2, <1>3 DEF StreamInv, StreamType, OpenIsPlaced, Reading
<1>5. Log!LogOpen(r) \/ UNCHANGED Log!logVars
  <2>1. CASE latestSeq = 0
    BY <1>1, <1>2, <2>1 DEF Log!LogOpen
  <2>2. CASE latestSeq # 0
    BY <1>2, <2>2 DEF Log!logVars
  <2> QED
    BY <2>1, <2>2
<1> QED
  BY <1>2, <1>3, <1>4, <1>5, ReaderKeepsInv

(* A gap and a delivery leave every reader as open as it was.              *)
LEMMA ReadOnStep ==
    ASSUME StreamInv, NEW r \in Readers, phase[r] # "new", latestSeq > 0,
           Gap(r) \/ Deliver(r), UNCHANGED <<seq, unstored, ringVars, phase>>
    PROVE  StreamInv' /\ (Log!LogGap(r) \/ Log!LogDeliver(r))
<1>1. /\ Log!LogGap(r) \/ Log!LogDeliver(r)
      /\ nextSeq' \in [Readers -> Nat]
      /\ \A q \in Readers : nextSeq'[q] = 0 <=> nextSeq[q] = 0
  BY GapStep, DeliverStep
<1>2. /\ phase' \in [Readers -> Reading \cup {"new", "ended", "draining", "closed"}]
      /\ OpenIsPlaced'
      /\ UNCHANGED <<seq, unstored, buf, latestSeq, floorSeq>>
  BY <1>1 DEF StreamInv, StreamType, OpenIsPlaced, ringVars
<1> QED
  BY <1>1, <1>2, ReaderKeepsInv

(* Waking, keepalives, cancellation and the stages of Stop move a reader's *)
(* goroutine and nothing a client sees.                                    *)
LEMMA QuietStep ==
    ASSUME StreamInv, NEW r \in Readers, phase[r] # "new",
           NEW stage \in Reading \cup {"ended", "draining", "closed"},
           phase' \in {phase, [phase EXCEPT ![r] = stage]},
           UNCHANGED <<seq, unstored, ringVars, nextSeq, got, missed>>
    PROVE  StreamInv' /\ UNCHANGED Log!logVars
<1>1. phase' \in [Readers -> Reading \cup {"new", "ended", "draining", "closed"}]
  BY DEF StreamInv, StreamType
<1>2. OpenIsPlaced'
  BY DEF StreamInv, StreamType, OpenIsPlaced, Reading
<1>3. nextSeq' \in [Readers -> Nat] /\ UNCHANGED <<buf, latestSeq, floorSeq>>
  BY DEF StreamInv, StreamType, ringVars
<1>4. UNCHANGED Log!logVars
  BY <1>3 DEF Log!logVars
<1> QED
  BY <1>1, <1>2, <1>3, <1>4, ReaderKeepsInv

(* Every step of a reader is a step of the abstract log, or invisible.     *)
LEMMA ReaderSteps ==
    ASSUME StreamInv, NEW r \in Readers,
           OpenReader(r) \/ ReaderStep(r) \/ KeepAlive(r) \/ CancelReader(r)
    PROVE  StreamInv' /\ [Log!LogNext]_(Log!logVars)
<1>1. CASE OpenReader(r)
  BY <1>1, OpenReaderStep DEF Log!LogNext
<1>2. CASE Read(r)
  <2>1. phase[r] = "reading" /\ UNCHANGED <<seq, unstored, ringVars, ctx>>
    BY <1>2 DEF Read
  <2>2. CASE latestSeq > 0 /\ (Gap(r) \/ Deliver(r)) /\ UNCHANGED phase
    <3>1. StreamInv' /\ (Log!LogGap(r) \/ Log!LogDeliver(r))
      BY <2>1, <2>2, ReadOnStep
    <3> QED
      BY <3>1 DEF Log!LogNext
  <2>3. CASE Wait(r)
    <3>1. StreamInv' /\ (Log!LogOpen(r) \/ UNCHANGED Log!logVars)
      BY <2>1, <2>3, WaitStep
    <3> QED
      BY <3>1 DEF Log!LogNext
  <2> QED
    BY <1>2, <2>2, <2>3 DEF Read
<1>3. CASE Woken(r) \/ KeepAlive(r)
  <2>1. /\ phase[r] # "new" /\ phase' = [phase EXCEPT ![r] = "reading"]
        /\ UNCHANGED <<seq, unstored, ringVars, nextSeq, got, missed>>
    BY <1>3 DEF Woken, KeepAlive
  <2> QED
    BY <2>1, QuietStep DEF Reading
<1>4. CASE CancelReader(r)
  <2>1. /\ phase[r] # "new" /\ phase' = phase
        /\ UNCHANGED <<seq, unstored, ringVars, nextSeq, got, missed>>
    BY <1>4 DEF CancelReader, Reading
  <2> QED
    BY <2>1, QuietStep DEF Reading
<1>5. CASE ReadCancelled(r)
  <2>1. /\ phase[r] # "new"
        /\ phase' \in {[phase EXCEPT ![r] = "ended"], [phase EXCEPT ![r] = "closed"]}
        /\ UNCHANGED <<seq, unstored, ringVars, nextSeq, got, missed>>
    BY <1>5 DEF ReadCancelled
  <2> QED
    BY <2>1, QuietStep
<1> QED
  BY <1>1, <1>2, <1>3, <1>4, <1>5 DEF ReaderStep

(* So is every step of Stop, which drains the ring of a writer.            *)
LEMMA WriterSteps ==
    ASSUME StreamInv, NEW w \in Writers, WriterStep(w)
    PROVE  StreamInv' /\ [Log!LogNext]_(Log!logVars)
<1> w \in Readers
  BY DEF Readers
<1>1. CASE StartDrain(w) \/ StopExpires(w)
  <2>1. /\ phase[w] # "new"
        /\ phase' \in {[phase EXCEPT ![w] = "ended"], [phase EXCEPT ![w] = "draining"]}
        /\ UNCHANGED <<seq, unstored, ringVars, nextSeq, got, missed>>
    BY <1>1 DEF StartDrain, StopExpires
  <2> QED
    BY <2>1, QuietStep
<1>2. CASE Drain(w)
  <2>1. phase[w] = "draining" /\ UNCHANGED <<seq, unstored, ringVars, ctx>>
    BY <1>2 DEF Drain
  <2>2. CASE latestSeq > 0 /\ (Gap(w) \/ Deliver(w)) /\ UNCHANGED phase
    <3>1. StreamInv' /\ (Log!LogGap(w) \/ Log!LogDeliver(w))
      BY <2>1, <2>2, ReadOnStep
    <3> QED
      BY <3>1 DEF Log!LogNext
  <2>3. CASE /\ phase' = [phase EXCEPT ![w] = "closed"]
             /\ UNCHANGED <<nextSeq, got, missed, unsaved>>
    BY <2>1, <2>3, QuietStep
  <2> QED
    BY <1>2, <2>2, <2>3 DEF Drain
<1> QED
  BY <1>1, <1>2 DEF WriterStep

(* A publish appends the next number; waking readers is not seen.          *)
LEMMA PublishSteps ==
    ASSUME StreamInv, AssignSeq \/ StoreEnvelope
    PROVE  StreamInv' /\ [Log!LogNext]_(Log!logVars)
<1>1. CASE AssignSeq
  <2>1. PICK size \in Sizes : unstored' = {size}
    BY <1>1 DEF AssignSeq
  <2>2. /\ seq' = seq + 1 /\ unstored = {}
        /\ UNCHANGED <<buf, latestSeq, floorSeq, nextSeq, phase, got, missed>>
    BY <1>1 DEF AssignSeq, ringVars, readerVars
  <2>3. StreamType' /\ NumberedIsNext' /\ FloorIsPublished' /\ OpenIsPlaced'
    BY <2>1, <2>2
    DEF StreamInv, StreamType, NumberedIsNext, FloorIsPublished, OpenIsPlaced
  <2>4. RingHolds'
    BY <2>2 DEF StreamInv, RingHolds, OldestSeq, Slot
  <2>5. UNCHANGED Log!logVars
    BY <2>2 DEF Log!logVars
  <2> QED
    BY <2>3, <2>4, <2>5 DEF StreamInv
<1>2. CASE StoreEnvelope
  <2>1. PICK size \in unstored : RingPublish(size)
    BY <1>2 DEF StoreEnvelope
  <2>2. /\ phase' = [r \in Readers |-> Wake(r)] /\ unstored' = {}
        /\ UNCHANGED <<seq, nextSeq, got, missed>>
    BY <1>2 DEF StoreEnvelope
  <2>3. /\ latestSeq' = seq /\ seq = latestSeq + 1
        /\ floorSeq' \in floorSeq..seq
        /\ buf' \in [0..(Capacity - 1) -> [seq : Nat, size : Sizes \cup {0}]]
        /\ RingHolds'
    BY <2>1, RingPublishHolds
  <2>4. phase' \in [Readers -> Reading \cup {"new", "ended", "draining", "closed"}]
    BY <2>2 DEF StreamInv, StreamType, Wake, Reading
  <2>5. OpenIsPlaced'
    BY <2>2 DEF StreamInv, StreamType, OpenIsPlaced, Wake
  <2>6. StreamType' /\ NumberedIsNext' /\ FloorIsPublished'
    BY <2>2, <2>3, <2>4 DEF StreamInv, StreamType, NumberedIsNext, FloorIsPublished
  <2>7. Log!LogPublish
    BY <2>2, <2>3 DEF Log!LogPublish
  <2> QED
    BY <2>3, <2>5, <2>6, <2>7 DEF StreamInv, Log!LogNext
<1> QED
  BY <1>1, <1>2

-----------------------------------------------------------------------------
(* A new stream is empty and nobody reads it.                              *)
LEMMA StreamInitHolds == ASSUME Init PROVE StreamInv /\ Log!LogInit
<1>1. StreamType /\ NumberedIsNext /\ FloorIsPublished /\ OpenIsPlaced
  BY DEF Init, StreamType, NumberedIsNext, FloorIsPublished, OpenIsPlaced, Reading, Empty
<1>2. RingHolds
  BY EventAssumption DEF Init, RingHolds, OldestSeq
<1>3. Log!LogInit
  BY DEF Init, Log!LogInit
<1> QED
  BY <1>1, <1>2, <1>3 DEF StreamInv

(* Every step keeps the invariant, and is a step of the log or invisible.  *)
LEMMA StreamNextHolds ==
    ASSUME StreamInv, [Next]_vars
    PROVE  StreamInv' /\ [Log!LogNext]_(Log!logVars)
<1>1. CASE AssignSeq \/ StoreEnvelope
  BY <1>1, PublishSteps
<1>2. ASSUME NEW r \in Readers,
             OpenReader(r) \/ ReaderStep(r) \/ KeepAlive(r) \/ CancelReader(r)
      PROVE  StreamInv' /\ [Log!LogNext]_(Log!logVars)
  BY <1>2, ReaderSteps
<1>3. ASSUME NEW w \in Writers, WriterStep(w)
      PROVE  StreamInv' /\ [Log!LogNext]_(Log!logVars)
  BY <1>3, WriterSteps
<1>4. CASE UNCHANGED vars
  <2>1. UNCHANGED <<seq, unstored, buf, latestSeq, floorSeq, nextSeq, phase, got, missed>>
    BY <1>4 DEF vars, ringVars, readerVars
  <2>2. OpenIsPlaced'
    BY <2>1 DEF StreamInv, OpenIsPlaced
  <2>3. UNCHANGED Log!logVars
    BY <2>1 DEF Log!logVars
  <2> QED
    BY <2>1, <2>2, <2>3, ReaderKeepsInv DEF StreamInv, StreamType
<1> QED
  BY <1>1, <1>2, <1>3, <1>4 DEF Next

(* The ring buffer keeps its slots straight: what has not been evicted is  *)
(* where a reader will look for it (rb.get), and a floor raised for bytes  *)
(* never passes the newest envelope.                                       *)
THEOREM RingKept == Spec => []StreamInv
<1>1. Init => StreamInv
  BY StreamInitHolds
<1>2. StreamInv /\ [Next]_vars => StreamInv'
  BY StreamNextHolds
<1> QED
  BY <1>1, <1>2, PTL DEF Spec

(* The event stream implements the log its readers are promised: a reader  *)
(* gets the envelopes in the order of their numbers, none twice, and each  *)
(* one it does not get is counted in a gap it is told of.                  *)
THEOREM StreamImplementsLog == Spec => ImplementsEventLog
<1>1. Init => Log!LogInit
  BY StreamInitHolds
<1>2. StreamInv /\ [Next]_vars => [Log!LogNext]_(Log!logVars)
  BY StreamNextHolds
<1> QED
  BY <1>1, <1>2, RingKept, PTL DEF Spec, ImplementsEventLog, Log!LogSpec

-----------------------------------------------------------------------------
(* The telemetry session. *)

(* The inductive invariant.  Each mutex has one holder: monitorMu and      *)
(* storageMu are held by different stages of a request.                    *)
OneHolder ==
    \A q, r \in Requests :
        /\ {pc[q], pc[r]} \subseteq {"admitted", "settling"} => q = r
        /\ {pc[q], pc[r]} \subseteq {"settling", "opening"} => q = r
        /\ {pc[q], pc[r]} \subseteq {"exporting"} => q = r

(* Storage is on only in a session, and since the boundary every event was *)
(* captured for it.                                                        *)
StoredSince(after) == \A n \in (after + 1)..Latest : captured[n]

SessionStores == session.s2 => session.active /\ StoredSince(session.after)

(* A writer is opened once, and as long as it is, or may come to be, no    *)
(* request turns storage off, not even by its roll-back.                   *)
Opening == \E r \in Requests : pc[r] = "opening"

WriterIsWanted ==
    /\ s2.open => s2.ever
    /\ Opening => ~s2.ever
    /\ (s2.ever \/ Opening) /\ session.active => session.s2
    /\ s2.open \/ Opening => StoredSince(s2.after)

RollbackKeepsStorage ==
    \A r \in Requests :
        pc[r] = "settling" /\ s2.ever /\ former[r].active => former[r].s2

(* Who has changed the configuration will read it again under exportMu;    *)
(* when nobody has, whoever is about to apply it has read the last one.    *)
Pursued == \E r \in Requests : pc[r] \in {"settling", "export"}

Exported == export = session.otlp \/ (session.otlp /\ exportLost)

ExportFollows ==
    life = "up" /\ ~Pursued =>
        \/ \E r \in Requests : pc[r] = "exporting" /\ wanted[r].otlp = session.otlp
        \/ Exported /\ \A r \in Requests : pc[r] # "exporting"

TelemetryInv ==
    /\ TelemetryTypeOK /\ OneHolder /\ SessionStores
    /\ WriterIsWanted /\ RollbackKeepsStorage /\ ExportFollows

-----------------------------------------------------------------------------
(* Every step keeps the types: a configuration is made of the categories.  *)
LEMMA PublishType ==
    ASSUME TelemetryTypeOK, Publish
    PROVE  TelemetryTypeOK'
<1>1. captured' \in Seq(BOOLEAN) /\ Len(captured') <= MaxCaptured
  BY TelemetryAssumption DEF TelemetryTypeOK, Publish, Session, Latest
<1> QED
  BY <1>1 DEF TelemetryTypeOK, Publish, Latest

(* What a PUT or a PATCH asks for is a configuration.                      *)
LEMMA BodiesAreConfigs ==
    ASSUME TelemetryTypeOK
    PROVE  PutBodies \subseteq Config /\ PatchBodies \subseteq Config
<1>1. \A toggle : \A default \in BOOLEAN : Resolve(toggle, default) \in BOOLEAN
  BY DEF Resolve
<1>2. \A cats, otlp, store : PutConfig(cats, otlp, store) \in Config
  BY <1>1 DEF PutConfig, Config
<1>3. \A cats, otlp, store : PatchConfig(cats, otlp, store) \in Config
  BY <1>1 DEF PatchConfig, Config, TelemetryTypeOK, Session
<1>4. PatchBodies \subseteq Config
  BY <1>3 DEF PatchBodies
<1>5. PutBodies \subseteq Config
  <2>1. \A cfg \in Config : [cfg EXCEPT !.cats = DefaultCats] \in Config
    BY DEF Config, DefaultCats, Cats
  <2> QED
    BY <1>2, <2>1 DEF PutBodies
<1> QED
  BY <1>4, <1>5

(* What a request makes of the session is a session again.                 *)
LEMMA SessionsAreMade ==
    ASSUME TelemetryTypeOK
    PROVE  /\ NoSession \in Session /\ NoConfig \in Config /\ Latest \in 0..MaxCaptured
           /\ \A s \in Session : StopSession(s) \in Session
           /\ \A cfg \in Config : StartSession(cfg) \in Session
           /\ \A s \in Session, cfg \in Config \cup Session : Update(s, cfg) \in Session
<1>1. Latest \in 0..MaxCaptured
  BY TelemetryAssumption DEF TelemetryTypeOK, Latest
<1>2. NoSession \in Session /\ NoConfig \in Config
  BY TelemetryAssumption DEF NoSession, NoConfig, Session, Config, DefaultCats, Cats
<1>3. \A s \in Session : StopSession(s) \in Session
  BY DEF StopSession, Session
<1>4. \A cfg \in Config : StartSession(cfg) \in Session
  BY <1>1 DEF StartSession, Session, Config
<1>5. \A s \in Session, cfg \in Config \cup Session : Update(s, cfg) \in Session
  BY <1>1 DEF Update, Session, Config
<1> QED
  BY <1>1, <1>2, <1>3, <1>4, <1>5

(* What reconcileTelemetryState and its roll-back set is a switch.         *)
LEMMA CollectorsAreSwitches ==
    ASSUME NEW r \in Requests, Settle(r), middleware \in BOOLEAN, capture \in BOOLEAN
    PROVE  middleware' \in BOOLEAN /\ capture' \in BOOLEAN
<1>1. \/ middleware' = ("control" \in wanted[r].cats)
      \/ middleware' = ("control" \in former[r].cats)
      \/ middleware' = FALSE
  BY DEF Settle, StopCollectors
<1>2. capture' = ("cdp" \in wanted[r].cats) \/ capture' = FALSE \/ capture' = capture
  BY DEF Settle, StopCollectors
<1>3. ("control" \in wanted[r].cats) \in BOOLEAN /\ ("control" \in former[r].cats) \in BOOLEAN
      /\ ("cdp" \in wanted[r].cats) \in BOOLEAN
  BY SMT
<1>4. middleware' \in BOOLEAN
  BY <1>1, <1>3, Zenon
<1>5. capture' \in BOOLEAN
  BY <1>2, <1>3, Zenon
<1> QED
  BY <1>4, <1>5

(* The S2 controller is one whether its writer opened or not.              *)
LEMMA OpenedIsController ==
    ASSUME NEW r \in Requests, OpenStorage(r),
           s2 \in [open : BOOLEAN, ever : BOOLEAN, after : 0..MaxCaptured]
    PROVE  s2' \in [open : BOOLEAN, ever : BOOLEAN, after : 0..MaxCaptured]
<1>1. 0 \in 0..MaxCaptured
  BY TelemetryAssumption
<1>2. \/ s2' = [s2 EXCEPT !.open = TRUE, !.ever = TRUE]
      \/ s2' = [s2 EXCEPT !.after = 0]
  BY DEF OpenStorage
<1> QED
  BY <1>1, <1>2

(* The writer is open, from where it was to begin, or nothing has changed. *)
LEMMA OpenedController ==
    ASSUME NEW r \in Requests, OpenStorage(r),
           s2 \in [open : BOOLEAN, ever : BOOLEAN, after : 0..MaxCaptured]
    PROVE  \/ s2'.open /\ s2'.ever /\ s2'.after = s2.after
           \/ s2'.open = s2.open /\ s2'.ever = s2.ever
<1>1. \/ s2' = [s2 EXCEPT !.open = TRUE, !.ever = TRUE]
      \/ s2' = [s2 EXCEPT !.after = 0]
  BY DEF OpenStorage
<1>2. ASSUME s2' = [s2 EXCEPT !.open = TRUE, !.ever = TRUE]
      PROVE  s2'.open /\ s2'.ever /\ s2'.after = s2.after
  BY <1>2
<1> QED
  BY <1>1, <1>2

(* So is what a request step leaves.                                       *)
LEMMA RequestType ==
    ASSUME TelemetryTypeOK, NEW r \in Requests, Admit(r) \/ RequestStep(r)
    PROVE  TelemetryTypeOK'
<1> USE SessionsAreMade DEF TelemetryTypeOK, Latest
<1>1. CASE Admit(r)
  <2>1. wanted' \in [Requests -> Config]
    BY <1>1, BodiesAreConfigs DEF Admit
  <2> QED
    BY <1>1, <2>1 DEF Admit, Stages
<1>2. CASE Conflict(r)
  BY <1>2 DEF Conflict, Stages
<1>3. CASE Clear(r)
  BY <1>3 DEF Clear, StopCollectors, Stages
<1>4. CASE Commit(r)
  BY <1>4 DEF Commit, Stages
<1>5. CASE Settle(r)
  <2>1. session' \in Session
    <3>1. /\ former[r] \in Session /\ session \in Session
          /\ session' \in {session, Update(session, former[r]), StopSession(session)}
      BY <1>5 DEF Settle
    <3>2. Update(session, former[r]) \in Session /\ StopSession(session) \in Session
      BY <3>1, SessionsAreMade
    <3> QED
      BY <3>1, <3>2
  <2>2. middleware' \in BOOLEAN /\ capture' \in BOOLEAN
    BY <1>5, CollectorsAreSwitches
  <2>3. /\ pc' = [pc EXCEPT ![r] = "export"]
        /\ wanted' = [wanted EXCEPT ![r] = NoConfig]
        /\ former' = [former EXCEPT ![r] = NoSession]
        /\ UNCHANGED <<captured, export, exportLost, s2, life>>
    BY <1>5 DEF Settle
  <2> QED
    BY <2>1, <2>2, <2>3 DEF Stages
<1>6. CASE ReadExport(r)
  <2>1. session.otlp \in BOOLEAN /\ wanted[r] \in Config
    BY DEF Session
  <2>2. [wanted[r] EXCEPT !.otlp = session.otlp] \in Config
    BY <2>1 DEF Config
  <2>3. wanted' = [wanted EXCEPT ![r] = [wanted[r] EXCEPT !.otlp = session.otlp]]
    BY <1>6 DEF ReadExport
  <2>4. wanted' \in [Requests -> Config]
    BY <2>2, <2>3
  <2> QED
    BY <1>6, <2>4 DEF ReadExport, Stages
<1>7. CASE ApplyExport(r)
  BY <1>7 DEF ApplyExport, Stages, Config
<1>8. CASE StartStorage(r)
  <2>1. s2' \in {s2, [s2 EXCEPT !.after = session.after]}
    BY <1>8 DEF StartStorage
  <2>2. \E st \in Stages : pc' = [pc EXCEPT ![r] = st]
    BY <1>8 DEF StartStorage, Stages
  <2>3. session.after \in 0..MaxCaptured
    BY DEF Session
  <2>4. UNCHANGED <<session, captured, middleware, capture, wanted, former, export, exportLost,
                    life>>
    BY <1>8 DEF StartStorage
  <2>5. s2' \in [open : BOOLEAN, ever : BOOLEAN, after : 0..MaxCaptured]
    <3>1. s2 \in [open : BOOLEAN, ever : BOOLEAN, after : 0..MaxCaptured]
      OBVIOUS
    <3>2. ASSUME NEW n \in 0..MaxCaptured
          PROVE  [s2 EXCEPT !.after = n] \in [open : BOOLEAN, ever : BOOLEAN, after : 0..MaxCaptured]
      BY <3>1
    <3> QED
      BY <2>1, <2>3, <3>1, <3>2
  <2>6. pc' \in [Requests -> Stages]
    BY <2>2
  <2>7. Latest' = Latest
    BY <2>4 DEF Latest
  <2> QED
    BY <2>4, <2>5, <2>6, <2>7
<1>9. CASE OpenStorage(r)
  <2>1. s2' \in [open : BOOLEAN, ever : BOOLEAN, after : 0..MaxCaptured]
    BY <1>9, OpenedIsController
  <2>2. /\ pc' = [pc EXCEPT ![r] = "done"]
        /\ UNCHANGED <<session, captured, middleware, capture, wanted, former, export,
                       exportLost, life>>
    BY <1>9 DEF OpenStorage
  <2> QED
    BY <2>1, <2>2 DEF Stages
<1> QED
  BY <1>1, <1>2, <1>3, <1>4, <1>5, <1>6, <1>7, <1>8, <1>9 DEF RequestStep

(* And what the shutdown leaves.                                           *)
LEMMA ShutdownType ==
    ASSUME TelemetryTypeOK, CancelLifecycle \/ StopAtShutdown \/ CloseSinks
    PROVE  TelemetryTypeOK'
  BY SessionsAreMade DEF TelemetryTypeOK, Latest, CancelLifecycle, StopAtShutdown, CloseSinks

-----------------------------------------------------------------------------
(* A request step takes a mutex only when nobody else has it.              *)
LEMMA MutexesExclude ==
    ASSUME TelemetryTypeOK, OneHolder, NEW r \in Requests, Admit(r) \/ RequestStep(r)
    PROVE  OneHolder'
<1>1. /\ pc' = [pc EXCEPT ![r] = pc'[r]]
      /\ pc'[r] \in {"admitted", "settling"} => MonitorFree \/ pc[r] = "admitted"
      /\ pc'[r] \in {"settling", "opening"} => StorageFree
      /\ pc'[r] = "exporting" => ExportFree
  BY DEF TelemetryTypeOK, Admit, RequestStep, Conflict, Clear, Commit, Settle, ReadExport,
     ApplyExport, StartStorage, OpenStorage
<1>2. \A q \in Requests : q # r => pc'[q] = pc[q]
  BY <1>1 DEF TelemetryTypeOK
<1> QED
  BY <1>1, <1>2 DEF OneHolder, MonitorFree, StorageFree, ExportFree

-----------------------------------------------------------------------------
(* An event is captured with storage on as long as storage is on.          *)
LEMMA PublishStores ==
    ASSUME TelemetryInv, Publish
    PROVE  SessionStores' /\ WriterIsWanted'
<1> USE DEF TelemetryInv, TelemetryTypeOK
<1>1. /\ captured' = Append(captured, session.s2) /\ session.active
      /\ UNCHANGED <<session, s2, pc>>
  BY DEF Publish
<1>2. session.s2 \in BOOLEAN
  BY DEF Session
<1>3. /\ Latest \in Nat /\ Latest' = Latest + 1
      /\ \A n \in 1..Latest : captured'[n] = captured[n]
      /\ captured'[Latest'] = session.s2
  BY <1>1, <1>2 DEF Latest
<1>4. ASSUME NEW after \in 0..MaxCaptured, session.s2, StoredSince(after)
      PROVE  StoredSince(after)'
  <2>1. SUFFICES ASSUME NEW n \in (after + 1)..Latest'
                 PROVE  captured'[n]
    BY DEF StoredSince
  <2>2. CASE n = Latest'
    BY <1>3, <1>4, <2>2
  <2>3. CASE n # Latest'
    <3>1. n \in (after + 1)..Latest /\ n \in 1..Latest
      BY <1>3, <2>1, <2>3
    <3>2. captured[n]
      BY <1>4, <3>1 DEF StoredSince
    <3> QED
      BY <1>3, <3>1, <3>2
  <2> QED
    BY <2>2, <2>3
<1>5. session.after \in 0..MaxCaptured /\ s2.after \in 0..MaxCaptured
  BY DEF Session
<1>6. SessionStores'
  <2>1. session.s2 => session.active /\ StoredSince(session.after)
    BY DEF SessionStores
  <2>2. session.s2 => StoredSince(session.after)'
    BY <1>1, <1>4, <1>5, <2>1 DEF StoredSince
  <2> QED
    BY <1>1, <2>2 DEF SessionStores
<1>7. WriterIsWanted'
  <2>1. s2.open \/ Opening => session.s2 /\ StoredSince(s2.after)
    BY <1>1 DEF WriterIsWanted
  <2>2. s2.open \/ Opening => StoredSince(s2.after)'
    BY <1>1, <1>4, <1>5, <2>1 DEF StoredSince
  <2> QED
    BY <1>1, <2>2 DEF WriterIsWanted, Opening
<1> QED
  BY <1>6, <1>7

(* The requests that leave the session and the S2 controller alone.        *)
LEMMA QuietStorage ==
    ASSUME TelemetryInv, NEW r \in Requests,
           Admit(r) \/ Conflict(r) \/ ReadExport(r) \/ ApplyExport(r)
    PROVE  SessionStores' /\ WriterIsWanted' /\ RollbackKeepsStorage'
<1> USE DEF TelemetryInv, TelemetryTypeOK
<1>1. /\ UNCHANGED <<session, captured, former, s2>>
      /\ pc' = [pc EXCEPT ![r] = pc'[r]] /\ pc'[r] \notin {"settling", "opening"}
      /\ pc[r] \notin {"settling", "opening"}
  BY DEF Admit, Conflict, ReadExport, ApplyExport
<1>2. \A q \in Requests : pc'[q] \in {"settling", "opening"} => pc'[q] = pc[q]
  BY <1>1
<1>3. Opening' <=> Opening
  BY <1>1, <1>2 DEF Opening
<1>4. SessionStores'
  BY <1>1 DEF SessionStores, StoredSince, Latest
<1>5. WriterIsWanted'
  BY <1>1, <1>3 DEF WriterIsWanted, StoredSince, Latest
<1>6. RollbackKeepsStorage'
  BY <1>1, <1>2 DEF RollbackKeepsStorage
<1> QED
  BY <1>4, <1>5, <1>6

(* Whoever holds storageMu to change the configuration waits for a writer  *)
(* that is being opened, and keeps storage on once there is one.           *)
LEMMA ChangeKeepsStorage ==
    ASSUME TelemetryInv, NEW r \in Requests, Clear(r) \/ Commit(r) \/ Settle(r)
    PROVE  SessionStores' /\ WriterIsWanted' /\ RollbackKeepsStorage'
<1> USE DEF TelemetryInv, TelemetryTypeOK
<1>1. /\ UNCHANGED <<captured, s2>> /\ Latest' = Latest
      /\ pc' = [pc EXCEPT ![r] = pc'[r]] /\ pc'[r] # "opening"
  BY DEF Clear, Commit, Settle, Latest
<1>2. ~Opening /\ ~Opening'
  <2>1. ~Opening
    BY DEF Opening, OneHolder, Clear, Commit, Settle, StorageFree
  <2> QED
    BY <1>1, <2>1 DEF Opening
<1>3. \/ session' = session
      \/ session' = StopSession(session)
      \/ session' = StartSession(wanted[r]) /\ (s2.ever => wanted[r].s2)
      \/ session' = Update(session, wanted[r]) /\ (s2.ever => wanted[r].s2)
      \/ session' = Update(session, former[r]) /\ (s2.ever => former[r].s2)
  <2>1. CASE Clear(r)
    BY <2>1 DEF Clear
  <2>2. CASE Commit(r)
    BY <2>2 DEF Commit, Conflicts
  <2>3. CASE Settle(r)
    BY <2>3 DEF Settle, RollbackKeepsStorage
  <2> QED
    BY <2>1, <2>2, <2>3
<1>4. session \in Session /\ wanted[r] \in Config /\ former[r] \in Session /\ Latest \in Nat
  BY DEF Latest
<1>5. /\ StopSession(session).s2 = FALSE /\ StopSession(session).active = FALSE
      /\ StartSession(wanted[r]).s2 = wanted[r].s2
      /\ StartSession(wanted[r]).active = TRUE /\ StartSession(wanted[r]).after = Latest
      /\ \A cfg \in {wanted[r], former[r]} :
            /\ Update(session, cfg).s2 = cfg.s2 /\ Update(session, cfg).active = TRUE
            /\ \/ Update(session, cfg).after = Latest
               \/ ~cfg.s2
               \/ session.s2 /\ Update(session, cfg).after = session.after
  BY <1>4 DEF StopSession, StartSession, Update, Session
<1>6. /\ session'.s2 => session'.active /\ StoredSince(session'.after)
      /\ s2.ever /\ session'.active => session'.s2
  <2>1. StoredSince(Latest) /\ (session.s2 => session.active /\ StoredSince(session.after))
    BY <1>4 DEF SessionStores, StoredSince
  <2>2. CASE session' = session
    BY <2>1, <2>2 DEF WriterIsWanted
  <2>3. CASE session' = StopSession(session)
    BY <1>5, <2>3
  <2>4. CASE session' = StartSession(wanted[r]) /\ (s2.ever => wanted[r].s2)
    BY <1>5, <2>1, <2>4
  <2>5. CASE session' = Update(session, wanted[r]) /\ (s2.ever => wanted[r].s2)
    BY <1>5, <2>1, <2>5
  <2>6. CASE session' = Update(session, former[r]) /\ (s2.ever => former[r].s2)
    BY <1>5, <2>1, <2>6
  <2> QED
    BY <1>3, <2>2, <2>3, <2>4, <2>5, <2>6
<1>7. SessionStores'
  BY <1>1, <1>6 DEF SessionStores, StoredSince
<1>8. WriterIsWanted'
  BY <1>1, <1>2, <1>6 DEF WriterIsWanted, StoredSince
<1>9. RollbackKeepsStorage'
  <2>1. ASSUME NEW q \in Requests, pc'[q] = "settling", s2.ever, former'[q].active
        PROVE  former'[q].s2
    <3>1. CASE Commit(r) /\ q = r
      BY <2>1, <3>1 DEF Commit, WriterIsWanted
    <3>2. CASE q # r
      <4>1. pc[q] = "settling" /\ former'[q] = former[q]
        BY <1>1, <2>1, <3>2 DEF Clear, Commit, Settle
      <4> QED
        BY <2>1, <4>1 DEF RollbackKeepsStorage
    <3>3. CASE ~Commit(r) /\ q = r
      BY <2>1, <3>3 DEF Clear, Settle
    <3> QED
      BY <3>1, <3>2, <3>3
  <2> QED
    BY <1>1, <2>1 DEF RollbackKeepsStorage
<1> QED
  BY <1>7, <1>8, <1>9

(* The writer begins after the boundary of the session that wants it.      *)
LEMMA WriterKeepsStorage ==
    ASSUME TelemetryInv, NEW r \in Requests, StartStorage(r) \/ OpenStorage(r)
    PROVE  SessionStores' /\ WriterIsWanted' /\ RollbackKeepsStorage'
<1> USE DEF TelemetryInv, TelemetryTypeOK
<1>1. /\ UNCHANGED <<session, captured, former>> /\ Latest' = Latest
      /\ pc' = [pc EXCEPT ![r] = pc'[r]] /\ pc'[r] # "settling"
      /\ pc[r] # "settling"
  BY DEF StartStorage, OpenStorage, Opened, Latest
<1>2. SessionStores'
  BY <1>1 DEF SessionStores, StoredSince
<1>3. CASE StartStorage(r)
  <2>1. ~Opening
    BY <1>3 DEF StartStorage, StorageFree, Opening
  <2>2. CASE session.s2 /\ ~s2.ever /\ life = "up"
    <3>1. s2'.after = session.after /\ s2'.ever = s2.ever /\ s2'.open = s2.open
      BY <1>3, <2>2 DEF StartStorage
    <3>2. StoredSince(s2'.after)
      BY <2>2, <3>1 DEF SessionStores
    <3>3. WriterIsWanted'
      BY <1>1, <2>2, <3>1, <3>2 DEF WriterIsWanted, StoredSince
    <3> QED
      BY <1>1, <1>2, <3>1, <3>3 DEF RollbackKeepsStorage
  <2>3. CASE ~(session.s2 /\ ~s2.ever /\ life = "up")
    <3>1. s2' = s2 /\ pc'[r] = "done"
      BY <1>3, <2>3 DEF StartStorage
    <3>2. ~Opening'
      BY <1>1, <2>1, <3>1 DEF Opening
    <3> QED
      BY <1>1, <1>2, <2>1, <3>1, <3>2 DEF WriterIsWanted, RollbackKeepsStorage, StoredSince
  <2> QED
    BY <2>2, <2>3
<1>4. CASE OpenStorage(r)
  <2>1. Opening /\ ~Opening' /\ \A q \in Requests : pc[q] # "settling"
    BY <1>1, <1>4 DEF OpenStorage, Opened, Opening, OneHolder
  <2>2. ~s2.ever /\ ~s2.open /\ (session.active => session.s2) /\ StoredSince(s2.after)
    BY <2>1 DEF WriterIsWanted
  <2>3. \/ s2'.open /\ s2'.ever /\ s2'.after = s2.after
        \/ ~s2'.open /\ ~s2'.ever
    BY <1>4, <2>2, OpenedController
  <2>4. WriterIsWanted'
    BY <1>1, <2>1, <2>2, <2>3 DEF WriterIsWanted, StoredSince
  <2>5. RollbackKeepsStorage'
    BY <1>1, <2>1 DEF RollbackKeepsStorage
  <2> QED
    BY <1>2, <2>4, <2>5
<1> QED
  BY <1>3, <1>4

-----------------------------------------------------------------------------
(* Whoever changes the configuration will reconcile the export after it.   *)
LEMMA ChangeIsPursued ==
    ASSUME TelemetryInv, NEW r \in Requests,
           Conflict(r) \/ Clear(r) \/ Commit(r) \/ Settle(r)
    PROVE  ExportFollows'
<1>1. pc'[r] \in {"settling", "export"}
  BY DEF TelemetryInv, TelemetryTypeOK, Conflict, Clear, Commit, Settle
<1> QED
  BY <1>1 DEF ExportFollows, Pursued

(* Steps that have nothing to do with the export keep it where it is.      *)
LEMMA OthersKeepExport ==
    ASSUME TelemetryInv, NEW r \in Requests,
           Admit(r) \/ StartStorage(r) \/ OpenStorage(r)
    PROVE  ExportFollows'
<1> USE DEF TelemetryInv, TelemetryTypeOK
<1>1. CASE pc'[r] = "export"
  BY <1>1 DEF ExportFollows, Pursued
<1>2. CASE pc'[r] # "export"
  <2>1. /\ UNCHANGED <<session, export, exportLost, life>>
        /\ pc' = [pc EXCEPT ![r] = pc'[r]]
        /\ {pc[r], pc'[r]} \cap {"settling", "export", "exporting"} = {}
        /\ \A q \in Requests : q # r => wanted'[q] = wanted[q]
    BY <1>2 DEF Admit, StartStorage, OpenStorage, Opened
  <2>2. \A q \in Requests : {pc[q], pc'[q]} \cap {"settling", "export", "exporting"} # {}
                           => pc'[q] = pc[q] /\ wanted'[q] = wanted[q]
    BY <2>1
  <2>3. Pursued' <=> Pursued
    BY <2>2 DEF Pursued
  <2>4. /\ (\E q \in Requests : pc[q] = "exporting" /\ wanted[q].otlp = session.otlp)
              => \E q \in Requests : pc'[q] = "exporting" /\ wanted'[q].otlp = session'.otlp
        /\ (\A q \in Requests : pc[q] # "exporting")
              => \A q \in Requests : pc'[q] # "exporting"
    BY <2>1, <2>2
  <2>5. Exported' <=> Exported
    BY <2>1 DEF Exported
  <2> QED
    BY <2>1, <2>3, <2>4, <2>5 DEF ExportFollows
<1> QED
  BY <1>1, <1>2

(* Whoever has exportMu applies what the session wants now.                *)
LEMMA ReconcileExports ==
    ASSUME TelemetryInv, NEW r \in Requests, ReadExport(r) \/ ApplyExport(r)
    PROVE  ExportFollows'
<1> USE DEF TelemetryInv, TelemetryTypeOK
<1>1. CASE ReadExport(r)
  <2>1. wanted[r] \in Config /\ DOMAIN wanted[r] = {"cats", "otlp", "s2"}
    BY DEF Config
  <2>2. pc'[r] = "exporting" /\ wanted'[r].otlp = session'.otlp
    BY <1>1, <2>1 DEF ReadExport
  <2> QED
    BY <2>2 DEF ExportFollows
<1>2. CASE ApplyExport(r)
  <2>1. /\ UNCHANGED <<session, life>> /\ pc[r] = "exporting"
        /\ pc' = [pc EXCEPT ![r] = "storage"]
    BY <1>2 DEF ApplyExport
  <2>2. \A q \in Requests : pc'[q] # "exporting"
    BY <2>1 DEF OneHolder
  <2>3. Pursued' <=> Pursued
    BY <2>1 DEF Pursued
  <2>4. ASSUME life = "up", ~Pursued
        PROVE  Exported'
    <3>1. wanted[r].otlp = session.otlp
      BY <2>1, <2>4 DEF ExportFollows, OneHolder
    <3>2. CASE wanted[r].otlp /\ ~export
      BY <1>2, <2>1, <3>1, <3>2 DEF ApplyExport, Exported
    <3>3. CASE ~(wanted[r].otlp /\ ~export)
      BY <1>2, <2>1, <3>1, <3>3 DEF ApplyExport, Exported
    <3> QED
      BY <3>2, <3>3
  <2> QED
    BY <2>1, <2>2, <2>3, <2>4 DEF ExportFollows
<1> QED
  BY <1>1, <1>2

-----------------------------------------------------------------------------
(* The shutdown stops the session and the sinks, and no request.           *)
LEMMA ShutdownHolds ==
    ASSUME TelemetryInv, CancelLifecycle \/ StopAtShutdown \/ CloseSinks
    PROVE  TelemetryInv'
<1> USE DEF TelemetryInv
<1>1. TelemetryTypeOK'
  BY ShutdownType
<1>2. /\ UNCHANGED <<pc, captured, former>> /\ life' # "up"
      /\ session' \in {session, StopSession(session)}
      /\ s2' \in {s2, [s2 EXCEPT !.open = FALSE]}
  BY DEF CancelLifecycle, StopAtShutdown, CloseSinks
<1>3. /\ session' = session \/ (~session'.active /\ ~session'.s2)
      /\ s2'.after = s2.after /\ s2'.ever = s2.ever /\ (s2'.open => s2.open)
  <2>1. ~StopSession(session).active /\ ~StopSession(session).s2
    BY DEF TelemetryTypeOK, Session, StopSession
  <2>2. ASSUME s2' = [s2 EXCEPT !.open = FALSE]
        PROVE  s2'.after = s2.after /\ s2'.ever = s2.ever /\ ~s2'.open
    BY <2>2 DEF TelemetryTypeOK
  <2> QED
    BY <1>2, <2>1, <2>2
<1>4. OneHolder'
  BY <1>2 DEF OneHolder
<1>5. SessionStores'
  BY <1>2, <1>3 DEF SessionStores, StoredSince, Latest
<1>6. WriterIsWanted'
  BY <1>2, <1>3 DEF WriterIsWanted, Opening, StoredSince, Latest
<1>7. RollbackKeepsStorage'
  BY <1>2, <1>3 DEF RollbackKeepsStorage
<1>8. ExportFollows'
  BY <1>2 DEF ExportFollows
<1> QED
  BY <1>1, <1>4, <1>5, <1>6, <1>7, <1>8

(* Initially nobody holds a mutex and nothing is wanted.                   *)
LEMMA TelemetryInitHolds == TelemetryInit => TelemetryInv
<1> SUFFICES ASSUME TelemetryInit PROVE TelemetryInv
  OBVIOUS
<1> USE DEF TelemetryInit
<1>1. TelemetryTypeOK
  <2>1. NoSession \in Session /\ NoConfig \in Config /\ 0 \in 0..MaxCaptured
    BY TelemetryAssumption DEF NoSession, NoConfig, Session, Config, DefaultCats, Cats
  <2>2. captured \in Seq(BOOLEAN) /\ Latest <= MaxCaptured
    BY TelemetryAssumption DEF Latest
  <2> QED
    BY <2>1, <2>2 DEF TelemetryTypeOK, Stages
<1>2. OneHolder /\ RollbackKeepsStorage
  BY DEF OneHolder, RollbackKeepsStorage
<1>3. SessionStores /\ WriterIsWanted
  BY DEF SessionStores, WriterIsWanted, Opening, NoSession
<1>4. ExportFollows
  BY DEF ExportFollows, Exported, NoSession
<1> QED
  BY <1>1, <1>2, <1>3, <1>4 DEF TelemetryInv

(* Every step keeps the invariant.                                         *)
LEMMA TelemetryNextHolds == TelemetryInv /\ [TelemetryNext]_telemetryVars => TelemetryInv'
<1> SUFFICES ASSUME TelemetryInv, [TelemetryNext]_telemetryVars PROVE TelemetryInv'
  OBVIOUS
<1>1. CASE Publish
  <2>1. TelemetryTypeOK'
    BY <1>1, PublishType DEF TelemetryInv
  <2>2. SessionStores' /\ WriterIsWanted'
    BY <1>1, PublishStores
  <2>3. OneHolder' /\ RollbackKeepsStorage' /\ ExportFollows'
    BY <1>1 DEF TelemetryInv, Publish, OneHolder, RollbackKeepsStorage, ExportFollows,
       Pursued, Exported
  <2> QED
    BY <2>1, <2>2, <2>3 DEF TelemetryInv
<1>2. ASSUME NEW r \in Requests, Admit(r) \/ RequestStep(r)
      PROVE  TelemetryInv'
  <2>1. TelemetryTypeOK' /\ OneHolder'
    BY <1>2, RequestType, MutexesExclude DEF TelemetryInv
  <2>2. SessionStores' /\ WriterIsWanted' /\ RollbackKeepsStorage'
    BY <1>2, QuietStorage, ChangeKeepsStorage, WriterKeepsStorage DEF RequestStep
  <2>3. ExportFollows'
    BY <1>2, ChangeIsPursued, OthersKeepExport, ReconcileExports DEF RequestStep
  <2> QED
    BY <2>1, <2>2, <2>3 DEF TelemetryInv
<1>3. CASE CancelLifecycle \/ StopAtShutdown \/ CloseSinks
  BY <1>3, ShutdownHolds
<1>4. CASE UNCHANGED telemetryVars
  BY <1>4 DEF telemetryVars, TelemetryInv, TelemetryTypeOK, OneHolder, SessionStores,
     WriterIsWanted, RollbackKeepsStorage, ExportFollows, Opening, StoredSince, Pursued,
     Exported, Latest
<1> QED
  BY <1>1, <1>2, <1>3, <1>4 DEF TelemetryNext

(* The invariant of the session, its two sinks and their three locks.      *)
THEOREM InvariantHolds == TelemetrySpec => []TelemetryInv
<1>1. TelemetrySpec => TelemetryInit /\ [][TelemetryNext]_telemetryVars
  BY DEF TelemetrySpec
<1> QED
  BY <1>1, TelemetryInitHolds, TelemetryNextHolds, PTL

(* Every value the handlers of PUT and PATCH commit, roll back and apply   *)
(* has its type.                                                           *)
THEOREM TypeCorrect == TelemetrySpec => []TelemetryTypeOK
<1>1. TelemetryInv => TelemetryTypeOK
  BY DEF TelemetryInv
<1> QED
  BY <1>1, InvariantHolds, PTL

(* The S2 writer that reconcileStorage opens stores no event that was      *)
(* captured with storage off, whatever requests overlap, whatever start    *)
(* fails and however often the session ends and begins again.              *)
THEOREM StorageKeepsWhatWasWanted == TelemetrySpec => []StoredWasWanted
<1>1. TelemetryInv => StoredWasWanted
  BY DEF TelemetryInv, WriterIsWanted, StoredSince, StoredWasWanted
<1> QED
  BY <1>1, InvariantHolds, PTL

(* Once no request holds monitorMu or exportMu or waits for exportMu, the  *)
(* OTLP writer runs exactly if the committed configuration wants it, or    *)
(* its last start failed (reconcileExport).                                *)
THEOREM ExportFollowsConfig == TelemetrySpec => []ExportConverges
<1>1. TelemetryInv => ExportConverges
  <2> SUFFICES ASSUME TelemetryInv, life = "up",
                      \A r \in Requests : pc[r] \in {"start", "storage", "opening", "done"}
               PROVE  export = session.otlp \/ (session.otlp /\ exportLost)
    BY DEF ExportConverges
  <2>1. ~Pursued /\ \A r \in Requests : pc[r] # "exporting"
    BY DEF Pursued
  <2> QED
    BY <2>1 DEF TelemetryInv, ExportFollows, Exported
<1> QED
  BY <1>1, InvariantHolds, PTL

-----------------------------------------------------------------------------
(* The tools of pages. *)

(* What an invocation is made of.                                         *)
InvocationStages == {"new", "sending", "sent", "started", "waiting", "answered"}
Answers == {"none", "not found", "refused", "unknown", "result", "awaiting submission",
            "unloaded"}

AnInvocation == [stage : InvocationStages, frame : Frames, form : BOOLEAN]

InvocationType ==
    /\ run \in [Invocations -> {"no", "running", "done", "lost"}]
    /\ reply \in [Invocations -> {"none", "asked", "started", "refused"}]
    /\ invocation \in [Invocations -> AnInvocation]
    /\ answer \in [Invocations -> Answers]

(* What has come back tells what has been asked for: a tool only runs once *)
(* its command was accepted; nothing is asked before the command is        *)
(* written; and whoever was refused asked nothing, or got a refusal.       *)
AsWasAsked == \A i \in Invocations :
    /\ run[i] # "no" => reply[i] = "started"
    /\ invocation[i].stage \in {"new", "sending"} => reply[i] = "none"
    /\ answer[i] # "none" => invocation[i].stage = "answered"
    /\ answer[i] \in {"not found", "refused"} => reply[i] \in {"none", "refused"}

(* An invocation that goes on, or is answered, leaves the others alone.    *)
LEMMA GotoOne ==
    ASSUME InvocationType, NEW i \in Invocations, NEW s \in InvocationStages, Goto(i, s)
    PROVE  /\ invocation' \in [Invocations -> AnInvocation]
           /\ invocation'[i].stage = s
           /\ \A j \in Invocations \ {i} : invocation'[j] = invocation[j]
<1>1. invocation[i] \in AnInvocation
  BY DEF InvocationType
<1>2. invocation' = [invocation EXCEPT ![i] = [invocation[i] EXCEPT !.stage = s]]
  BY DEF Goto
<1>3. [invocation[i] EXCEPT !.stage = s] \in AnInvocation
  BY <1>1 DEF AnInvocation
<1> QED
  BY <1>1, <1>2, <1>3 DEF InvocationType, AnInvocation

(* An answer that says that nothing ran is for one that asked for nothing, *)
(* or was refused.                                                         *)
LEMMA AnswerKeeps ==
    ASSUME InvocationType, AsWasAsked, NEW i \in Invocations, NEW a \in Answers, Answer(i, a),
           UNCHANGED <<run, reply>>,
           a \in {"not found", "refused"} => reply[i] \in {"none", "refused"}
    PROVE  InvocationType' /\ AsWasAsked'
<1>1. /\ invocation' \in [Invocations -> AnInvocation]
      /\ invocation'[i].stage = "answered"
      /\ \A j \in Invocations \ {i} : invocation'[j] = invocation[j]
  BY GotoOne DEF Answer, InvocationStages
<1>2. answer' = [answer EXCEPT ![i] = a]
  BY DEF Answer
<1> QED
  BY <1>1, <1>2 DEF InvocationType, AsWasAsked

(* The browser answers a command once, and runs only what it has accepted. *)
LEMMA BrowserKeeps ==
    ASSUME InvocationType, AsWasAsked, BrowserStep
    PROVE  InvocationType' /\ AsWasAsked'
<1>1. CASE Navigate \/ Loaded \/ RemoveChild \/ PageEnds("crashed") \/ PageEnds("closed")
  <2>1. /\ UNCHANGED <<reply, invocation, answer>>
        /\ \E gone : run' = Lost(gone)
    BY <1>1 DEF Navigate, Loaded, RemoveChild, PageEnds, callVars
  <2> QED
    BY <2>1 DEF Lost, InvocationType, AsWasAsked
<1>2. ASSUME NEW i \in Invocations, Accept(i)
      PROVE  InvocationType' /\ AsWasAsked'
  <2>1. /\ UNCHANGED <<invocation, answer>> /\ reply[i] = "asked"
        /\ \/ run' = [run EXCEPT ![i] = "running"] /\ reply' = [reply EXCEPT ![i] = "started"]
           \/ run' = run /\ reply' = [reply EXCEPT ![i] = "refused"]
    BY <1>2 DEF Accept, callVars
  <2>2. run[i] = "no" /\ invocation[i].stage \notin {"new", "sending"}
    BY <2>1 DEF AsWasAsked
  <2>3. InvocationType'
    BY <2>1 DEF InvocationType
  <2>4. /\ \A j \in Invocations \ {i} : run'[j] = run[j] /\ reply'[j] = reply[j]
        /\ run'[i] = "no" \/ reply'[i] = "started"
    BY <2>1, <2>2 DEF InvocationType
  <2>5. answer'[i] \in {"not found", "refused"} => reply'[i] = "refused"
    BY <2>1 DEF AsWasAsked
  <2>6. AsWasAsked'
    BY <2>1, <2>2, <2>4, <2>5 DEF AsWasAsked
  <2> QED
    BY <2>3, <2>6
<1>3. ASSUME NEW i \in Invocations, Respond(i)
      PROVE  InvocationType' /\ AsWasAsked'
  BY <1>3 DEF Respond, callVars, InvocationType, AsWasAsked
<1> QED
  BY <1>1, <1>2, <1>3 DEF BrowserStep

(* An invocation is found or not, and written or not.                      *)
LEMMA AskingKeeps ==
    ASSUME InvocationType, AsWasAsked, NEW i \in Invocations,
           Invoke(i) \/ Write(i) \/ WriteFails(i) \/ ContextEnds(i)
    PROVE  InvocationType' /\ AsWasAsked'
<1>1. CASE Invoke(i)
  <2>1. invocation[i].stage = "new" /\ answer[i] = "none" /\ UNCHANGED <<run, reply>>
    BY <1>1 DEF Invoke, browserVars, AsWasAsked
  <2>2. PICK f \in Frames, form \in BOOLEAN, known \in BOOLEAN :
            /\ invocation' = [invocation EXCEPT ![i] =
                    [stage |-> IF known THEN "sending" ELSE "answered",
                     frame |-> f, form |-> form]]
            /\ answer' = [answer EXCEPT ![i] = IF known THEN @ ELSE "not found"]
    <3>1. PICK f \in Frames, form \in BOOLEAN :
            LET known == f \in tools /\ sessionEnabled IN
            /\ invocation' = [invocation EXCEPT ![i] =
                    [stage |-> IF known THEN "sending" ELSE "answered",
                     frame |-> f, form |-> form]]
            /\ answer' = [answer EXCEPT ![i] = IF known THEN @ ELSE "not found"]
      BY <1>1 DEF Invoke
    <3>2. CASE f \in tools /\ sessionEnabled
      BY <3>1, <3>2
    <3>3. CASE ~(f \in tools /\ sessionEnabled)
      BY <3>1, <3>3
    <3> QED
      BY <3>2, <3>3
  <2>3. CASE known
    <3>1. [stage |-> "sending", frame |-> f, form |-> form] \in AnInvocation
      BY DEF AnInvocation, InvocationStages
    <3> QED
      BY <2>1, <2>2, <2>3, <3>1 DEF InvocationType, AsWasAsked
  <2>4. CASE ~known
    <3>1. [stage |-> "answered", frame |-> f, form |-> form] \in AnInvocation
      BY DEF AnInvocation, InvocationStages
    <3> QED
      BY <2>1, <2>2, <2>4, <3>1 DEF InvocationType, AsWasAsked, Answers
  <2> QED
    BY <2>3, <2>4
<1>2. CASE Write(i)
  <2>1. /\ invocation' \in [Invocations -> AnInvocation]
        /\ invocation'[i].stage = "sent"
        /\ \A j \in Invocations \ {i} : invocation'[j] = invocation[j]
    BY <1>2, GotoOne DEF Write, InvocationStages
  <2>2. reply' = [reply EXCEPT ![i] = "asked"] /\ run' = run /\ answer' = answer
        /\ invocation[i].stage = "sending"
    BY <1>2 DEF Write
  <2>3. InvocationType'
    BY <2>1, <2>2 DEF InvocationType
  <2>4. run[i] = "no" /\ answer[i] = "none"
    BY <2>2 DEF AsWasAsked
  <2>5. reply'[i] = "asked" /\ \A j \in Invocations \ {i} : reply'[j] = reply[j]
    BY <2>2 DEF InvocationType
  <2>6. AsWasAsked'
    BY <2>1, <2>2, <2>4, <2>5 DEF AsWasAsked
  <2> QED
    BY <2>3, <2>6
<1>3. CASE WriteFails(i)
  <2>1. PICK why \in {"over", "closed", "broken"} : Answer(i, Failed(i, why))
    BY <1>3 DEF WriteFails
  <2>2. Failed(i, why) \in {"unknown", "refused"}
    BY DEF Failed
  <2>3. reply[i] = "none" /\ UNCHANGED <<run, reply>>
    BY <1>3 DEF WriteFails, browserVars, AsWasAsked
  <2> QED
    BY <2>1, <2>2, <2>3, AnswerKeeps DEF Answers
<1>4. CASE ContextEnds(i)
  BY <1>4 DEF ContextEnds, browserVars, InvocationType, AsWasAsked
<1> QED
  BY <1>1, <1>2, <1>3, <1>4

(* Its command returns, and it waits until something tells how it ended.   *)
LEMMA EndingKeeps ==
    ASSUME InvocationType, AsWasAsked, NEW i \in Invocations,
           \/ Returned(i) \/ Register(i) \/ TakesResult(i)
           \/ FindsAbandoned(i) \/ FindsUnloaded(i) \/ GivesUp(i)
    PROVE  InvocationType' /\ AsWasAsked'
<1>1. CASE Returned(i)
  <2>1. CASE reply[i] = "started" /\ Goto(i, "started") /\ UNCHANGED answer
    <3>1. /\ invocation' \in [Invocations -> AnInvocation]
          /\ invocation'[i].stage = "started"
          /\ \A j \in Invocations \ {i} : invocation'[j] = invocation[j]
      BY <2>1, GotoOne DEF InvocationStages
    <3>2. InvocationType'
      BY <1>1, <2>1, <3>1 DEF Returned, browserVars, InvocationType
    <3>3. invocation[i].stage = "sent" /\ answer[i] = "none" /\ UNCHANGED <<run, reply>>
      BY <1>1 DEF Returned, browserVars, AsWasAsked
    <3>4. AsWasAsked'
      BY <2>1, <3>1, <3>3 DEF AsWasAsked
    <3> QED
      BY <3>2, <3>4
  <2>2. CASE reply[i] = "refused" /\ Answer(i, Failed(i, "refused"))
    BY <1>1, <2>2, AnswerKeeps DEF Returned, browserVars, Failed, Answers
  <2>3. CASE Answer(i, Failed(i, "over")) \/ Answer(i, Failed(i, "closed"))
    BY <1>1, <2>3, AnswerKeeps DEF Returned, browserVars, Failed, Answers
  <2> QED
    BY <1>1, <2>1, <2>2, <2>3 DEF Returned
<1>2. CASE Register(i)
  <2>1. CASE Answer(i, "result") \/ Answer(i, "awaiting submission")
    <3>1. UNCHANGED <<run, reply>>
      BY <1>2 DEF Register, browserVars
    <3> QED
      BY <2>1, <3>1, AnswerKeeps DEF Answers
  <2>2. CASE Goto(i, "waiting") /\ UNCHANGED answer
    <3>1. /\ invocation' \in [Invocations -> AnInvocation]
          /\ invocation'[i].stage = "waiting"
          /\ \A j \in Invocations \ {i} : invocation'[j] = invocation[j]
      BY <2>2, GotoOne DEF InvocationStages
    <3>2. /\ UNCHANGED <<run, reply, answer>>
          /\ invocation[i].stage = "started"
      BY <1>2, <2>2 DEF Register, browserVars
    <3>3. answer[i] = "none"
      BY <3>2 DEF AsWasAsked
    <3>4. InvocationType'
      BY <3>1, <3>2 DEF InvocationType
    <3>5. AsWasAsked'
      BY <3>1, <3>2, <3>3 DEF AsWasAsked
    <3> QED
      BY <3>4, <3>5
  <2>3. CASE invocation[i].form
    <3>1. Answer(i, "result") \/ Answer(i, "awaiting submission")
      BY <1>2, <2>3 DEF Register
    <3> QED
      BY <2>1, <3>1
  <2>4. CASE ~invocation[i].form
    BY <1>2, <2>2, <2>4 DEF Register
  <2> QED
    BY <2>3, <2>4
<1>3. CASE TakesResult(i) \/ FindsAbandoned(i) \/ FindsUnloaded(i) \/ GivesUp(i)
  <2>1. /\ UNCHANGED <<run, reply>>
        /\ \/ UNCHANGED <<invocation, answer>>
           \/ \E a \in {"result", "unknown", "unloaded"} : Answer(i, a)
    BY <1>3 DEF TakesResult, FindsAbandoned, FindsUnloaded, GivesUp, browserVars
  <2>2. CASE UNCHANGED <<invocation, answer>>
    BY <2>1, <2>2 DEF InvocationType, AsWasAsked
  <2> QED
    BY <2>1, <2>2, AnswerKeeps DEF Answers
<1> QED
  BY <1>1, <1>2, <1>3

(* Every step keeps both.                                                  *)
LEMMA WebStep ==
    ASSUME InvocationType, AsWasAsked, [WebNext]_webVars
    PROVE  InvocationType' /\ AsWasAsked'
<1>1. CASE Handle \/ EnableSession \/ ConnectionEnds("lost") \/ ConnectionEnds("closed")
  BY <1>1 DEF Handle, EnableSession, ConnectionEnds, browserVars, callVars, InvocationType,
     AsWasAsked
<1>2. CASE UNCHANGED webVars
  BY <1>2 DEF webVars, browserVars, callVars, InvocationType, AsWasAsked
<1> QED
  BY <1>1, <1>2, BrowserKeeps, AskingKeeps, EndingKeeps DEF WebNext, InvocationStep

(* They hold at any moment.                                                *)
LEMMA WebInvariance == WebSpec => [](InvocationType /\ AsWasAsked)
<1>1. WebInit => InvocationType /\ AsWasAsked
  BY DEF WebInit, InvocationType, AnInvocation, InvocationStages, Answers, AsWasAsked,
     Frames
<1> QED
  BY <1>1, WebStep, PTL DEF WebSpec

(* After an answer that does not say "do not retry", the tool has not run  *)
(* and will not: for any invocations, whatever happens to the page, the    *)
(* connection and the callers.                                             *)
THEOREM RefusedNeverRuns == WebSpec => []RefusedDidNotRun
<1>1. InvocationType /\ AsWasAsked => RefusedDidNotRun
  BY DEF InvocationType, AsWasAsked, RefusedDidNotRun
<1> QED
  BY <1>1, WebInvariance, PTL

(* A result that has come to an invocation that waits is its answer.       *)
THEOREM ResultStays == WebSpec => ResultIsKept
<1> DEFINE Kept(i) == (invocation[i].stage = "waiting" /\ i \in completed /\ answer'[i] # answer[i])
                          => answer'[i] = "result"
<1>1. ASSUME InvocationType, [WebNext]_webVars
      PROVE  \A i \in Invocations : Kept(i)
  <2>1. CASE BrowserStep \/ Handle \/ EnableSession \/ ConnectionEnds("lost") \/ ConnectionEnds("closed")
    <3>1. answer' = answer
      BY <2>1 DEF BrowserStep, Navigate, Loaded, RemoveChild, PageEnds, Accept, Respond,
         Handle, EnableSession, ConnectionEnds, callVars
    <3> QED
      BY <3>1
  <2>2. ASSUME NEW i \in Invocations, Invoke(i) \/ InvocationStep(i) \/ ContextEnds(i),
               NEW j \in Invocations
        PROVE  Kept(j)
    <3>1. CASE j # i
      <4>1. answer'[j] = answer[j]
        BY <1>1, <2>2, <3>1 DEF InvocationType, Invoke, InvocationStep, ContextEnds, Write,
           WriteFails, Returned, Register, TakesResult, FindsAbandoned, FindsUnloaded,
           GivesUp, Answer
      <4> QED
        BY <4>1
    <3>2. CASE j = i
      BY <1>1, <2>2, <3>2 DEF InvocationType, Invoke, InvocationStep, ContextEnds, Write,
         WriteFails, Returned, Register, TakesResult, FindsAbandoned, FindsUnloaded,
         GivesUp, Answer
    <3> QED
      BY <3>1, <3>2
  <2>3. CASE UNCHANGED webVars
    BY <2>3 DEF webVars, callVars
  <2> QED
    BY <1>1, <2>1, <2>2, <2>3 DEF WebNext
<1> QED
  BY <1>1, WebInvariance, PTL DEF WebSpec, ResultIsKept

-----------------------------------------------------------------------------
(* The CDP monitor. *)

(* The worker has the lock alone.                                          *)
WorkerAlone ==
    worker.stage \notin {"idle", "locking"} =>
        handler = Idle /\ \A t \in Targets : ~ReadLocked(t)

(* What may publish belongs to what is applied, and has ended before the   *)
(* worker applies something else.                                          *)
BeforeApplying == {"idle", "locking", "draining"}

WorkIsCurrent ==
    /\ handler # Idle => handler = Current
    /\ async # Idle => async = Current /\ worker.stage \in BeforeApplying
    /\ timer.live \/ timer.stage = "checked" => timer.rev = applied.rev /\ timer.gen = conn.gen
    /\ timer.live => conn.status = "up" /\ worker.stage \in BeforeApplying
    /\ timer.stage = "checked" => worker.stage # "finishing"
    /\ computed # {} => worker.stage \in BeforeApplying

(* Between two connections nothing goes on.                                *)
NothingBetween ==
    /\ conn.status = "none" =>
        attached = {} /\ ready = {} /\ computed = {} /\ WorkFinished /\ TimersPassed
    /\ conn.status # "up" => domains = {}

(* Where listeners may be is remembered, and capture that is off, or about *)
(* to be, has none on the pages that are ready.                            *)
PagesAreKnown ==
    /\ listeners \subseteq obligations \cap alive
    /\ domains \subseteq optional \cap attached
    /\ conn.status = "up" => attached \subseteq alive
    /\ \A t \in Targets : setup[t] = "inject" => applied.on
    /\ worker.stage = "finishing" /\ conn.status = "up" => obligations = {} /\ domains = {}
    /\ ~applied.on /\ conn.status = "up" => ready \cap obligations = {} /\ domains = {}

MonitorInv ==
    /\ MonitorTypeOK /\ WorkerAlone /\ WorkIsCurrent /\ NothingBetween /\ PagesAreKnown
    /\ NothingStale

(* A connection that is lost keeps its types.                              *)
LEMMA LoseTyped ==
    ASSUME MonitorTypeOK, Lose
    PROVE  /\ conn' \in [gen : 0..MaxConns, status : {"none", "up", "down"}]
           /\ timer' \in [rev : 0..MaxRev, gen : 0..MaxConns,
                          stage : {"none", "fired", "checked"}, live : BOOLEAN]
           /\ domains' = {}
  BY DEF MonitorTypeOK, Lose

(* Capture is switched.                                                    *)
LEMMA MonitorSetTelemetry ==
    ASSUME MonitorInv, SetTelemetry
    PROVE  MonitorInv'
<1>0. /\ MonitorTypeOK /\ WorkerAlone /\ WorkIsCurrent /\ NothingBetween /\ PagesAreKnown
      /\ NothingStale
  BY DEF MonitorInv
<1>1. MonitorTypeOK'
  BY <1>0, MonitorAssumption DEF SetTelemetry, pageVars, workVars, MonitorTypeOK,
       State
<1>2. WorkerAlone'
  BY <1>0, MonitorAssumption DEF SetTelemetry, pageVars, workVars, WorkerAlone,
       ReadLocked
<1>3. WorkIsCurrent'
  BY <1>0, MonitorAssumption DEF SetTelemetry, pageVars, workVars, WorkIsCurrent,
       Current
<1>4. NothingBetween'
  BY <1>0, MonitorAssumption DEF SetTelemetry, pageVars, workVars, NothingBetween,
       WorkFinished, TimersPassed
<1>5. PagesAreKnown'
  BY <1>0, MonitorAssumption DEF SetTelemetry, pageVars, PagesAreKnown
<1>6. NothingStale'
  BY <1>0, MonitorAssumption DEF SetTelemetry, workVars, NothingStale
<1> QED
  BY <1>1, <1>2, <1>3, <1>4, <1>5, <1>6 DEF MonitorInv

(* An event is dispatched,                                                 *)
LEMMA MonitorDispatch ==
    ASSUME MonitorInv, Dispatch
    PROVE  MonitorInv'
<1>0. /\ MonitorTypeOK /\ WorkerAlone /\ WorkIsCurrent /\ NothingBetween /\ PagesAreKnown
      /\ NothingStale
  BY DEF MonitorInv
<1>1. MonitorTypeOK'
  BY <1>0, MonitorAssumption DEF Dispatch, gateVars, pageVars, MonitorTypeOK, State,
       Capture, Current
<1>2. WorkerAlone'
  BY <1>0, MonitorAssumption DEF Dispatch, gateVars, WorkerAlone, WriterWaits
<1>3. WorkIsCurrent'
  BY <1>0, MonitorAssumption DEF Dispatch, gateVars, pageVars, WorkIsCurrent,
       Current
<1>4. NothingBetween'
  BY <1>0, MonitorAssumption DEF Dispatch, NothingBetween
<1>5. PagesAreKnown'
  BY <1>0, MonitorAssumption DEF Dispatch, gateVars, pageVars, PagesAreKnown
<1>6. NothingStale'
  BY <1>0, MonitorAssumption DEF Dispatch, NothingStale
<1> QED
  BY <1>1, <1>2, <1>3, <1>4, <1>5, <1>6 DEF MonitorInv

(* and handled, which may leave work behind,                               *)
LEMMA MonitorHandled ==
    ASSUME MonitorInv, Handled
    PROVE  MonitorInv'
<1>0. /\ MonitorTypeOK /\ WorkerAlone /\ WorkIsCurrent /\ NothingBetween /\ PagesAreKnown
      /\ NothingStale
  BY DEF MonitorInv
<1>1. MonitorTypeOK'
  BY <1>0, MonitorAssumption DEF Handled, PublishCaptured, gateVars, pageVars,
       MonitorTypeOK, Capture, Idle
<1>2. WorkerAlone'
  BY <1>0, MonitorAssumption DEF Handled, gateVars, WorkerAlone
<1>3. WorkIsCurrent'
  BY <1>0, MonitorAssumption DEF Handled, gateVars, WorkerAlone, WorkIsCurrent,
       BeforeApplying, Current
<1>4. NothingBetween'
  BY <1>0, MonitorAssumption DEF Handled, pageVars, NothingBetween, WorkFinished
<1>5. PagesAreKnown'
  BY <1>0, MonitorAssumption DEF Handled, gateVars, pageVars, PagesAreKnown
<1>6. NothingStale'
  BY <1>0, MonitorAssumption DEF Handled, PublishCaptured, NothingStale,
       WorkIsCurrent
<1> QED
  BY <1>1, <1>2, <1>3, <1>4, <1>5, <1>6 DEF MonitorInv

(* and that publishes.                                                     *)
LEMMA MonitorAsyncPublishes ==
    ASSUME MonitorInv, AsyncPublishes
    PROVE  MonitorInv'
<1>0. /\ MonitorTypeOK /\ WorkerAlone /\ WorkIsCurrent /\ NothingBetween /\ PagesAreKnown
      /\ NothingStale
  BY DEF MonitorInv
<1>1. MonitorTypeOK'
  BY <1>0, MonitorAssumption DEF AsyncPublishes, PublishCaptured, gateVars,
       pageVars, MonitorTypeOK, Capture, Idle
<1>2. WorkerAlone'
  BY <1>0, MonitorAssumption DEF AsyncPublishes, gateVars, pageVars, WorkerAlone,
       ReadLocked
<1>3. WorkIsCurrent'
  BY <1>0, MonitorAssumption DEF AsyncPublishes, gateVars, WorkIsCurrent, Current
<1>4. NothingBetween'
  BY <1>0, MonitorAssumption DEF AsyncPublishes, pageVars, NothingBetween,
       WorkFinished
<1>5. PagesAreKnown'
  BY <1>0, MonitorAssumption DEF AsyncPublishes, gateVars, pageVars, PagesAreKnown
<1>6. NothingStale'
  BY <1>0, MonitorAssumption DEF AsyncPublishes, PublishCaptured, NothingStale,
       WorkIsCurrent
<1> QED
  BY <1>1, <1>2, <1>3, <1>4, <1>5, <1>6 DEF MonitorInv

(* The timer of a computed state fires,                                    *)
LEMMA MonitorTimerFires ==
    ASSUME MonitorInv, TimerFires
    PROVE  MonitorInv'
<1>0. /\ MonitorTypeOK /\ WorkerAlone /\ WorkIsCurrent /\ NothingBetween /\ PagesAreKnown
      /\ NothingStale
  BY DEF MonitorInv
<1>1. MonitorTypeOK'
  BY <1>0, MonitorAssumption DEF TimerFires, gateVars, pageVars, MonitorTypeOK,
       State
<1>2. WorkerAlone'
  BY <1>0, MonitorAssumption DEF TimerFires, gateVars, pageVars, WorkerAlone,
       ReadLocked
<1>3. WorkIsCurrent'
  BY <1>0, MonitorAssumption DEF TimerFires, gateVars, WorkIsCurrent, Current
<1>4. NothingBetween'
  BY <1>0, MonitorAssumption DEF TimerFires, pageVars, NothingBetween
<1>5. PagesAreKnown'
  BY <1>0, MonitorAssumption DEF TimerFires, gateVars, pageVars, PagesAreKnown
<1>6. NothingStale'
  BY <1>0, MonitorAssumption DEF TimerFires, NothingStale
<1> QED
  BY <1>1, <1>2, <1>3, <1>4, <1>5, <1>6 DEF MonitorInv

(* looks at its context                                                    *)
LEMMA MonitorTimerChecks ==
    ASSUME MonitorInv, TimerChecks
    PROVE  MonitorInv'
<1>0. /\ MonitorTypeOK /\ WorkerAlone /\ WorkIsCurrent /\ NothingBetween /\ PagesAreKnown
      /\ NothingStale
  BY DEF MonitorInv
<1>1. MonitorTypeOK'
  BY <1>0, MonitorAssumption DEF TimerChecks, NoTimer, gateVars, pageVars,
       MonitorTypeOK
<1>2. WorkerAlone'
  BY <1>0, MonitorAssumption DEF TimerChecks, gateVars, pageVars, WorkerAlone,
       ReadLocked
<1>3. WorkIsCurrent'
  BY <1>0, MonitorAssumption DEF TimerChecks, NoTimer, gateVars, pageVars,
       WorkIsCurrent, BeforeApplying, Current
<1>4. NothingBetween'
  BY <1>0, MonitorAssumption DEF TimerChecks, pageVars, NothingBetween,
       WorkFinished, TimersPassed, WorkIsCurrent, NoTimer
<1>5. PagesAreKnown'
  BY <1>0, MonitorAssumption DEF TimerChecks, gateVars, pageVars, PagesAreKnown
<1>6. NothingStale'
  BY <1>0, MonitorAssumption DEF TimerChecks, NothingStale
<1> QED
  BY <1>1, <1>2, <1>3, <1>4, <1>5, <1>6 DEF MonitorInv

(* and publishes.                                                          *)
LEMMA MonitorTimerPublishes ==
    ASSUME MonitorInv, TimerPublishes
    PROVE  MonitorInv'
<1>0. /\ MonitorTypeOK /\ WorkerAlone /\ WorkIsCurrent /\ NothingBetween /\ PagesAreKnown
      /\ NothingStale
  BY DEF MonitorInv
<1>1. MonitorTypeOK'
  BY <1>0, MonitorAssumption DEF TimerPublishes, PublishCaptured, NoTimer, gateVars,
       pageVars, MonitorTypeOK
<1>2. WorkerAlone'
  BY <1>0, MonitorAssumption DEF TimerPublishes, gateVars, pageVars, WorkerAlone,
       ReadLocked
<1>3. WorkIsCurrent'
  BY <1>0, MonitorAssumption DEF TimerPublishes, NoTimer, gateVars, pageVars,
       WorkIsCurrent, Current
<1>4. NothingBetween'
  BY <1>0, MonitorAssumption DEF TimerPublishes, pageVars, NothingBetween,
       TimersPassed
<1>5. PagesAreKnown'
  BY <1>0, MonitorAssumption DEF TimerPublishes, gateVars, pageVars, PagesAreKnown
<1>6. NothingStale'
  BY <1>0, MonitorAssumption DEF TimerPublishes, PublishCaptured, NothingStale,
       WorkIsCurrent, Current
<1> QED
  BY <1>1, <1>2, <1>3, <1>4, <1>5, <1>6 DEF MonitorInv

(* The surface attaches to a page.                                         *)
LEMMA MonitorAttach ==
    ASSUME MonitorInv, NEW t \in Targets, Attach(t)
    PROVE  MonitorInv'
<1>0. /\ MonitorTypeOK /\ WorkerAlone /\ WorkIsCurrent /\ NothingBetween /\ PagesAreKnown
      /\ NothingStale
  BY DEF MonitorInv
<1>1. MonitorTypeOK'
  BY <1>0, MonitorAssumption DEF Attach, gateVars, workVars, MonitorTypeOK,
       SetupStages
<1>2. WorkerAlone'
  BY <1>0, MonitorAssumption DEF Attach, gateVars, workVars, WorkerAlone, ReadLocked
<1>3. WorkIsCurrent'
  BY <1>0, MonitorAssumption DEF Attach, gateVars, workVars, WorkIsCurrent,
       BeforeApplying, Current, WriterWaits
<1>4. NothingBetween'
  BY <1>0, MonitorAssumption DEF Attach, NothingBetween
<1>5. PagesAreKnown'
  BY <1>0, MonitorAssumption DEF Attach, gateVars, PagesAreKnown
<1>6. NothingStale'
  BY <1>0, MonitorAssumption DEF Attach, workVars, NothingStale
<1> QED
  BY <1>1, <1>2, <1>3, <1>4, <1>5, <1>6 DEF MonitorInv

(* It detaches.                                                            *)
LEMMA MonitorDetach ==
    ASSUME MonitorInv, NEW t \in Targets, Detach(t)
    PROVE  MonitorInv'
<1>0. /\ MonitorTypeOK /\ WorkerAlone /\ WorkIsCurrent /\ NothingBetween /\ PagesAreKnown
      /\ NothingStale
  BY DEF MonitorInv
<1>1. MonitorTypeOK'
  BY <1>0, MonitorAssumption DEF Detach, gateVars, workVars, MonitorTypeOK
<1>2. WorkerAlone'
  BY <1>0, MonitorAssumption DEF Detach, gateVars, workVars, WorkerAlone, ReadLocked
<1>3. WorkIsCurrent'
  BY <1>0, MonitorAssumption DEF Detach, gateVars, workVars, WorkIsCurrent, Current
<1>4. NothingBetween'
  BY <1>0, MonitorAssumption DEF Detach, NothingBetween
<1>5. PagesAreKnown'
  BY <1>0, MonitorAssumption DEF Detach, gateVars, PagesAreKnown
<1>6. NothingStale'
  BY <1>0, MonitorAssumption DEF Detach, workVars, NothingStale
<1> QED
  BY <1>1, <1>2, <1>3, <1>4, <1>5, <1>6 DEF MonitorInv

(* A page is prepared: its network events,                                 *)
LEMMA MonitorNetworkEnabled ==
    ASSUME MonitorInv, NEW t \in Targets, NetworkEnabled(t)
    PROVE  MonitorInv'
<1>0. /\ MonitorTypeOK /\ WorkerAlone /\ WorkIsCurrent /\ NothingBetween /\ PagesAreKnown
      /\ NothingStale
  BY DEF MonitorInv
<1>1. MonitorTypeOK'
  <2>1. desired' \in State /\ applied' \in State
    BY <1>0 DEF NetworkEnabled, gateVars, MonitorTypeOK
  <2>2. signalled' \in BOOLEAN /\ enabled' \in BOOLEAN /\ stale' \in BOOLEAN
    BY <1>0 DEF NetworkEnabled, gateVars, MonitorTypeOK
  <2>3. worker' \in [stage : {"idle", "locking", "draining", "cleaning", "finishing"}, state : State]
    BY <1>0 DEF NetworkEnabled, gateVars, MonitorTypeOK
  <2>4. conn' \in [gen : 0..MaxConns, status : {"none", "up", "down"}]
    BY <1>0, LoseTyped DEF NetworkEnabled, gateVars, pageVars, workVars, MonitorTypeOK
  <2>5. /\ {alive, attached, ready, optional, computed}' \subseteq SUBSET Targets
       /\ {obligations, domains, listeners}' \subseteq SUBSET Targets
    BY <1>0, LoseTyped DEF NetworkEnabled, gateVars, pageVars, workVars, MonitorTypeOK
  <2>6. setup' \in [Targets -> SetupStages]
    BY <1>0 DEF NetworkEnabled, MonitorTypeOK, SetupStages
  <2>7. handler' \in Capture /\ async' \in Capture
    BY <1>0 DEF NetworkEnabled, MonitorTypeOK
  <2>8. timer' \in [rev : 0..MaxRev, gen : 0..MaxConns,
                  stage : {"none", "fired", "checked"}, live : BOOLEAN]
    BY <1>0, LoseTyped DEF NetworkEnabled, gateVars, pageVars, workVars, MonitorTypeOK
  <2> QED
    BY <2>1, <2>2, <2>3, <2>4, <2>5, <2>6, <2>7, <2>8 DEF MonitorTypeOK
<1>2. WorkerAlone'
  BY <1>0, MonitorAssumption DEF NetworkEnabled, gateVars, MonitorTypeOK,
       WorkerAlone, ReadLocked
<1>3. WorkIsCurrent'
  BY <1>0, MonitorAssumption DEF NetworkEnabled, Lose, gateVars, MonitorTypeOK,
       WorkIsCurrent, Current
<1>4. NothingBetween'
  BY <1>0, MonitorAssumption DEF NetworkEnabled, Lose, MonitorTypeOK,
       NothingBetween, WorkFinished
<1>5. PagesAreKnown'
  BY <1>0, MonitorAssumption DEF NetworkEnabled, Lose, gateVars, MonitorTypeOK,
       PagesAreKnown
<1>6. NothingStale'
  BY <1>0, MonitorAssumption DEF NetworkEnabled, NothingStale
<1> QED
  BY <1>1, <1>2, <1>3, <1>4, <1>5, <1>6 DEF MonitorInv

(* the lock,                                                               *)
LEMMA MonitorTakeReadLock ==
    ASSUME MonitorInv, NEW t \in Targets, TakeReadLock(t)
    PROVE  MonitorInv'
<1>0. /\ MonitorTypeOK /\ WorkerAlone /\ WorkIsCurrent /\ NothingBetween /\ PagesAreKnown
      /\ NothingStale
  BY DEF MonitorInv
<1>1. MonitorTypeOK'
  BY <1>0, MonitorAssumption DEF TakeReadLock, gateVars, workVars, MonitorTypeOK,
       SetupStages
<1>2. WorkerAlone'
  BY <1>0, MonitorAssumption DEF TakeReadLock, gateVars, WorkerAlone, WriterWaits
<1>3. WorkIsCurrent'
  BY <1>0, MonitorAssumption DEF TakeReadLock, gateVars, workVars, WorkIsCurrent,
       Current
<1>4. NothingBetween'
  BY <1>0, MonitorAssumption DEF TakeReadLock, NothingBetween, WorkFinished
<1>5. PagesAreKnown'
  BY <1>0, MonitorAssumption DEF TakeReadLock, gateVars, PagesAreKnown
<1>6. NothingStale'
  BY <1>0, MonitorAssumption DEF TakeReadLock, workVars, NothingStale
<1> QED
  BY <1>1, <1>2, <1>3, <1>4, <1>5, <1>6 DEF MonitorInv

(* what an earlier connection has left in it,                              *)
LEMMA MonitorCleanupAttached ==
    ASSUME MonitorInv, NEW t \in Targets, CleanupAttached(t)
    PROVE  MonitorInv'
<1>0. /\ MonitorTypeOK /\ WorkerAlone /\ WorkIsCurrent /\ NothingBetween /\ PagesAreKnown
      /\ NothingStale
  BY DEF MonitorInv
<1>1. MonitorTypeOK'
  <2>1. desired' \in State /\ applied' \in State
    BY <1>0 DEF CleanupAttached, gateVars, MonitorTypeOK
  <2>2. signalled' \in BOOLEAN /\ enabled' \in BOOLEAN /\ stale' \in BOOLEAN
    BY <1>0 DEF CleanupAttached, gateVars, MonitorTypeOK
  <2>3. worker' \in [stage : {"idle", "locking", "draining", "cleaning", "finishing"}, state : State]
    BY <1>0 DEF CleanupAttached, gateVars, MonitorTypeOK
  <2>4. conn' \in [gen : 0..MaxConns, status : {"none", "up", "down"}]
    BY <1>0, LoseTyped DEF CleanupAttached, MonitorTypeOK
  <2>5. /\ {alive, attached, ready, optional, computed}' \subseteq SUBSET Targets
       /\ {obligations, domains, listeners}' \subseteq SUBSET Targets
    BY <1>0, LoseTyped DEF CleanupAttached, MonitorTypeOK
  <2>6. setup' \in [Targets -> SetupStages]
    BY <1>0 DEF CleanupAttached, MonitorTypeOK, SetupStages
  <2>7. handler' \in Capture /\ async' \in Capture
    BY <1>0 DEF CleanupAttached, MonitorTypeOK
  <2>8. timer' \in [rev : 0..MaxRev, gen : 0..MaxConns,
                  stage : {"none", "fired", "checked"}, live : BOOLEAN]
    BY <1>0, LoseTyped DEF CleanupAttached, MonitorTypeOK
  <2> QED
    BY <2>1, <2>2, <2>3, <2>4, <2>5, <2>6, <2>7, <2>8 DEF MonitorTypeOK
<1>2. WorkerAlone'
  BY <1>0, MonitorAssumption DEF CleanupAttached, gateVars, WorkerAlone, ReadLocked
<1>3. WorkIsCurrent'
  BY <1>0, MonitorAssumption DEF CleanupAttached, Lose, gateVars, MonitorTypeOK,
       WorkIsCurrent, Current
<1>4. NothingBetween'
  BY <1>0, MonitorAssumption DEF CleanupAttached, Lose, MonitorTypeOK,
       NothingBetween, WorkFinished
<1>5. PagesAreKnown'
  BY <1>0, MonitorAssumption DEF CleanupAttached, Lose, Obliged, gateVars,
       MonitorTypeOK, PagesAreKnown
<1>6. NothingStale'
  BY <1>0, MonitorAssumption DEF CleanupAttached, NothingStale
<1> QED
  BY <1>1, <1>2, <1>3, <1>4, <1>5, <1>6 DEF MonitorInv

(* its optional domains                                                    *)
LEMMA MonitorEnableOptional ==
    ASSUME MonitorInv, NEW t \in Targets, EnableOptional(t)
    PROVE  MonitorInv'
<1>0. /\ MonitorTypeOK /\ WorkerAlone /\ WorkIsCurrent /\ NothingBetween /\ PagesAreKnown
      /\ NothingStale
  BY DEF MonitorInv
<1>1. MonitorTypeOK'
  BY <1>0, MonitorAssumption DEF EnableOptional, gateVars, workVars, MonitorTypeOK,
       SetupStages
<1>2. WorkerAlone'
  BY <1>0, MonitorAssumption DEF EnableOptional, gateVars, WorkerAlone, ReadLocked
<1>3. WorkIsCurrent'
  BY <1>0, MonitorAssumption DEF EnableOptional, gateVars, workVars, WorkerAlone,
       WorkIsCurrent, BeforeApplying, Current, ReadLocked
<1>4. NothingBetween'
  BY <1>0, MonitorAssumption DEF EnableOptional, NothingBetween, WorkFinished
<1>5. PagesAreKnown'
  BY <1>0, MonitorAssumption DEF EnableOptional, CaptureEnabled, gateVars,
       MonitorTypeOK, PagesAreKnown, WorkerAlone, ReadLocked
<1>6. NothingStale'
  BY <1>0, MonitorAssumption DEF EnableOptional, workVars, NothingStale
<1> QED
  BY <1>1, <1>2, <1>3, <1>4, <1>5, <1>6 DEF MonitorInv

(* and the script.                                                         *)
LEMMA MonitorInject ==
    ASSUME MonitorInv, NEW t \in Targets, Inject(t)
    PROVE  MonitorInv'
<1>0. /\ MonitorTypeOK /\ WorkerAlone /\ WorkIsCurrent /\ NothingBetween /\ PagesAreKnown
      /\ NothingStale
  BY DEF MonitorInv
<1>1. MonitorTypeOK'
  <2>1. desired' \in State /\ applied' \in State
    BY <1>0 DEF Inject, gateVars, MonitorTypeOK
  <2>2. signalled' \in BOOLEAN /\ enabled' \in BOOLEAN /\ stale' \in BOOLEAN
    BY <1>0 DEF Inject, gateVars, MonitorTypeOK
  <2>3. worker' \in [stage : {"idle", "locking", "draining", "cleaning", "finishing"}, state : State]
    BY <1>0 DEF Inject, gateVars, MonitorTypeOK
  <2>4. conn' \in [gen : 0..MaxConns, status : {"none", "up", "down"}]
    BY <1>0, LoseTyped DEF Inject, MonitorTypeOK
  <2>5. /\ {alive, attached, ready, optional, computed}' \subseteq SUBSET Targets
       /\ {obligations, domains, listeners}' \subseteq SUBSET Targets
    BY <1>0, LoseTyped DEF Inject, Uncertain, MonitorTypeOK
  <2>6. setup' \in [Targets -> SetupStages]
    BY <1>0 DEF Inject, MonitorTypeOK, SetupStages
  <2>7. handler' \in Capture /\ async' \in Capture
    BY <1>0 DEF Inject, MonitorTypeOK
  <2>8. timer' \in [rev : 0..MaxRev, gen : 0..MaxConns,
                  stage : {"none", "fired", "checked"}, live : BOOLEAN]
    BY <1>0, LoseTyped DEF Inject, MonitorTypeOK
  <2> QED
    BY <2>1, <2>2, <2>3, <2>4, <2>5, <2>6, <2>7, <2>8 DEF MonitorTypeOK
<1>2. WorkerAlone'
  BY <1>0, MonitorAssumption DEF Inject, gateVars, WorkerAlone, ReadLocked
<1>3. WorkIsCurrent'
  BY <1>0, MonitorAssumption DEF Inject, Lose, gateVars, MonitorTypeOK,
       WorkIsCurrent, Current
<1>4. NothingBetween'
  BY <1>0, MonitorAssumption DEF Inject, Lose, MonitorTypeOK, NothingBetween,
       WorkFinished
<1>5. PagesAreKnown'
  BY <1>0, MonitorAssumption DEF Inject, Lose, gateVars, MonitorTypeOK,
       PagesAreKnown, WorkerAlone, ReadLocked
<1>6. NothingStale'
  BY <1>0, MonitorAssumption DEF Inject, NothingStale
<1> QED
  BY <1>1, <1>2, <1>3, <1>4, <1>5, <1>6 DEF MonitorInv

(* The worker is told,                                                     *)
LEMMA MonitorWorkerStarts ==
    ASSUME MonitorInv, WorkerStarts
    PROVE  MonitorInv'
<1>0. /\ MonitorTypeOK /\ WorkerAlone /\ WorkIsCurrent /\ NothingBetween /\ PagesAreKnown
      /\ NothingStale
  BY DEF MonitorInv
<1>1. MonitorTypeOK'
  BY <1>0, MonitorAssumption DEF WorkerStarts, pageVars, workVars, MonitorTypeOK
<1>2. WorkerAlone'
  BY <1>0, MonitorAssumption DEF WorkerStarts, WorkerAlone
<1>3. WorkIsCurrent'
  BY <1>0, MonitorAssumption DEF WorkerStarts, workVars, WorkIsCurrent,
       BeforeApplying, Current
<1>4. NothingBetween'
  BY <1>0, MonitorAssumption DEF WorkerStarts, pageVars, workVars, NothingBetween,
       WorkFinished, TimersPassed
<1>5. PagesAreKnown'
  BY <1>0, MonitorAssumption DEF WorkerStarts, pageVars, PagesAreKnown
<1>6. NothingStale'
  BY <1>0, MonitorAssumption DEF WorkerStarts, workVars, NothingStale
<1> QED
  BY <1>1, <1>2, <1>3, <1>4, <1>5, <1>6 DEF MonitorInv

(* keeps readers out,                                                      *)
LEMMA MonitorWorkerLocks ==
    ASSUME MonitorInv, WorkerLocks
    PROVE  MonitorInv'
<1>0. /\ MonitorTypeOK /\ WorkerAlone /\ WorkIsCurrent /\ NothingBetween /\ PagesAreKnown
      /\ NothingStale
  BY DEF MonitorInv
<1>1. MonitorTypeOK'
  <2>1. desired' \in State /\ applied' \in State
    BY <1>0 DEF WorkerLocks, gateVars, pageVars, workVars, MonitorTypeOK
  <2>2. signalled' \in BOOLEAN /\ enabled' \in BOOLEAN /\ stale' \in BOOLEAN
    BY <1>0 DEF WorkerLocks, gateVars, pageVars, workVars, MonitorTypeOK
  <2>3. worker' \in [stage : {"idle", "locking", "draining", "cleaning", "finishing"}, state : State]
    BY <1>0 DEF WorkerLocks, gateVars, pageVars, workVars, MonitorTypeOK
  <2>4. conn' \in [gen : 0..MaxConns, status : {"none", "up", "down"}]
    BY <1>0 DEF WorkerLocks, gateVars, pageVars, workVars, MonitorTypeOK
  <2>5. /\ {alive, attached, ready, optional, computed}' \subseteq SUBSET Targets
       /\ {obligations, domains, listeners}' \subseteq SUBSET Targets
    BY <1>0 DEF WorkerLocks, gateVars, pageVars, workVars, MonitorTypeOK
  <2>6. setup' \in [Targets -> SetupStages]
    BY <1>0 DEF WorkerLocks, pageVars, MonitorTypeOK
  <2>7. handler' \in Capture /\ async' \in Capture
    BY <1>0 DEF WorkerLocks, workVars, MonitorTypeOK
  <2>8. timer' \in [rev : 0..MaxRev, gen : 0..MaxConns,
                  stage : {"none", "fired", "checked"}, live : BOOLEAN]
    BY <1>0 DEF WorkerLocks, gateVars, pageVars, workVars, MonitorTypeOK
  <2> QED
    BY <2>1, <2>2, <2>3, <2>4, <2>5, <2>6, <2>7, <2>8 DEF MonitorTypeOK
<1>2. WorkerAlone'
  BY <1>0, MonitorAssumption DEF WorkerLocks, pageVars, workVars, WorkerAlone,
       ReadLocked
<1>3. WorkIsCurrent'
  BY <1>0, MonitorAssumption DEF WorkerLocks, workVars, MonitorTypeOK,
       WorkIsCurrent, BeforeApplying, Current
<1>4. NothingBetween'
  BY <1>0, MonitorAssumption DEF WorkerLocks, pageVars, workVars, NothingBetween,
       WorkFinished, TimersPassed
<1>5. PagesAreKnown'
  BY <1>0, MonitorAssumption DEF WorkerLocks, pageVars, MonitorTypeOK, PagesAreKnown
<1>6. NothingStale'
  BY <1>0, MonitorAssumption DEF WorkerLocks, workVars, NothingStale
<1> QED
  BY <1>1, <1>2, <1>3, <1>4, <1>5, <1>6 DEF MonitorInv

(* waits for what may publish,                                             *)
LEMMA MonitorWorkerDrains ==
    ASSUME MonitorInv, WorkerDrains
    PROVE  MonitorInv'
<1>0. /\ MonitorTypeOK /\ WorkerAlone /\ WorkIsCurrent /\ NothingBetween /\ PagesAreKnown
      /\ NothingStale
  BY DEF MonitorInv
<1>1. MonitorTypeOK'
  <2>1. desired' \in State /\ applied' \in State
    BY <1>0 DEF WorkerDrains, MonitorTypeOK
  <2>2. signalled' \in BOOLEAN /\ enabled' \in BOOLEAN /\ stale' \in BOOLEAN
    BY <1>0 DEF WorkerDrains, MonitorTypeOK
  <2>3. worker' \in [stage : {"idle", "locking", "draining", "cleaning", "finishing"}, state : State]
    BY <1>0 DEF WorkerDrains, MonitorTypeOK
  <2>4. conn' \in [gen : 0..MaxConns, status : {"none", "up", "down"}]
    BY <1>0 DEF WorkerDrains, MonitorTypeOK
  <2>5. /\ {alive, attached, ready, optional, computed}' \subseteq SUBSET Targets
       /\ {obligations, domains, listeners}' \subseteq SUBSET Targets
    BY <1>0 DEF WorkerDrains, MonitorTypeOK
  <2>6. setup' \in [Targets -> SetupStages]
    BY <1>0 DEF WorkerDrains, MonitorTypeOK
  <2>7. handler' \in Capture /\ async' \in Capture
    BY <1>0 DEF WorkerDrains, MonitorTypeOK
  <2>8. timer' \in [rev : 0..MaxRev, gen : 0..MaxConns,
                  stage : {"none", "fired", "checked"}, live : BOOLEAN]
    BY <1>0 DEF WorkerDrains, MonitorTypeOK
  <2> QED
    BY <2>1, <2>2, <2>3, <2>4, <2>5, <2>6, <2>7, <2>8 DEF MonitorTypeOK
<1>2. WorkerAlone'
  BY <1>0, MonitorAssumption DEF WorkerDrains, WorkerAlone, ReadLocked
<1>3. WorkIsCurrent'
  BY <1>0, MonitorAssumption DEF WorkerDrains, Drained, WorkerAlone, WorkIsCurrent
<1>4. NothingBetween'
  BY <1>0, MonitorAssumption DEF WorkerDrains, NothingBetween, WorkFinished,
       TimersPassed
<1>5. PagesAreKnown'
  BY <1>0, MonitorAssumption DEF WorkerDrains, PagesAreKnown
<1>6. NothingStale'
  BY <1>0, MonitorAssumption DEF WorkerDrains, NothingStale
<1> QED
  BY <1>1, <1>2, <1>3, <1>4, <1>5, <1>6 DEF MonitorInv

(* cleans the pages                                                        *)
LEMMA MonitorWorkerCleans ==
    ASSUME MonitorInv, WorkerCleans
    PROVE  MonitorInv'
<1>0. /\ MonitorTypeOK /\ WorkerAlone /\ WorkIsCurrent /\ NothingBetween /\ PagesAreKnown
      /\ NothingStale
  BY DEF MonitorInv
<1>1. MonitorTypeOK'
  <2>1. desired' \in State /\ applied' \in State
    BY <1>0 DEF WorkerCleans, MonitorTypeOK
  <2>2. signalled' \in BOOLEAN /\ enabled' \in BOOLEAN /\ stale' \in BOOLEAN
    BY <1>0 DEF WorkerCleans, MonitorTypeOK
  <2>3. worker' \in [stage : {"idle", "locking", "draining", "cleaning", "finishing"}, state : State]
    BY <1>0 DEF WorkerCleans, MonitorTypeOK
  <2>4. conn' \in [gen : 0..MaxConns, status : {"none", "up", "down"}]
    BY <1>0, LoseTyped DEF WorkerCleans, CleanupFailed, MonitorTypeOK
  <2>5. /\ {alive, attached, ready, optional, computed}' \subseteq SUBSET Targets
       /\ {obligations, domains, listeners}' \subseteq SUBSET Targets
    BY <1>0, LoseTyped DEF WorkerCleans, CleanupFailed, MonitorTypeOK
  <2>6. setup' \in [Targets -> SetupStages]
    BY <1>0 DEF WorkerCleans, MonitorTypeOK
  <2>7. handler' \in Capture /\ async' \in Capture
    BY <1>0 DEF WorkerCleans, MonitorTypeOK
  <2>8. timer' \in [rev : 0..MaxRev, gen : 0..MaxConns,
                  stage : {"none", "fired", "checked"}, live : BOOLEAN]
    BY <1>0, LoseTyped DEF WorkerCleans, CleanupFailed, MonitorTypeOK
  <2> QED
    BY <2>1, <2>2, <2>3, <2>4, <2>5, <2>6, <2>7, <2>8 DEF MonitorTypeOK
<1>2. WorkerAlone'
  BY <1>0, MonitorAssumption DEF WorkerCleans, WorkerAlone, ReadLocked
<1>3. WorkIsCurrent'
  BY <1>0, MonitorAssumption DEF WorkerCleans, Lose, CleanupFailed, TimersPassed,
       MonitorTypeOK, WorkIsCurrent, BeforeApplying, Current
<1>4. NothingBetween'
  BY <1>0, MonitorAssumption DEF WorkerCleans, Lose, CleanupFailed, MonitorTypeOK,
       NothingBetween, WorkFinished, TimersPassed
<1>5. PagesAreKnown'
  BY <1>0, MonitorAssumption DEF WorkerCleans, Lose, CleanupFailed, MonitorTypeOK,
       PagesAreKnown
<1>6. NothingStale'
  BY <1>0, MonitorAssumption DEF WorkerCleans, NothingStale
<1> QED
  BY <1>1, <1>2, <1>3, <1>4, <1>5, <1>6 DEF MonitorInv

(* and applies the switch.                                                 *)
LEMMA MonitorWorkerFinishes ==
    ASSUME MonitorInv, WorkerFinishes
    PROVE  MonitorInv'
<1>0. /\ MonitorTypeOK /\ WorkerAlone /\ WorkIsCurrent /\ NothingBetween /\ PagesAreKnown
      /\ NothingStale
  BY DEF MonitorInv
<1>1. MonitorTypeOK'
  <2>1. desired' \in State /\ applied' \in State
    BY <1>0 DEF WorkerFinishes, gateVars, pageVars, workVars, MonitorTypeOK
  <2>2. signalled' \in BOOLEAN /\ enabled' \in BOOLEAN /\ stale' \in BOOLEAN
    BY <1>0 DEF WorkerFinishes, gateVars, pageVars, workVars, MonitorTypeOK
  <2>3. worker' \in [stage : {"idle", "locking", "draining", "cleaning", "finishing"}, state : State]
    BY <1>0 DEF WorkerFinishes, gateVars, pageVars, workVars, MonitorTypeOK
  <2>4. conn' \in [gen : 0..MaxConns, status : {"none", "up", "down"}]
    BY <1>0 DEF WorkerFinishes, gateVars, pageVars, workVars, MonitorTypeOK
  <2>5. /\ {alive, attached, ready, optional, computed}' \subseteq SUBSET Targets
       /\ {obligations, domains, listeners}' \subseteq SUBSET Targets
    BY <1>0 DEF WorkerFinishes, gateVars, pageVars, workVars, MonitorTypeOK
  <2>6. setup' \in [Targets -> SetupStages]
    <3>1. \/ setup' = setup
          \/ setup' = [t \in Targets |-> IF worker.state.on /\ t \in ready THEN "again" ELSE setup[t]]
      BY DEF WorkerFinishes, gateVars, pageVars, workVars
    <3>2. setup \in [Targets -> SetupStages] /\ "again" \in SetupStages
      BY <1>0 DEF MonitorTypeOK, SetupStages
    <3> QED
      BY <3>1, <3>2
  <2>7. handler' \in Capture /\ async' \in Capture
    BY <1>0 DEF WorkerFinishes, workVars, MonitorTypeOK
  <2>8. timer' \in [rev : 0..MaxRev, gen : 0..MaxConns,
                  stage : {"none", "fired", "checked"}, live : BOOLEAN]
    BY <1>0 DEF WorkerFinishes, gateVars, pageVars, workVars, MonitorTypeOK
  <2> QED
    BY <2>1, <2>2, <2>3, <2>4, <2>5, <2>6, <2>7, <2>8 DEF MonitorTypeOK
<1>2. WorkerAlone'
  BY <1>0, MonitorAssumption DEF WorkerFinishes, WorkerAlone
<1>3. WorkIsCurrent'
  BY <1>0, MonitorAssumption DEF WorkerFinishes, workVars, WorkerAlone,
       WorkIsCurrent, BeforeApplying
<1>4. NothingBetween'
  BY <1>0, MonitorAssumption DEF WorkerFinishes, gateVars, pageVars, workVars,
       MonitorTypeOK, NothingBetween, WorkFinished, TimersPassed, ReadLocked,
       WorkIsCurrent, NoTimer
<1>5. PagesAreKnown'
  <2>1. UNCHANGED <<conn, alive, attached, ready, optional, obligations, domains, listeners>>
    BY DEF WorkerFinishes, gateVars, pageVars, workVars
  <2>2. \A t \in Targets : ~ReadLocked(t) /\ setup'[t] # "inject"
    BY <1>0 DEF WorkerFinishes, WorkerAlone, ReadLocked
  <2>3. conn.status = "up" => obligations = {} /\ domains = {}
    BY <1>0 DEF WorkerFinishes, gateVars, pageVars, workVars, PagesAreKnown
  <2>4. worker'.stage # "finishing"
    BY <1>0 DEF WorkerFinishes, gateVars, pageVars, workVars, MonitorTypeOK
  <2> QED
    BY <1>0, <2>1, <2>2, <2>3, <2>4 DEF PagesAreKnown
<1>6. NothingStale'
  BY <1>0, MonitorAssumption DEF WorkerFinishes, workVars, NothingStale
<1> QED
  BY <1>1, <1>2, <1>3, <1>4, <1>5, <1>6 DEF MonitorInv

(* The connection is lost,                                                 *)
LEMMA MonitorLoseConnection ==
    ASSUME MonitorInv, LoseConnection
    PROVE  MonitorInv'
<1>0. /\ MonitorTypeOK /\ WorkerAlone /\ WorkIsCurrent /\ NothingBetween /\ PagesAreKnown
      /\ NothingStale
  BY DEF MonitorInv
<1>1. MonitorTypeOK'
  <2>1. desired' \in State /\ applied' \in State
    BY <1>0 DEF LoseConnection, gateVars, MonitorTypeOK
  <2>2. signalled' \in BOOLEAN /\ enabled' \in BOOLEAN /\ stale' \in BOOLEAN
    BY <1>0 DEF LoseConnection, gateVars, MonitorTypeOK
  <2>3. worker' \in [stage : {"idle", "locking", "draining", "cleaning", "finishing"}, state : State]
    BY <1>0 DEF LoseConnection, gateVars, MonitorTypeOK
  <2>4. conn' \in [gen : 0..MaxConns, status : {"none", "up", "down"}]
    BY <1>0, LoseTyped DEF LoseConnection, gateVars, pageVars, workVars, MonitorTypeOK
  <2>5. /\ {alive, attached, ready, optional, computed}' \subseteq SUBSET Targets
       /\ {obligations, domains, listeners}' \subseteq SUBSET Targets
    BY <1>0, LoseTyped DEF LoseConnection, gateVars, pageVars, workVars, MonitorTypeOK
  <2>6. setup' \in [Targets -> SetupStages]
    BY <1>0 DEF LoseConnection, MonitorTypeOK
  <2>7. handler' \in Capture /\ async' \in Capture
    BY <1>0 DEF LoseConnection, MonitorTypeOK
  <2>8. timer' \in [rev : 0..MaxRev, gen : 0..MaxConns,
                  stage : {"none", "fired", "checked"}, live : BOOLEAN]
    BY <1>0, LoseTyped DEF LoseConnection, gateVars, pageVars, workVars, MonitorTypeOK
  <2> QED
    BY <2>1, <2>2, <2>3, <2>4, <2>5, <2>6, <2>7, <2>8 DEF MonitorTypeOK
<1>2. WorkerAlone'
  BY <1>0, MonitorAssumption DEF LoseConnection, gateVars, WorkerAlone, ReadLocked
<1>3. WorkIsCurrent'
  BY <1>0, MonitorAssumption DEF LoseConnection, Lose, gateVars, WorkIsCurrent,
       Current
<1>4. NothingBetween'
  BY <1>0, MonitorAssumption DEF LoseConnection, Lose, NothingBetween
<1>5. PagesAreKnown'
  BY <1>0, MonitorAssumption DEF LoseConnection, Lose, gateVars, PagesAreKnown
<1>6. NothingStale'
  BY <1>0, MonitorAssumption DEF LoseConnection, NothingStale
<1> QED
  BY <1>1, <1>2, <1>3, <1>4, <1>5, <1>6 DEF MonitorInv

(* is closed once its work has ended,                                      *)
LEMMA MonitorCloseConnection ==
    ASSUME MonitorInv, CloseConnection
    PROVE  MonitorInv'
<1>0. /\ MonitorTypeOK /\ WorkerAlone /\ WorkIsCurrent /\ NothingBetween /\ PagesAreKnown
      /\ NothingStale
  BY DEF MonitorInv
<1>1. MonitorTypeOK'
  BY <1>0, MonitorAssumption DEF CloseConnection, gateVars, workVars, MonitorTypeOK
<1>2. WorkerAlone'
  BY <1>0, MonitorAssumption DEF CloseConnection, gateVars, WorkerAlone
<1>3. WorkIsCurrent'
  BY <1>0, MonitorAssumption DEF CloseConnection, gateVars, workVars, WorkIsCurrent,
       WorkFinished
<1>4. NothingBetween'
  BY <1>0, MonitorAssumption DEF CloseConnection, workVars, NothingBetween,
       WorkFinished, TimersPassed
<1>5. PagesAreKnown'
  BY <1>0, MonitorAssumption DEF CloseConnection, gateVars, PagesAreKnown,
       NothingBetween
<1>6. NothingStale'
  BY <1>0, MonitorAssumption DEF CloseConnection, workVars, NothingStale
<1> QED
  BY <1>1, <1>2, <1>3, <1>4, <1>5, <1>6 DEF MonitorInv

(* and replaced by another one.                                            *)
LEMMA MonitorOpenConnection ==
    ASSUME MonitorInv, OpenConnection
    PROVE  MonitorInv'
<1>0. /\ MonitorTypeOK /\ WorkerAlone /\ WorkIsCurrent /\ NothingBetween /\ PagesAreKnown
      /\ NothingStale
  BY DEF MonitorInv
<1>1. MonitorTypeOK'
  BY <1>0, MonitorAssumption DEF OpenConnection, Pruned, gateVars, pageVars,
       workVars, MonitorTypeOK, State, Capture, SetupStages, Idle, Current, NoTimer
<1>2. WorkerAlone'
  BY <1>0, MonitorAssumption DEF OpenConnection, Pruned, gateVars, pageVars,
       workVars, MonitorTypeOK, WorkerAlone, ReadLocked, WriterWaits, SetupStages,
       NothingBetween, WorkFinished
<1>3. WorkIsCurrent'
  BY <1>0, MonitorAssumption DEF OpenConnection, Pruned, gateVars, pageVars,
       workVars, MonitorTypeOK, WorkerAlone, WorkIsCurrent, BeforeApplying, Current,
       CaptureEnabled, WriterWaits, ReadLocked, NothingBetween, WorkFinished,
       TimersPassed, NoTimer
<1>4. NothingBetween'
  BY <1>0, MonitorAssumption DEF OpenConnection, Pruned, gateVars, pageVars,
       workVars, MonitorTypeOK, NothingBetween, WorkFinished, TimersPassed,
       ReadLocked, WorkIsCurrent, NoTimer
<1>5. PagesAreKnown'
  BY <1>0, MonitorAssumption DEF OpenConnection, Pruned, gateVars, pageVars,
       workVars, MonitorTypeOK, PagesAreKnown, WorkerAlone, ReadLocked,
       NothingBetween, WorkFinished, State, CaptureEnabled, WriterWaits
<1>6. NothingStale'
  BY <1>0, MonitorAssumption DEF OpenConnection, Pruned, gateVars, pageVars,
       workVars, NothingStale, WorkIsCurrent, Current
<1> QED
  BY <1>1, <1>2, <1>3, <1>4, <1>5, <1>6 DEF MonitorInv

(* Every step keeps it.                                                    *)
LEMMA MonitorStep ==
    ASSUME MonitorInv, [MonitorNext]_monitorVars
    PROVE  MonitorInv'
<1>1. CASE SetTelemetry \/ Dispatch \/ TimerFires
  BY <1>1, MonitorSetTelemetry, MonitorDispatch, MonitorTimerFires
<1>2. CASE WorkStep
  BY <1>2, MonitorHandled, MonitorAsyncPublishes, MonitorTimerChecks, MonitorTimerPublishes
  DEF WorkStep
<1>3. ASSUME NEW t \in Targets, Attach(t) \/ Detach(t) PROVE MonitorInv'
  BY <1>3, MonitorAttach, MonitorDetach
<1>4. ASSUME NEW t \in Targets, SetupStep(t) PROVE MonitorInv'
  BY <1>4, MonitorNetworkEnabled, MonitorTakeReadLock, MonitorCleanupAttached,
     MonitorEnableOptional, MonitorInject
  DEF SetupStep
<1>5. CASE WorkerStep
  BY <1>5, MonitorWorkerStarts, MonitorWorkerLocks, MonitorWorkerDrains,
     MonitorWorkerCleans, MonitorWorkerFinishes
  DEF WorkerStep
<1>6. CASE LoseConnection \/ CloseConnection \/ OpenConnection
  BY <1>6, MonitorLoseConnection, MonitorCloseConnection, MonitorOpenConnection
<1>7. CASE UNCHANGED monitorVars
  BY <1>7 DEF MonitorInv, monitorVars, gateVars, pageVars, workVars, MonitorTypeOK,
     WorkerAlone, ReadLocked, WorkIsCurrent, Current, NothingBetween, WorkFinished,
     TimersPassed, PagesAreKnown, NothingStale
<1> QED
  BY <1>1, <1>2, <1>3, <1>4, <1>5, <1>6, <1>7 DEF MonitorNext

(* It holds before the first connection.                                   *)
LEMMA MonitorAtFirst ==
    ASSUME MonitorInit
    PROVE  MonitorInv
<1>1. MonitorTypeOK
  <2>1. desired \in State /\ applied \in State /\ worker.state \in State
    BY MonitorAssumption DEF MonitorInit, State
  <2>2. worker \in [stage : {"idle", "locking", "draining", "cleaning", "finishing"}, state : State]
    BY <2>1 DEF MonitorInit
  <2>3. handler \in Capture /\ async \in Capture
    BY MonitorAssumption DEF MonitorInit, Capture, Idle
  <2>4. timer \in [rev : 0..MaxRev, gen : 0..MaxConns,
                  stage : {"none", "fired", "checked"}, live : BOOLEAN]
    BY MonitorAssumption DEF MonitorInit, NoTimer
  <2>5. conn \in [gen : 0..MaxConns, status : {"none", "up", "down"}]
    BY MonitorAssumption DEF MonitorInit
  <2> QED
    BY <2>1, <2>2, <2>3, <2>4, <2>5 DEF MonitorInit, MonitorTypeOK, SetupStages
<1>2. WorkerAlone /\ NothingStale /\ PagesAreKnown
  BY DEF MonitorInit, WorkerAlone, NothingStale, PagesAreKnown
<1>3. WorkIsCurrent /\ NothingBetween
  BY DEF MonitorInit, WorkIsCurrent, NothingBetween, WorkFinished, TimersPassed, NoTimer
<1> QED
  BY <1>1, <1>2, <1>3 DEF MonitorInv

(* Whatever the switches, the pages and the losses of the connection: what *)
(* a capture has left running never publishes into a later one, and while  *)
(* capture is off, pages that are ready have no listeners and no domains.  *)
THEOREM CaptureStaysClean == MonitorSpec => []CaptureIsClean
<1>1. MonitorInit => MonitorInv
  BY MonitorAtFirst
<1>2. MonitorInv /\ [MonitorNext]_monitorVars => MonitorInv'
  BY MonitorStep
<1>3. MonitorInv => CaptureIsClean
  BY DEF MonitorInv, CaptureIsClean, OffMeansClean, PagesAreKnown
<1> QED
  BY <1>1, <1>2, <1>3, PTL DEF MonitorSpec

=============================================================================

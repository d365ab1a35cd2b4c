----------------------- MODULE FrameReassemblerProofs -----------------------
(***************************************************************************)
(* Theorems about FrameReassembler for frames of any size, any limits and  *)
(* any number of frames, readmissions and reconnects.                      *)
(***************************************************************************)
EXTENDS FrameReassembler, FiniteSetTheorems, SequenceTheorems, WellFoundedInduction, TLAPS

-----------------------------------------------------------------------------
\* The smallest of some numbers is one of them.
LEMMA MinIsOne ==
  ASSUME NEW S \in SUBSET Nat, S # {}
  PROVE  Min(S) \in S
<1>1. PICK k \in S : TRUE
  OBVIOUS
<1> DEFINE below == {0..(s - 1) : s \in {r \in S : r <= k}}
<1>2. below \subseteq SUBSET (0..k) /\ below # {}
  BY <1>1
<1>3. below \subseteq FiniteSubsetsOf(0..k)
  BY <1>2, FS_Interval, FS_Subset DEF FiniteSubsetsOf
<1>4. \E x \in below : \A y \in below : ~(<<y, x>> \in StrictSubsetOrdering(0..k))
  <2> HIDE DEF below
  <2> QED
    BY <1>2, <1>3, WFMin, FS_StrictSubsetOrderingWellFounded
<1>5. PICK m \in S : m <= k /\ \A y \in below : ~(y \subseteq 0..(m - 1) /\ y # 0..(m - 1))
  BY <1>2, <1>4 DEF StrictSubsetOrdering
<1>6. \A y \in S : m <= y
  <2> SUFFICES ASSUME NEW y \in S, y < m PROVE FALSE
    OBVIOUS
  <2>1. 0..(y - 1) \in below
    BY <1>5
  <2>2. y \in 0..(m - 1) /\ y \notin 0..(y - 1)
    OBVIOUS
  <2>3. 0..(y - 1) \subseteq 0..(m - 1)
    OBVIOUS
  <2> QED
    BY <1>5, <2>1, <2>2, <2>3
<1> QED
  BY <1>6 DEF Min

\* The numbers of frames and fragments that the limits speak of.
Positive == /\ MaxFrames \in Nat \ {0} /\ MaxCount \in Nat \ {0}

LEMMA LimitsPositive == Positive
  BY LimitsArePositive DEF Positive

-----------------------------------------------------------------------------
\* The server numbers its frames in order; under one admission neither their
\* sequence numbers nor their keys ever go back.
SentInOrder ==
  /\ sent \subseteq Frame /\ IsFiniteSet(sent)
  /\ life \in Nat /\ seq \in Nat /\ key \in Nat
  /\ entryKey \in Nat /\ entryKey <= key
  /\ \A f \in sent :
       /\ f.id < Cardinality(sent)
       /\ f.life <= life /\ f.key <= entryKey
       /\ f.life = life => f.seq <= seq
  /\ \A f, g \in sent :
       /\ f.id = g.id => f = g
       /\ f.id < g.id => f.key <= g.key /\ (f.life = g.life => f.seq <= g.seq)

\* A buffer b under the number s.
Sound(b, s) ==
  /\ b \in Buffer
  /\ b.of \in sent /\ b.of.seq = s
  /\ \A p \in b.have : p[1].seq = s /\ p[1].count = b.of.count
  /\ \A p, q \in b.have : p[2] = q[2] => p = q

Buffers ==
  /\ last \in Nat \cup {-1}
  /\ DOMAIN buffers \subseteq Nat
  /\ buffers = [s \in DOMAIN buffers |-> buffers[s]]
  /\ \A s \in DOMAIN buffers : Sound(buffers[s], s) /\ s > last /\ ~Complete(buffers[s])

\* The limit on the frames held.
Capped == IsFiniteSet(DOMAIN buffers) /\ Cardinality(DOMAIN buffers) <= MaxFrames

\* What was shown under this key has been counted by the reassembler.
ShownCounted ==
  /\ shown \in Seq(Frame)
  /\ \A i \in 1..Len(shown) :
       shown[i] \in sent /\ (shown[i].key = key => shown[i].seq <= last)

Inv == SentInOrder /\ Buffers /\ Capped /\ ShownCounted

-----------------------------------------------------------------------------
\* Eviction leaves some of the buffers as they are, and a place.
LEMMA EvictedShape ==
  ASSUME NEW bs, NEW p, DOMAIN bs \subseteq Nat, IsFiniteSet(DOMAIN bs)
  PROVE  /\ DOMAIN Evicted(bs, p) \subseteq DOMAIN bs
         /\ \A s \in DOMAIN Evicted(bs, p) : Evicted(bs, p)[s] = bs[s]
         /\ Cardinality(DOMAIN Evicted(bs, p)) < MaxFrames
<1> DEFINE from(s) == Restrict(bs, {r \in DOMAIN bs : r >= s})
           fits    == {s \in DOMAIN bs : Fits(from(s), p)}
<1>1. CASE fits = {}
  <2>1. Evicted(bs, p) = Restrict(bs, {})
    BY <1>1 DEF Evicted
  <2> QED
    BY <2>1, FS_EmptySet, LimitsPositive DEF Restrict, Positive
<1>2. CASE fits # {}
  <2>1. Evicted(bs, p) = from(Min(fits))
    BY <1>2 DEF Evicted
  <2>2. Min(fits) \in fits
    BY <1>2, MinIsOne
  <2>3. Fits(from(Min(fits)), p)
    BY <2>2
  <2> QED
    BY <2>1, <2>3 DEF Fits, Restrict
<1> QED
  BY <1>1, <1>2

\* The buffers a fragment is added to: those that were there, or some of them
\* and an empty one.
LEMMA OpenedShape ==
  ASSUME Inv, NEW f \in sent, NEW i \in 0..f.count - 1
  PROVE  LET O == Opened(<<f, i>>)
         IN  /\ f.seq \in DOMAIN O /\ DOMAIN O \subseteq DOMAIN buffers \cup {f.seq}
             /\ O = [s \in DOMAIN O |-> O[s]]
             /\ \A s \in DOMAIN O \ {f.seq} : O[s] = buffers[s]
             /\ \/ f.seq \in DOMAIN buffers /\ O[f.seq] = buffers[f.seq]
                \/ O[f.seq] = [of |-> f, have |-> {}, stale |-> FALSE]
             /\ IsFiniteSet(DOMAIN O) /\ Cardinality(DOMAIN O) <= MaxFrames
<1> DEFINE p == <<f, i>>
           room == Evicted(Fresh, p)
<1>1. CASE f.seq \in DOMAIN buffers
  <2>1. Opened(p) = buffers
    BY <1>1 DEF Opened
  <2> QED
    BY <1>1, <2>1 DEF Inv, Buffers, Capped
<1>2. CASE f.seq \notin DOMAIN buffers
  <2>1. /\ DOMAIN Fresh \subseteq DOMAIN buffers
        /\ \A s \in DOMAIN Fresh : Fresh[s] = buffers[s]
    BY DEF Fresh, Restrict
  <2>2. IsFiniteSet(DOMAIN Fresh) /\ DOMAIN Fresh \subseteq Nat
    BY <2>1, FS_Subset DEF Inv, Capped, Buffers
  <2>3. /\ DOMAIN room \subseteq DOMAIN Fresh
        /\ \A s \in DOMAIN room : room[s] = Fresh[s]
        /\ Cardinality(DOMAIN room) < MaxFrames
    BY <2>2, EvictedShape
  <2>4. Opened(p) = [s \in DOMAIN room \cup {f.seq} |->
                       IF s = f.seq THEN [of |-> f, have |-> {}, stale |-> FALSE] ELSE room[s]]
    BY <1>2 DEF Opened
  <2> HIDE DEF room
  <2>5. IsFiniteSet(DOMAIN room) /\ Cardinality(DOMAIN room) \in Nat
    BY <2>2, <2>3, FS_Subset, FS_CardinalityType
  <2>6. /\ IsFiniteSet(DOMAIN room \cup {f.seq})
        /\ Cardinality(DOMAIN room \cup {f.seq}) <= MaxFrames
    BY <2>3, <2>5, FS_AddElement, LimitsPositive DEF Positive
  <2> QED
    BY <2>1, <2>3, <2>4, <2>6
<1> QED
  BY <1>1, <1>2

\* A fragment that is accepted makes a sound buffer of its number and leaves
\* the others alone.
LEMMA AddedShape ==
  ASSUME Inv, NEW f \in sent, NEW i \in 0..f.count - 1, Accepted(<<f, i>>)
  PROVE  LET A == Added(<<f, i>>)
         IN  /\ DOMAIN A = DOMAIN Opened(<<f, i>>)
             /\ A = [s \in DOMAIN A |-> A[s]]
             /\ Sound(A[f.seq], f.seq)
             /\ \A s \in DOMAIN A \ {f.seq} : s \in DOMAIN buffers /\ A[s] = buffers[s]
<1> DEFINE p == <<f, i>>
           O == Opened(p)
           b == O[f.seq]
<1>1. /\ f.seq \in DOMAIN O /\ DOMAIN O \subseteq DOMAIN buffers \cup {f.seq}
      /\ O = [s \in DOMAIN O |-> O[s]]
      /\ \A s \in DOMAIN O \ {f.seq} : O[s] = buffers[s]
      /\ \/ f.seq \in DOMAIN buffers /\ b = buffers[f.seq]
         \/ b = [of |-> f, have |-> {}, stale |-> FALSE]
  BY OpenedShape
<1>2. f \in Frame /\ f.seq \in Nat /\ p \in Frame \X (0..MaxCount - 1)
  BY LimitsPositive DEF Inv, SentInOrder, Frame, Positive
<1>3. Sound(b, f.seq)
  <2>1. CASE f.seq \in DOMAIN buffers /\ b = buffers[f.seq]
    BY <2>1 DEF Inv, Buffers
  <2>2. CASE b = [of |-> f, have |-> {}, stale |-> FALSE]
    <3> DEFINE new == [of |-> f, have |-> {}, stale |-> FALSE]
    <3>1. new \in Buffer
      BY <1>2, Zenon DEF Buffer
    <3>2. new.of = f /\ new.have = {}
      OBVIOUS
    <3> HIDE DEF new
    <3>3. Sound(new, f.seq)
      BY <3>1, <3>2 DEF Sound
    <3> QED
      BY <2>2, <3>3 DEF new
  <2> QED
    BY <1>1, <2>1, <2>2
<1>4. f.count = b.of.count /\ \A q \in b.have : q[2] # i
  BY DEF Accepted
<1>5. Added(p) = [O EXCEPT ![f.seq] = [b EXCEPT !.have = b.have \cup {p}]]
  BY DEF Added
<1>6. Added(p)[f.seq] = [b EXCEPT !.have = b.have \cup {p}]
  BY <1>1, <1>5
<1> HIDE DEF O, b
<1>7. Sound([b EXCEPT !.have = b.have \cup {p}], f.seq)
  BY <1>2, <1>3, <1>4 DEF Sound, Buffer
<1> QED
  BY <1>1, <1>5, <1>6, <1>7 DEF O

-----------------------------------------------------------------------------
\* Some of the buffers, as they are.
LEMMA FewerBuffers ==
  ASSUME Inv, NEW S, IsFiniteSet(S), Cardinality(S) <= MaxFrames,
         DOMAIN buffers' \subseteq S,
         buffers' = [s \in DOMAIN buffers' |-> buffers'[s]],
         \A s \in DOMAIN buffers' :
           s \in Nat /\ Sound(buffers'[s], s) /\ s > last' /\ ~Complete(buffers'[s]),
         last' \in Nat \cup {-1},
         UNCHANGED sent
  PROVE  Buffers' /\ Capped'
<1>1. Buffers'
  BY DEF Buffers, Sound, Complete
<1>2. IsFiniteSet(DOMAIN buffers') /\ Cardinality(DOMAIN buffers') <= Cardinality(S)
  BY FS_Subset
<1>3. Cardinality(S) \in Nat /\ Cardinality(DOMAIN buffers') \in Nat
  BY <1>2, FS_CardinalityType
<1> QED
  BY <1>1, <1>2, <1>3, LimitsPositive DEF Capped, Positive

\* A new frame gets the next number and the current sequence number.
LEMMA SendStep ==
  ASSUME Inv, NEW n \in 1..MaxCount, Send(n) \/ SendFails(n)
  PROVE  Inv'
<1> DEFINE f == NewFrame(n)
<1>1. /\ sent' = sent \cup {f} /\ seq' \in {seq, seq + 1}
      /\ UNCHANGED <<life, entryKey, key, buffers, last, shown>>
  BY DEF Send, SendFails, client
<1>2. IsFiniteSet(sent) /\ Cardinality(sent) \in Nat
  BY FS_CardinalityType DEF Inv, SentInOrder
<1>3. f \in Frame
  BY <1>2 DEF Inv, SentInOrder, NewFrame, Frame
<1>4. f.id = Cardinality(sent) /\ f.life = life /\ f.key = entryKey /\ f.seq = seq
  BY DEF NewFrame
<1>5. f \notin sent
  BY <1>2, <1>4 DEF Inv, SentInOrder
<1>6. IsFiniteSet(sent') /\ Cardinality(sent') = Cardinality(sent) + 1
  BY <1>1, <1>2, <1>5, FS_AddElement
<1> HIDE DEF f
<1>7. SentInOrder'
  <2>1. \A g \in sent : g \in Frame /\ g.id < Cardinality(sent) /\ g.id \in Nat /\ g.seq \in Nat
    BY DEF Inv, SentInOrder, Frame
  <2>2. sent' \subseteq Frame /\ seq' \in Nat /\ life' \in Nat /\ key' \in Nat
        /\ entryKey' \in Nat /\ entryKey' <= key'
    BY <1>1, <1>3 DEF Inv, SentInOrder
  <2>3. \A g \in sent' :
          /\ g.id < Cardinality(sent')
          /\ g.life <= life' /\ g.key <= entryKey'
          /\ g.life = life' => g.seq <= seq'
    BY <1>1, <1>2, <1>4, <1>6, <2>1 DEF Inv, SentInOrder
  <2>4. \A g, h \in sent' :
          /\ g.id = h.id => g = h
          /\ g.id < h.id => g.key <= h.key /\ (g.life = h.life => g.seq <= h.seq)
    BY <1>1, <1>2, <1>4, <2>1 DEF Inv, SentInOrder
  <2> QED
    BY <1>6, <2>2, <2>3, <2>4 DEF SentInOrder
<1>8. Buffers' /\ Capped'
  BY <1>1 DEF Inv, Buffers, Capped, Sound, Complete
<1>9. ShownCounted'
  BY <1>1 DEF Inv, ShownCounted
<1> QED
  BY <1>7, <1>8, <1>9 DEF Inv

\* A new place starts again at number 0, and no frame of it has been sent.
LEMMA ReadmitStep ==
  ASSUME Inv, Readmit
  PROVE  Inv'
<1>1. SentInOrder'
  BY DEF Inv, SentInOrder, Readmit, Frame
<1> QED
  BY <1>1 DEF Inv, Buffers, Capped, ShownCounted, Readmit, client, Sound, Complete

\* The entry's key catches up with the session's.
LEMMA HeartbeatStep ==
  ASSUME Inv, Heartbeat
  PROVE  Inv'
<1>1. SentInOrder'
  BY DEF Inv, SentInOrder, Heartbeat, Frame
<1> QED
  BY <1>1 DEF Inv, Buffers, Capped, ShownCounted, Heartbeat, client, Sound, Complete

\* A new key, and nothing shown under it.
LEMMA ReconnectStep ==
  ASSUME Inv, Reconnect
  PROVE  Inv'
<1>1. SentInOrder'
  BY DEF Inv, SentInOrder, Reconnect, server, Frame
<1>2. DOMAIN buffers' = {} /\ buffers' = [s \in {} |-> buffers'[s]]
  BY DEF Reconnect, Restrict
<1>3. last' = -1
  BY DEF Reconnect
<1>4. Buffers'
  BY <1>2, <1>3 DEF Buffers
<1>5. Capped'
  BY <1>2, FS_EmptySet, LimitsPositive DEF Capped, Positive
<1>6. ShownCounted'
  <2>1. shown' = shown /\ sent' = sent /\ key' = key + 1
    BY DEF Reconnect, server
  <2>2. \A f \in sent : f.key \in Nat /\ f.key <= entryKey
    BY DEF Inv, SentInOrder, Frame
  <2>3. key \in Nat /\ entryKey \in Nat /\ entryKey <= key
    BY DEF Inv, SentInOrder
  <2>4. \A f \in sent : f.key # key'
    BY <2>1, <2>2, <2>3
  <2>5. shown \in Seq(Frame) /\ \A i \in 1..Len(shown) : shown[i] \in sent
    BY DEF Inv, ShownCounted
  <2> QED
    BY <2>1, <2>4, <2>5 DEF ShownCounted
<1> QED
  BY <1>1, <1>4, <1>5, <1>6 DEF Inv

\* What is left after a fragment has been added keeps to the limit.
LEMMA StoreStep ==
  ASSUME Inv, NEW f \in sent, NEW i \in 0..f.count - 1, Store(<<f, i>>)
  PROVE  Inv'
<1> DEFINE A == Added(<<f, i>>)
           O == Opened(<<f, i>>)
<1>1. /\ Accepted(<<f, i>>) /\ ~Complete(A[f.seq]) /\ buffers' = A
      /\ UNCHANGED <<sent, life, seq, entryKey, key, last, shown>>
  BY DEF Store, server
<1>2. /\ DOMAIN A = DOMAIN O
      /\ A = [s \in DOMAIN A |-> A[s]]
      /\ Sound(A[f.seq], f.seq)
      /\ \A s \in DOMAIN A \ {f.seq} : s \in DOMAIN buffers /\ A[s] = buffers[s]
  BY <1>1, AddedShape
<1>3. IsFiniteSet(DOMAIN O) /\ Cardinality(DOMAIN O) <= MaxFrames
  BY OpenedShape
<1>4. f.seq \in Nat /\ f.seq > last /\ last \in Nat \cup {-1}
  BY <1>1 DEF Accepted, IsRecent, Inv, SentInOrder, Buffers, Frame
<1> HIDE DEF A, O
<1>5. \A s \in DOMAIN A : s \in Nat /\ Sound(A[s], s) /\ s > last /\ ~Complete(A[s])
  BY <1>1, <1>2, <1>4 DEF Inv, Buffers
<1>6. Buffers' /\ Capped'
  BY <1>1, <1>2, <1>3, <1>4, <1>5, FewerBuffers
<1>7. SentInOrder' /\ ShownCounted'
  BY <1>1 DEF Inv, SentInOrder, ShownCounted
<1> QED
  BY <1>6, <1>7 DEF Inv

\* The frame that is complete is newer than all shown under its key.
LEMMA ShowStep ==
  ASSUME Inv, NEW f \in sent, NEW i \in 0..f.count - 1, Show(<<f, i>>)
  PROVE  Inv'
<1> DEFINE A == Added(<<f, i>>)
           O == Opened(<<f, i>>)
           b == A[f.seq]
<1>1. /\ Accepted(<<f, i>>) /\ Decrypts(b)
      /\ last' = f.seq /\ shown' = Append(shown, b.of)
      /\ buffers' = Restrict(O, {s \in DOMAIN O : s > f.seq})
      /\ UNCHANGED <<sent, life, seq, entryKey, key>>
  BY DEF Show, server
<1>2. Sound(b, f.seq)
  BY <1>1, AddedShape
<1>3. /\ IsFiniteSet(DOMAIN O) /\ Cardinality(DOMAIN O) <= MaxFrames
      /\ DOMAIN O \subseteq DOMAIN buffers \cup {f.seq}
      /\ \A s \in DOMAIN O \ {f.seq} : O[s] = buffers[s]
  BY OpenedShape
<1>4. f.seq \in Nat /\ f.seq > last /\ last \in Nat \cup {-1}
  BY <1>1 DEF Accepted, IsRecent, Inv, SentInOrder, Buffers, Frame
<1>5. b.of \in sent /\ b.of \in Frame /\ b.of.seq = f.seq /\ b.of.key = key
  BY <1>1, <1>2 DEF Sound, Decrypts, Inv, SentInOrder
<1> HIDE DEF A, O, b
<1>6. /\ DOMAIN buffers' \subseteq DOMAIN O
      /\ buffers' = [s \in DOMAIN buffers' |-> buffers'[s]]
      /\ \A s \in DOMAIN buffers' : s \in DOMAIN buffers /\ s > f.seq /\ buffers'[s] = buffers[s]
  <2>1. DOMAIN buffers' = {s \in DOMAIN O : s > f.seq}
    BY <1>1 DEF Restrict
  <2>2. \A s \in DOMAIN buffers' : buffers'[s] = O[s]
    BY <1>1 DEF Restrict
  <2>3. buffers' = [s \in DOMAIN buffers' |-> buffers'[s]]
    BY <1>1 DEF Restrict
  <2>4. f.seq \notin DOMAIN buffers'
    BY <1>4, <2>1
  <2> QED
    BY <1>3, <2>1, <2>2, <2>3, <2>4
<1>7. Buffers' /\ Capped'
  <2>1. \A s \in DOMAIN buffers' :
          s \in Nat /\ Sound(buffers'[s], s) /\ s > last' /\ ~Complete(buffers'[s])
    BY <1>1, <1>6 DEF Inv, Buffers
  <2> QED
    BY <1>1, <1>3, <1>4, <1>6, <2>1, FewerBuffers
<1>8. SentInOrder'
  BY <1>1 DEF Inv, SentInOrder
<1>9. ShownCounted'
  <2>1. shown \in Seq(Frame) /\ shown \in Seq(Frame)
    BY DEF Inv, ShownCounted
  <2>2. /\ shown' \in Seq(Frame) /\ Len(shown') = Len(shown) + 1
        /\ shown'[Len(shown) + 1] = b.of
        /\ \A j \in 1..Len(shown) : shown'[j] = shown[j]
    BY <1>1, <1>5, <2>1, AppendProperties
  <2>3. \A j \in 1..Len(shown) : shown[j] \in Frame
    BY <2>1, ElementOfSeq
  <2>4. \A j \in 1..Len(shown) :
          shown[j] \in sent /\ (shown[j].key = key => shown[j].seq <= f.seq)
    <3>1. \A j \in 1..Len(shown) : shown[j] \in sent /\ (shown[j].key = key => shown[j].seq <= last)
      BY DEF Inv, ShownCounted
    <3>2. \A j \in 1..Len(shown) : shown[j].seq \in Nat
      BY <2>3 DEF Frame
    <3> QED
      BY <1>4, <3>1, <3>2
  <2>5. \A j \in 1..Len(shown') :
          shown'[j] \in sent /\ (shown'[j].key = key => shown'[j].seq <= f.seq)
    <3> SUFFICES ASSUME NEW j \in 1..Len(shown')
                 PROVE  shown'[j] \in sent /\ (shown'[j].key = key => shown'[j].seq <= f.seq)
      OBVIOUS
    <3>1. Len(shown) \in Nat
      BY <2>1
    <3>2. j \in 1..Len(shown) \/ j = Len(shown) + 1
      BY <2>2, <3>1
    <3> QED
      BY <1>4, <1>5, <2>2, <2>4, <3>2
  <2> QED
    BY <1>1, <2>2, <2>5 DEF ShownCounted
<1> QED
  BY <1>7, <1>8, <1>9 DEF Inv

\* A frame that does not decrypt takes its buffer with it.
LEMMA GarbledStep ==
  ASSUME Inv, NEW f \in sent, NEW i \in 0..f.count - 1, Garbled(<<f, i>>)
  PROVE  Inv'
<1> DEFINE O == Opened(<<f, i>>)
<1>1. /\ buffers' = Restrict(O, DOMAIN O \ {f.seq})
      /\ UNCHANGED <<sent, life, seq, entryKey, key, last, shown>>
  BY DEF Garbled, server
<1>2. /\ IsFiniteSet(DOMAIN O) /\ Cardinality(DOMAIN O) <= MaxFrames
      /\ DOMAIN O \subseteq DOMAIN buffers \cup {f.seq}
      /\ \A s \in DOMAIN O \ {f.seq} : O[s] = buffers[s]
  BY OpenedShape
<1> HIDE DEF O
<1>3. /\ DOMAIN buffers' \subseteq DOMAIN O
      /\ buffers' = [s \in DOMAIN buffers' |-> buffers'[s]]
      /\ \A s \in DOMAIN buffers' : s \in DOMAIN buffers /\ buffers'[s] = buffers[s]
  BY <1>1, <1>2 DEF Restrict
<1>4. \A s \in DOMAIN buffers' :
        s \in Nat /\ Sound(buffers'[s], s) /\ s > last' /\ ~Complete(buffers'[s])
  BY <1>1, <1>3 DEF Inv, Buffers
<1>5. last' \in Nat \cup {-1}
  BY <1>1 DEF Inv, Buffers
<1>6. Buffers' /\ Capped'
  BY <1>1, <1>2, <1>3, <1>4, <1>5, FewerBuffers
<1>7. SentInOrder' /\ ShownCounted'
  BY <1>1 DEF Inv, SentInOrder, ShownCounted
<1> QED
  BY <1>6, <1>7 DEF Inv

\* Age changes no more than the mark.
LEMMA AgeStep ==
  ASSUME Inv, NEW s \in DOMAIN buffers, Age(s)
  PROVE  Inv'
<1> DEFINE aged == [buffers[s] EXCEPT !.stale = TRUE]
<1>1. buffers' = [buffers EXCEPT ![s] = aged] /\ UNCHANGED <<sent, life, seq, entryKey, key, last, shown>>
  BY DEF Age, server
<1>2. Sound(buffers[s], s) /\ s > last /\ ~Complete(buffers[s])
  BY DEF Inv, Buffers
<1>3. aged \in Buffer /\ aged.of = buffers[s].of /\ aged.have = buffers[s].have
  <2>1. buffers[s] \in Buffer
    BY <1>2 DEF Sound
  <2>2. aged \in Buffer
    BY <2>1, Zenon DEF Buffer
  <2>3. aged.of = buffers[s].of /\ aged.have = buffers[s].have
    BY <2>1 DEF Buffer
  <2> QED
    BY <2>2, <2>3
<1> HIDE DEF aged
<1>4. Sound(aged, s) /\ ~Complete(aged)
  BY <1>2, <1>3 DEF Sound, Complete
<1>5. /\ DOMAIN buffers' = DOMAIN buffers
      /\ buffers' = [r \in DOMAIN buffers' |-> buffers'[r]]
      /\ buffers'[s] = aged
      /\ \A r \in DOMAIN buffers \ {s} : buffers'[r] = buffers[r]
  BY <1>1
<1>6. \A r \in DOMAIN buffers' :
        r \in Nat /\ Sound(buffers'[r], r) /\ r > last' /\ ~Complete(buffers'[r])
  BY <1>1, <1>2, <1>4, <1>5 DEF Inv, Buffers
<1>7. IsFiniteSet(DOMAIN buffers) /\ Cardinality(DOMAIN buffers) <= MaxFrames /\ last' \in Nat \cup {-1}
  BY <1>1 DEF Inv, Capped, Buffers
<1>8. Buffers' /\ Capped'
  BY <1>1, <1>5, <1>6, <1>7, FewerBuffers
<1>9. SentInOrder' /\ ShownCounted'
  BY <1>1 DEF Inv, SentInOrder, ShownCounted
<1> QED
  BY <1>8, <1>9 DEF Inv

-----------------------------------------------------------------------------
\* Nothing sent, nothing held, nothing shown.
LEMMA InvInitially == Init => Inv
<1> SUFFICES ASSUME Init PROVE Inv
  OBVIOUS
<1>1. IsFiniteSet({}) /\ Cardinality({}) = 0
  BY FS_EmptySet
<1>2. buffers = [s \in {} |-> {}] /\ DOMAIN buffers = {}
  BY DEF Init
<1>3. SentInOrder
  BY <1>1 DEF Init, SentInOrder
<1>4. Buffers
  BY <1>2 DEF Init, Buffers
<1>5. Capped
  BY <1>1, <1>2, LimitsPositive DEF Capped, Positive
<1>6. shown \in Seq(Frame) /\ Len(shown) = 0
  BY DEF Init
<1>7. ShownCounted
  BY <1>6 DEF ShownCounted
<1> QED
  BY <1>3, <1>4, <1>5, <1>7 DEF Inv

\* Every action of the server and the client keeps the invariant.
LEMMA InvInductive == Inv /\ [Next]_vars => Inv'
<1> SUFFICES ASSUME Inv, [Next]_vars PROVE Inv'
  OBVIOUS
<1>1. CASE \E n \in 1..MaxCount : Send(n) \/ SendFails(n)
  BY <1>1, SendStep
<1>2. CASE Readmit
  BY <1>2, ReadmitStep
<1>3. CASE Reconnect
  BY <1>3, ReconnectStep
<1>4. CASE Heartbeat
  BY <1>4, HeartbeatStep
<1>5. ASSUME NEW f \in sent, NEW i \in 0..f.count - 1, Arrive(<<f, i>>)
      PROVE  Inv'
  <2>1. CASE Store(<<f, i>>)
    BY <2>1, StoreStep
  <2>2. CASE Show(<<f, i>>)
    BY <2>2, ShowStep
  <2>3. CASE Garbled(<<f, i>>)
    BY <2>3, GarbledStep
  <2>4. CASE Ignore(<<f, i>>)
    BY <2>4 DEF Ignore, vars, server, client, Inv, SentInOrder, Buffers, Sound, Complete,
                Capped, ShownCounted
  <2> QED
    BY <1>5, <2>1, <2>2, <2>3, <2>4 DEF Arrive
<1>6. CASE \E s \in DOMAIN buffers : Age(s)
  BY <1>6, AgeStep
<1>7. CASE UNCHANGED vars
  BY <1>7 DEF vars, server, client, Inv, SentInOrder, Buffers, Sound, Complete,
              Capped, ShownCounted
<1> QED
  BY <1>1, <1>2, <1>3, <1>4, <1>5, <1>6, <1>7 DEF Next, ServerNext

\* The invariant always holds.
THEOREM Invariant == Spec => []Inv
  BY InvInitially, InvInductive, PTL DEF Spec

\* Every variable keeps to its type, and there are never more than
\* MAX_INCOMPLETE_FRAMES incomplete frames, whichever fragments arrive.
THEOREM TypeCorrect == Spec => []TypeOK
<1>1. Inv => TypeOK
  BY DEF Inv, SentInOrder, Buffers, Sound, Capped, ShownCounted, TypeOK
<1> QED
  BY <1>1, Invariant, PTL

\* No buffer is older than the frame decoded last, complete, or a mixture of
\* frames that differ in number or count.
THEOREM FramesAhead == Spec => []BuffersAhead
<1>1. Inv => BuffersAhead
  BY DEF Inv, Buffers, Sound, BuffersAhead
<1> QED
  BY <1>1, Invariant, PTL

-----------------------------------------------------------------------------
\* A frame sent is a step of the channel.
LEMMA SendIsSend ==
  ASSUME Inv, NEW n \in 1..MaxCount, Send(n) \/ SendFails(n)
  PROVE  Channel!Send
<1> DEFINE f == NewFrame(n)
<1>1. sent' = sent \cup {f} /\ UNCHANGED <<shown, key>>
  BY DEF Send, SendFails, client
<1>2. f.id = Cardinality(sent)
  BY DEF NewFrame
<1>3. \A g \in sent : g.id < Cardinality(sent)
  BY DEF Inv, SentInOrder
<1> HIDE DEF f
<1> QED
  BY <1>1, <1>2, <1>3 DEF Channel!Send

\* A frame shown is newer than all shown before it of its admission: those of
\* its key have lower sequence numbers, and the others an earlier key.
LEMMA ShowIsShow ==
  ASSUME Inv, NEW f \in sent, NEW i \in 0..f.count - 1, Show(<<f, i>>)
  PROVE  \E g \in sent : Channel!Show(g)
<1> DEFINE g == Added(<<f, i>>)[f.seq].of
<1>1. /\ Accepted(<<f, i>>) /\ g.key = key
      /\ shown' = Append(shown, g)
      /\ UNCHANGED <<sent, key>>
  BY DEF Show, server, Decrypts
<1>2. g \in sent /\ g.seq = f.seq
  BY <1>1, AddedShape DEF Sound
<1>3. f.seq > last /\ last \in Nat \cup {-1}
  BY <1>1 DEF Accepted, IsRecent, Inv, Buffers
<1> HIDE DEF g
<1>4. ASSUME NEW j \in 1..Len(shown), shown[j].life = g.life
      PROVE  shown[j].id < g.id
  <2> DEFINE h == shown[j]
  <2>1. h \in sent /\ (h.key = key => h.seq <= last)
    BY DEF Inv, ShownCounted
  <2>2. g \in Frame /\ h \in Frame /\ h.key <= key
    BY <1>2, <2>1 DEF Inv, SentInOrder, Frame
  <2>3. /\ g.id \in Nat /\ h.id \in Nat /\ g.key \in Nat /\ h.key \in Nat
        /\ g.seq \in Nat /\ h.seq \in Nat
    BY <2>2 DEF Frame
  <2>4. /\ g.id = h.id => g = h
        /\ g.id < h.id => g.key <= h.key /\ g.seq <= h.seq
    BY <1>2, <1>4, <2>1 DEF Inv, SentInOrder
  <2> HIDE DEF h
  <2>5. h.key = key => h.seq < g.seq
    BY <1>2, <1>3, <2>1, <2>3
  <2>6. h.id < g.id
    BY <1>1, <2>2, <2>3, <2>4, <2>5
  <2> QED
    BY <2>6 DEF h
<1> QED
  BY <1>1, <1>2, <1>4 DEF Channel!Show

\* Whatever fragments the network loses, repeats or reorders, and however
\* often the client is admitted again or connects again, the viewer sees
\* whole frames, each at most once, and never one of the same admission after
\* a newer one.
THEOREM FramesInOrder == Spec => ImplementsChannel
<1>1. Init => Channel!Init
  BY DEF Init, Channel!Init
<1>2. Inv /\ [Next]_vars => [Channel!Next]_Channel!vars
  <2> SUFFICES ASSUME Inv, [Next]_vars PROVE [Channel!Next]_Channel!vars
    OBVIOUS
  <2>1. CASE \E n \in 1..MaxCount : Send(n) \/ SendFails(n)
    BY <2>1, SendIsSend DEF Channel!Next
  <2>2. CASE Readmit \/ Heartbeat
    BY <2>2 DEF Readmit, Heartbeat, client, Channel!vars
  <2>3. CASE Reconnect
    <3>1. Channel!Rekey
      BY <2>3 DEF Reconnect, server, Channel!Rekey, Inv, SentInOrder
    <3> QED
      BY <3>1 DEF Channel!Next
  <2>4. ASSUME NEW f \in sent, NEW i \in 0..f.count - 1, Arrive(<<f, i>>)
        PROVE  [Channel!Next]_Channel!vars
    <3>1. CASE Show(<<f, i>>)
      BY <3>1, ShowIsShow DEF Channel!Next
    <3>2. CASE Store(<<f, i>>) \/ Garbled(<<f, i>>) \/ Ignore(<<f, i>>)
      BY <3>2 DEF Store, Garbled, Ignore, vars, server, client, Channel!vars
    <3> QED
      BY <2>4, <3>1, <3>2 DEF Arrive
  <2>5. CASE \E s \in DOMAIN buffers : Age(s)
    BY <2>5 DEF Age, server, Channel!vars
  <2>6. CASE UNCHANGED vars
    BY <2>6 DEF vars, server, client, Channel!vars
  <2> QED
    BY <2>1, <2>2, <2>3, <2>4, <2>5, <2>6 DEF Next, ServerNext
<1> QED
  BY <1>1, <1>2, Invariant, PTL DEF Spec, ImplementsChannel, Channel!Spec
=============================================================================

-------------------------- MODULE FrameReassembler --------------------------
(***************************************************************************)
(* One client's frames, from the server's fragments to the viewer.         *)
(*                                                                         *)
(*   WindowsClient/services/frame_reassembler.py   FrameReassembler        *)
(*   WindowsClient/services/transport.py           UDPReceiverProtocol     *)
(*   server/backend/services/stream_service.py     _broadcast_loop         *)
(*                                                                         *)
(* A fragment once sent may arrive at any later time, any number of times  *)
(* or never: the network and the full queue of the receiver are the choice *)
(* of which one arrives next.  Packets with a malformed header leave no    *)
(* trace and are not sent here.                                            *)
(***************************************************************************)
EXTENDS Integers, FiniteSets, FiniteSetsExt, Sequences

CONSTANTS
  MaxFrames,     \* MAX_INCOMPLETE_FRAMES
  MaxFragments,  \* MAX_TOTAL_FRAGMENTS
  MaxBytes,      \* MAX_TOTAL_BUFFER_BYTES
  MaxCount,      \* most fragments in a frame
  MaxSent, MaxLives, MaxKeys  \* bounds for TLC

ASSUME LimitsArePositive ==
  /\ {MaxFrames, MaxFragments, MaxBytes, MaxCount} \subseteq Nat \ {0}
  /\ {MaxSent, MaxLives, MaxKeys} \subseteq Nat

VARIABLES
  sent,     \* encrypted frames, by the order of sending
  life,     \* how often the client has been admitted to the table
  seq,      \* client["seq"] of its entry
  entryKey, \* client["session_key"] of its entry
  key,      \* ConnectionManager.session_key, the key of the latest session
  buffers,  \* FrameReassembler.buffers
  last,     \* last_successful_seq
  shown     \* frames returned so far, in order

server == <<sent, life, seq, entryKey>>
client == <<buffers, last, shown>>
vars   == <<server, key, client>>

-----------------------------------------------------------------------------
Frame == [id: Nat, life: Nat, key: Nat, seq: Nat, count: 1..MaxCount]

\* What is buffered under a sequence number: the frame whose nonce and count
\* the first fragment brought, and the fragments so far, each a frame and an
\* index.
Buffer == [of: Frame, have: SUBSET (Frame \X (0..MaxCount - 1)), stale: BOOLEAN]

Complete(b) == Cardinality(b.have) = b.of.count

\* aes_decrypt: all of one ciphertext, with its nonce, under its key.
Decrypts(b) == b.of.key = key /\ \A p \in b.have : p[1] = b.of

Fragments(bs) == MapThenSumSet(LAMBDA s : Cardinality(bs[s].have), DOMAIN bs)

\* A full chunk counts two, the last one of a frame one.
Size(p) == IF p[2] = p[1].count - 1 THEN 1 ELSE 2

Bytes(bs) == MapThenSumSet(LAMBDA s : MapThenSumSet(Size, bs[s].have), DOMAIN bs)

\* Mutant: one frame too many.
FitsOneMore(bs, p) ==
  /\ Cardinality(DOMAIN bs) <= MaxFrames
  /\ Fragments(bs) < MaxFragments
  /\ Bytes(bs) + Size(p) <= MaxBytes

Fits(bs, p) ==
  /\ Cardinality(DOMAIN bs) < MaxFrames
  /\ Fragments(bs) < MaxFragments
  /\ Bytes(bs) + Size(p) <= MaxBytes

\* The lowest are evicted until the rest leaves room, or there is no rest.
Evicted(bs, p) ==
  LET from(s) == Restrict(bs, {r \in DOMAIN bs : r >= s})
      fits    == {s \in DOMAIN bs : Fits(from(s), p)}
  IN  IF fits = {} THEN Restrict(bs, {}) ELSE from(Min(fits))

Fresh == Restrict(buffers, {s \in DOMAIN buffers : ~buffers[s].stale})

\* The buffers with one for the frame of p.
Opened(p) ==
  IF p[1].seq \in DOMAIN buffers THEN buffers
  ELSE LET room == Evicted(Fresh, p)
       IN  [s \in DOMAIN room \cup {p[1].seq} |->
              IF s = p[1].seq THEN [of |-> p[1], have |-> {}, stale |-> FALSE] ELSE room[s]]

Added(p) == [Opened(p) EXCEPT ![p[1].seq].have = @ \cup {p}]

-----------------------------------------------------------------------------
\* The server.

NewFrame(n) ==
  [id |-> Cardinality(sent), life |-> life, key |-> entryKey, seq |-> seq, count |-> n]

Send(n) ==
  /\ Cardinality(sent) < MaxSent
  /\ sent' = sent \cup {NewFrame(n)}
  /\ seq' = seq + 1
  /\ UNCHANGED <<life, entryKey, key, client>>

\* Sending raises after some of the fragments.
SendFails(n) ==
  /\ Cardinality(sent) < MaxSent
  /\ sent' = sent \cup {NewFrame(n)}
  /\ UNCHANGED <<life, seq, entryKey, key, client>>

\* The client has lost its place in the table and has been given a new one.
Readmit ==
  /\ life < MaxLives
  /\ life' = life + 1
  /\ seq' = 0
  /\ entryKey' = key
  /\ UNCHANGED <<sent, key, client>>

\* The entry takes the key of the latest session.
Heartbeat ==
  /\ entryKey' = key
  /\ UNCHANGED <<sent, life, seq, key, client>>

\* A new session, and with it a new reassembler.  Until the next heartbeat
\* the server goes on under the old key.
Reconnect ==
  /\ key < MaxKeys
  /\ key' = key + 1
  /\ buffers' = Restrict(buffers, {})
  /\ last' = -1
  /\ UNCHANGED <<server, shown>>

-----------------------------------------------------------------------------
\* process_packet for p, a frame sent and the index of a fragment of it.

\* Mutant: the frame decoded last is not old yet.
IsRecentOrLast(p) == p[1].seq >= last

IsRecent(p) == p[1].seq > last

\* It is no duplicate and agrees on the number of fragments.
Accepted(p) ==
  LET b == Opened(p)[p[1].seq]
  IN  /\ IsRecent(p)
      /\ \A q \in b.have : q[2] # p[2]
      /\ p[1].count = b.of.count

Ignore(p) ==
  /\ ~Accepted(p)
  /\ UNCHANGED vars

Store(p) ==
  /\ Accepted(p) /\ ~Complete(Added(p)[p[1].seq])
  /\ buffers' = Added(p)
  /\ UNCHANGED <<server, key, last, shown>>

\* Mutant: older incomplete frames are kept.
ShowAndKeep(p) ==
  LET b == Added(p)[p[1].seq]
  IN  /\ Accepted(p) /\ Complete(b) /\ Decrypts(b)
      /\ last' = p[1].seq
      /\ buffers' = Restrict(Opened(p), DOMAIN Opened(p) \ {p[1].seq})
      /\ shown' = Append(shown, b.of)
      /\ UNCHANGED <<server, key>>

Show(p) ==
  LET b == Added(p)[p[1].seq]
  IN  /\ Accepted(p) /\ Complete(b) /\ Decrypts(b)
      /\ last' = p[1].seq
      /\ buffers' = Restrict(Opened(p), {s \in DOMAIN Opened(p) : s > p[1].seq})
      /\ shown' = Append(shown, b.of)
      /\ UNCHANGED <<server, key>>

Garbled(p) ==
  LET b == Added(p)[p[1].seq]
  IN  /\ Accepted(p) /\ Complete(b) /\ ~Decrypts(b)
      /\ buffers' = Restrict(Opened(p), DOMAIN Opened(p) \ {p[1].seq})
      /\ UNCHANGED <<server, key, last, shown>>

\* A second and a half passes after a frame's first fragment.
Age(s) ==
  /\ s \in DOMAIN buffers /\ ~buffers[s].stale
  /\ buffers' = [buffers EXCEPT ![s].stale = TRUE]
  /\ UNCHANGED <<server, key, last, shown>>

-----------------------------------------------------------------------------
Init ==
  /\ sent = {} /\ life = 0 /\ seq = 0 /\ entryKey = 0 /\ key = 0
  /\ buffers = [s \in {} |-> {}]
  /\ last = -1
  /\ shown = <<>>

ServerNext ==
  \/ \E n \in 1..MaxCount : Send(n) \/ SendFails(n)
  \/ Readmit \/ Heartbeat
  \/ Reconnect

Arrive(p) == Ignore(p) \/ Store(p) \/ Show(p) \/ Garbled(p)

Next ==
  \/ ServerNext
  \/ \E f \in sent : \E i \in 0..f.count - 1 : Arrive(<<f, i>>)
  \/ \E s \in DOMAIN buffers : Age(s)

Spec == Init /\ [][Next]_vars

-----------------------------------------------------------------------------
(***************************************************************************)
(* Types, and the limit on incomplete frames.                              *)
(***************************************************************************)
TypeOK ==
  /\ sent \subseteq Frame /\ IsFiniteSet(sent)
  /\ shown \in Seq(Frame)
  /\ {life, seq, entryKey, key} \subseteq Nat
  /\ last \in Nat \cup {-1}
  /\ DOMAIN buffers \subseteq Nat
  /\ \A s \in DOMAIN buffers : buffers[s] \in Buffer
  /\ Cardinality(DOMAIN buffers) <= MaxFrames

(***************************************************************************)
(* What is buffered can still be shown: it is newer than the last frame    *)
(* decoded, incomplete, and made of fragments of its sequence number that  *)
(* agree on their count, no two at one index.                              *)
(***************************************************************************)
BuffersAhead ==
  \A s \in DOMAIN buffers :
    /\ s > last
    /\ ~Complete(buffers[s])
    /\ \A p \in buffers[s].have : p[1].seq = s /\ p[1].count = buffers[s].of.count
    /\ \A p, q \in buffers[s].have : p[2] = q[2] => p = q

Channel == INSTANCE FrameChannel

(***************************************************************************)
(* Lost, duplicated and reordered fragments, retries under the same        *)
(* sequence number, readmissions and reconnects: the viewer still sees     *)
(* whole frames, each once, of one stream in order.                        *)
(***************************************************************************)
ImplementsChannel == Channel!Spec
=============================================================================

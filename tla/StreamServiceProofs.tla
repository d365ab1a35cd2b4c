------------------------- MODULE StreamServiceProofs -------------------------
(***************************************************************************)
(* Theorems about StreamService, and about StreamPath in the end, for any  *)
(* clients, keys and addresses, any cap and any error limit, with or       *)
(* without faults.                                                         *)
(***************************************************************************)
EXTENDS StreamPath, FiniteSetTheorems, TLAPS

-----------------------------------------------------------------------------
\* What a heartbeat makes of an entry is an entry.
LEMMA HeartbeatUpdates ==
  ASSUME NEW k \in Key, NEW a \in Addr
  PROVE  /\ NewEntry(k, a) \in Entry
         /\ \A e \in Entry : [e EXCEPT !.key = k, !.addr = a, !.silent = FALSE] \in Entry
<1>1. NewEntry(k, a) \in Entry
  BY DEF Entry, NewEntry
<1>2. ASSUME NEW e \in Entry
      PROVE  [e EXCEPT !.key = k, !.addr = a, !.silent = FALSE] \in Entry
  BY Zenon DEF Entry
<1> QED
  BY <1>1, <1>2

\* So is what the two loops make of it.
LEMMA LoopUpdates ==
  ASSUME NEW e \in Entry
  PROVE  /\ [e EXCEPT !.silent = TRUE] \in Entry
         /\ [e EXCEPT !.seq = @ + 1, !.errors = 0] \in Entry
         /\ [e EXCEPT !.errors = @ + 1] \in Entry
<1>1. [e EXCEPT !.silent = TRUE] \in Entry
  BY DEF Entry
<1>2. e.seq + 1 \in Nat /\ 0 \in Nat
  BY DEF Entry
<1>3. [e EXCEPT !.seq = @ + 1, !.errors = 0] \in Entry
  BY <1>2, Zenon DEF Entry
<1>4. [e EXCEPT !.errors = @ + 1] \in Entry
  BY DEF Entry
<1> QED
  BY <1>1, <1>3, <1>4

\* The loop's updates of an entry move neither its key nor its address.
LEMMA EntryIdentity ==
  ASSUME NEW e \in Entry
  PROVE  /\ [e EXCEPT !.seq = @ + 1, !.errors = 0].key = e.key
         /\ [e EXCEPT !.seq = @ + 1, !.errors = 0].addr = e.addr
         /\ [e EXCEPT !.errors = @ + 1].key = e.key
         /\ [e EXCEPT !.errors = @ + 1].addr = e.addr
         /\ [e EXCEPT !.silent = TRUE].key = e.key
         /\ [e EXCEPT !.silent = TRUE].addr = e.addr
  BY DEF Entry

\* A pinned session is a session.
LEMMA SessionUpdates ==
  /\ \A s \in Session, a \in Addr : [s EXCEPT !.pin = a] \in Session
  /\ \A k \in Key, once \in BOOLEAN :
       [key |-> k, once |-> once, pin |-> NoAddr] \in Session
  BY DEF Session

\* The places taken in a table t.
Taken(t) == {d \in Client : t[d] # NoEntry}

\* Fewer places in use are within the cap.
LEMMA FewerPlaces ==
  ASSUME NEW t, NEW u, Taken(u) \subseteq Taken(t), Cardinality(Taken(t)) <= MaxClients
  PROVE  Cardinality(Taken(u)) <= MaxClients
<1>1. IsFiniteSet(Taken(t))
  BY ConstantsAreBounded, FS_Subset DEF Taken
<1>2. IsFiniteSet(Taken(u)) /\ Cardinality(Taken(u)) <= Cardinality(Taken(t))
  BY <1>1, FS_Subset
<1> QED
  BY <1>1, <1>2, FS_CardinalityType, ConstantsAreBounded

\* One place more fits while the table is not full.
LEMMA OneMorePlace ==
  ASSUME NEW t, NEW u, NEW d \in Client, Taken(u) \subseteq Taken(t) \cup {d},
         ~(Cardinality(Taken(t)) >= MaxClients)
  PROVE  Cardinality(Taken(u)) <= MaxClients
<1>1. IsFiniteSet(Taken(t))
  BY ConstantsAreBounded, FS_Subset DEF Taken
<1>2. /\ IsFiniteSet(Taken(t) \cup {d})
      /\ Cardinality(Taken(t) \cup {d}) <= Cardinality(Taken(t)) + 1
  BY <1>1, FS_AddElement, FS_CardinalityType
<1>3. /\ IsFiniteSet(Taken(u))
      /\ Cardinality(Taken(u)) <= Cardinality(Taken(t) \cup {d})
  BY <1>2, FS_Subset
<1> QED
  BY <1>1, <1>2, <1>3, FS_CardinalityType, ConstantsAreBounded

-----------------------------------------------------------------------------
\* TypeOK in two parts: what has which type, and how many places are taken.
Shapes ==
  /\ session \in [Client -> Session \cup {NoSession}]
  /\ table \in [Client -> Entry \cup {NoEntry}]
  /\ todo \subseteq Client /\ dead \subseteq Client
  /\ orphan \in [Client -> Entry \cup {NoEntry}]
  /\ \A d \in todo : table[d] # NoEntry \/ orphan[d] # NoEntry
  /\ sending \in todo \cup {NoClient}
  /\ cipher \in Key \cup {NoKey}

Capped == Cardinality(Taken(table)) <= MaxClients

LEMMA TypeParts == TypeOK <=> Shapes /\ Capped
  BY DEF TypeOK, Shapes, Capped, Taken, Clients

\* The steps, one by one.
LEMMA NextCases ==
  ASSUME Next, NEW P,
         \A d \in Client, k \in Key, once \in BOOLEAN : Authenticate(d, k, once) => P,
         \A d \in Client : SessionEnds(d) => P,
         \A d \in Client : Disconnect(d) => P,
         \A d \in Client, a \in Addr : HeartbeatAdmits(d, a) => P,
         \A d \in Client, a \in Addr : HeartbeatRefused(d, a) => P,
         \A d \in Client, a \in Addr : HeartbeatRefreshes(d, a) => P,
         \A d \in Client : Silence(d) => P,
         \A d \in Client : Encrypt(d) => P,
         \A d \in Client : SkipFrame(d) => P,
         \A d \in Client : Finish(d) => P,
         \A d \in Client : Fail(d) => P,
         BeginRound => P,
         Cleanup => P
  PROVE  P
  BY DEF Next, SessionNext, HeartbeatNext, RoundNext

\* What a round does once it has served d, whose entry is now e.
LEMMA ServeShapes ==
  ASSUME Shapes, NEW d \in todo, NEW e \in Entry, NEW gone \in SUBSET Client,
         Serve(d, e, gone), sending \in {d, NoClient}
  PROVE  Shapes'
<1> USE DEF Shapes
<1> DEFINE served == IF orphan[d] = NoEntry THEN [table EXCEPT ![d] = e] ELSE table
<1>1. served \in [Client -> Entry \cup {NoEntry}]
  OBVIOUS
<1>2. \A c \in Client \ {d} : served[c] = table[c]
  OBVIOUS
<1>3. todo' = todo \ {d} /\ sending' = NoClient /\ cipher' = NoKey
  BY DEF Serve
<1>4. orphan' = [orphan EXCEPT ![d] = NoEntry]
  BY DEF Serve
<1>5. session' \in [Client -> Session \cup {NoSession}]
  BY DEF Serve, RevokedOnce, HasSession
<1>6. dead' \subseteq Client
  BY DEF Serve
<1> HIDE DEF served
<1>7. table' = IF todo = {d} THEN Without(served, gone) ELSE served
  BY DEF Serve, served
<1>8. table' \in [Client -> Entry \cup {NoEntry}]
  BY <1>1, <1>7 DEF Without
<1>9. \A c \in todo' : table'[c] = table[c] /\ orphan'[c] = orphan[c]
  BY <1>2, <1>3, <1>4, <1>7
<1> QED
  BY <1>3, <1>4, <1>5, <1>6, <1>8, <1>9

\* The entry the loop works on is one.
LEMMA TargetType ==
  ASSUME Shapes, NEW d \in todo
  PROVE  Target(d) \in Entry
  BY NullsAreNull DEF Shapes, Target

\* Every step keeps the types.
LEMMA ShapesStep == Shapes /\ [Next]_vars => Shapes'
<1> SUFFICES ASSUME Shapes, [Next]_vars PROVE Shapes'
  OBVIOUS
<1>1. ASSUME NEW d \in Client, NEW k \in Key, NEW once \in BOOLEAN, Authenticate(d, k, once)
      PROVE  Shapes'
  BY <1>1, SessionUpdates DEF Authenticate, Shapes, round
<1>2. ASSUME NEW d \in Client, SessionEnds(d) PROVE Shapes'
  BY <1>2 DEF SessionEnds, Shapes, round
<1>3. ASSUME NEW d \in Client, Disconnect(d) PROVE Shapes'
  BY <1>3 DEF Disconnect, Drop, Without, Shapes
<1>4. ASSUME NEW d \in Client, NEW a \in Addr, HeartbeatAdmits(d, a) PROVE Shapes'
  <2>1. session[d] \in Session /\ session[d].key \in Key
    BY <1>4 DEF HeartbeatAdmits, Verified, HasSession, Shapes, Session
  <2>2. NewEntry(session[d].key, a) \in Entry
    BY <2>1, HeartbeatUpdates
  <2> QED
    BY <1>4, <2>1, <2>2, SessionUpdates, NullsAreNull
       DEF HeartbeatAdmits, Verified, Shapes, round
<1>5. ASSUME NEW d \in Client, NEW a \in Addr, HeartbeatRefused(d, a) PROVE Shapes'
  BY <1>5, SessionUpdates DEF HeartbeatRefused, Verified, HasSession, Shapes, round
<1>6. ASSUME NEW d \in Client, NEW a \in Addr, HeartbeatRefreshes(d, a) PROVE Shapes'
  <2>1. session[d] \in Session /\ session[d].key \in Key
    BY <1>6 DEF HeartbeatRefreshes, Verified, HasSession, Shapes, Session
  <2>2. table[d] \in Entry
    BY <1>6 DEF HeartbeatRefreshes, Clients, Shapes
  <2>3. [table[d] EXCEPT !.key = session[d].key, !.addr = a, !.silent = FALSE] \in Entry
    BY <2>1, <2>2, HeartbeatUpdates
  <2>4. table' = [table EXCEPT ![d] =
                    [table[d] EXCEPT !.key = session[d].key, !.addr = a, !.silent = FALSE]]
    BY <1>6 DEF HeartbeatRefreshes
  <2>5. table' \in [Client -> Entry \cup {NoEntry}]
    BY <2>3, <2>4 DEF Shapes
  <2>6. \A c \in Client : table[c] # NoEntry => table'[c] # NoEntry
    BY <2>3, <2>4, NullsAreNull DEF Shapes
  <2>7. session' \in [Client -> Session \cup {NoSession}]
    BY <1>6, <2>1, SessionUpdates DEF HeartbeatRefreshes, Verified, Shapes
  <2> QED
    BY <1>6, <2>5, <2>6, <2>7 DEF HeartbeatRefreshes, Shapes, round
<1>7. ASSUME NEW d \in Client, Silence(d) PROVE Shapes'
  <2>1. [table[d] EXCEPT !.silent = TRUE] \in Entry
    BY <1>7, LoopUpdates DEF Silence, Clients, Shapes
  <2>2. table' = [table EXCEPT ![d] = [table[d] EXCEPT !.silent = TRUE]]
    BY <1>7 DEF Silence
  <2> QED
    BY <1>7, <2>1, <2>2, NullsAreNull DEF Silence, Shapes, round
<1>8. ASSUME NEW d \in Client, Encrypt(d) PROVE Shapes'
  <2>1. Target(d) \in Entry
    BY <1>8, TargetType DEF Encrypt
  <2> QED
    BY <1>8, <2>1 DEF Encrypt, Shapes, Entry
<1>9. ASSUME NEW d \in Client, SkipFrame(d) PROVE Shapes'
  BY <1>9, TargetType, ServeShapes DEF SkipFrame, Shapes
<1>10. ASSUME NEW d \in Client, Finish(d) PROVE Shapes'
  <2>1. Target(d) \in Entry
    BY <1>10, TargetType DEF Finish
  <2> DEFINE e == [Target(d) EXCEPT !.seq = @ + 1, !.errors = 0]
  <2>2. e \in Entry
    BY <2>1, LoopUpdates, Zenon
  <2>3. Serve(d, e, dead) /\ sending = d /\ d \in todo
    BY <1>10 DEF Finish
  <2> HIDE DEF e
  <2> QED
    BY <2>2, <2>3, ServeShapes DEF Shapes
<1>11. ASSUME NEW d \in Client, Fail(d) PROVE Shapes'
  <2> DEFINE e == [Target(d) EXCEPT !.errors = @ + 1]
             gone == IF e.errors >= MaxErrors THEN dead \cup {d} ELSE dead
  <2>1. Target(d) \in Entry
    BY <1>11, TargetType DEF Fail
  <2>2. e \in Entry
    BY <2>1 DEF Entry
  <2>3. gone \in SUBSET Client
    BY DEF Shapes
  <2>4. Serve(d, e, gone) /\ sending = d /\ d \in todo
    BY <1>11 DEF Fail
  <2> HIDE DEF e, gone
  <2> QED
    BY <2>2, <2>3, <2>4, ServeShapes
<1>12. ASSUME BeginRound PROVE Shapes'
  BY <1>12 DEF BeginRound, Clients, Shapes
<1>13. ASSUME Cleanup PROVE Shapes'
  BY <1>13 DEF Cleanup, Silent, Clients, Drop, Without, RevokedOnce, HasSession, Shapes
<1>14. CASE UNCHANGED vars
  BY <1>14 DEF vars, round, Shapes
<1> QED
  BY <1>1, <1>2, <1>3, <1>4, <1>5, <1>6, <1>7, <1>8, <1>9, <1>10, <1>11, <1>12, <1>13,
     <1>14, NextCases

-----------------------------------------------------------------------------
\* Only an admission takes a place, and it takes one that is free.
LEMMA CappedStep == Shapes /\ Capped /\ [Next]_vars => Capped'
<1> SUFFICES ASSUME Shapes, Capped, [Next]_vars PROVE Capped'
  OBVIOUS
<1>1. ASSUME Taken(table') \subseteq Taken(table) PROVE Capped'
  BY <1>1, FewerPlaces DEF Capped
<1>2. ASSUME table' = table PROVE Capped'
  BY <1>2, <1>1
<1>3. ASSUME NEW S, Drop(S) PROVE Capped'
  BY <1>1, <1>3 DEF Drop, Without, Taken
<1>4. ASSUME NEW d \in todo, NEW e, NEW gone, Serve(d, e, gone) PROVE Capped'
  <2> DEFINE served == IF orphan[d] = NoEntry THEN [table EXCEPT ![d] = e] ELSE table
  <2>1. Taken(served) \subseteq Taken(table)
    BY DEF Shapes, Taken
  <2>2. table' = IF todo = {d} THEN Without(served, gone) ELSE served
    BY <1>4 DEF Serve
  <2> HIDE DEF served
  <2>3. Taken(table') \subseteq Taken(served)
    BY <2>2 DEF Without, Taken
  <2> QED
    BY <2>1, <2>3, <1>1
<1>5. ASSUME NEW d \in Client, NEW a \in Addr, HeartbeatAdmits(d, a) PROVE Capped'
  <2>1. Taken(table') \subseteq Taken(table) \cup {d}
    BY <1>5 DEF HeartbeatAdmits, Shapes, Taken
  <2>2. ~(Cardinality(Taken(table)) >= MaxClients)
    BY <1>5 DEF HeartbeatAdmits, Full, Clients, Taken
  <2> QED
    BY <2>1, <2>2, OneMorePlace DEF Capped
<1>6. ASSUME NEW d \in Client, NEW a \in Addr, HeartbeatRefreshes(d, a) PROVE Capped'
  BY <1>6, <1>1 DEF HeartbeatRefreshes, Clients, Shapes, Taken
<1>7. ASSUME NEW d \in Client, Silence(d) PROVE Capped'
  BY <1>7, <1>1 DEF Silence, Clients, Shapes, Taken
<1>8. ASSUME NEW d \in Client, Disconnect(d) PROVE Capped'
  BY <1>8, <1>3 DEF Disconnect
<1>9. ASSUME NEW d \in Client, SkipFrame(d) \/ Finish(d) \/ Fail(d) PROVE Capped'
  BY <1>9, <1>4 DEF SkipFrame, Finish, Fail
<1>10. ASSUME NEW d \in Client, Encrypt(d) \/ SessionEnds(d) PROVE Capped'
  BY <1>10, <1>2 DEF Encrypt, SessionEnds
<1>11. ASSUME NEW d \in Client, NEW k \in Key, NEW once \in BOOLEAN, Authenticate(d, k, once)
       PROVE  Capped'
  BY <1>11, <1>2 DEF Authenticate
<1>12. ASSUME NEW d \in Client, NEW a \in Addr, HeartbeatRefused(d, a) PROVE Capped'
  BY <1>12, <1>2 DEF HeartbeatRefused
<1>13. ASSUME BeginRound PROVE Capped'
  BY <1>13, <1>2 DEF BeginRound
<1>14. ASSUME Cleanup PROVE Capped'
  BY <1>14, <1>3 DEF Cleanup
<1>15. CASE UNCHANGED vars
  BY <1>15, <1>2 DEF vars
<1> QED
  BY <1>5, <1>6, <1>7, <1>8, <1>9, <1>10, <1>11, <1>12, <1>13, <1>14, <1>15, NextCases

\* The empty table.
LEMMA InitTypes == Init => Shapes /\ Capped
<1> SUFFICES ASSUME Init PROVE Shapes /\ Capped
  OBVIOUS
<1>1. Shapes
  BY DEF Init, Shapes
<1>2. Taken(table) = {}
  BY DEF Init, Taken
<1> QED
  BY <1>1, <1>2, FS_EmptySet, ConstantsAreBounded DEF Capped

\* Sessions, entries and the round's snapshot are what they should be, and the
\* table never holds more than MaxClients.
THEOREM TypeCorrect == Spec => []TypeOK
<1>1. Init => TypeOK
  BY InitTypes, TypeParts
<1>2. TypeOK /\ [Next]_vars => TypeOK'
  <2> SUFFICES ASSUME TypeOK, [Next]_vars PROVE TypeOK'
    OBVIOUS
  <2>1. Shapes' /\ Capped'
    BY TypeParts, ShapesStep, CappedStep
  <2> QED
    BY <2>1, TypeParts DEF TypeOK, Shapes, Capped, Taken, Clients
<1> QED
  BY <1>1, <1>2, PTL DEF Spec

-----------------------------------------------------------------------------
\* What holds of the types on the way.
LEMMA ShapesHold == Spec => []Shapes
<1>1. Init => Shapes
  BY InitTypes
<1>2. QED
  BY <1>1, ShapesStep, PTL DEF Spec

\* The session of d, if it has one, is the old one, and so is its entry.
Calm(d) ==
  /\ session'[d] \in {session[d], NoSession}
  /\ table'[d] # NoEntry =>
       /\ table[d] # NoEntry
       /\ table'[d].key = table[d].key
       /\ table'[d].addr = table[d].addr

\* The address of an entry made with the session's key is the session's pin.
Pinned(d) ==
  table[d] # NoEntry /\ session[d] # NoSession /\ table[d].key = session[d].key
    => table[d].addr = session[d].pin

LEMMA PinnedParts == PinnedAddress <=> \A d \in Client : Pinned(d)
  BY DEF PinnedAddress, Pinned, Clients, HasSession

LEMMA CalmKeeps ==
  ASSUME NEW d \in Client, Pinned(d), Calm(d)
  PROVE  Pinned(d)'
  BY DEF Pinned, Calm

\* Serving a client changes nobody's key, address or pin.
LEMMA ServeCalm ==
  ASSUME Shapes, NEW d \in todo, NEW e, NEW gone, Serve(d, e, gone),
         e.key = Target(d).key, e.addr = Target(d).addr,
         NEW c \in Client
  PROVE  Calm(c)
<1> DEFINE served == IF orphan[d] = NoEntry THEN [table EXCEPT ![d] = e] ELSE table
<1>1. table' = IF todo = {d} THEN Without(served, gone) ELSE served
  BY DEF Serve
<1>2. served[c] # NoEntry =>
        /\ table[c] # NoEntry
        /\ served[c].key = table[c].key
        /\ served[c].addr = table[c].addr
  BY DEF Shapes, Target
<1> HIDE DEF served
<1>3. table'[c] = served[c] \/ table'[c] = NoEntry
  BY <1>1 DEF Without
<1>4. session'[c] \in {session[c], NoSession}
  BY DEF Serve, RevokedOnce
<1> QED
  BY <1>2, <1>3, <1>4 DEF Calm

\* Only a heartbeat gives an entry a key or an address, and it pins the session
\* to that address; a new session has a key that no entry has.
LEMMA PinnedStep == Shapes /\ PinnedAddress /\ [Next]_vars => PinnedAddress'
<1> SUFFICES ASSUME Shapes, PinnedAddress, [Next]_vars, NEW c \in Client PROVE Pinned(c)'
  BY PinnedParts DEF PinnedAddress, Pinned, Clients, HasSession
<1>p. Pinned(c)
  BY PinnedParts
<1>q. Calm(c) => Pinned(c)'
  BY <1>p, CalmKeeps
<1>r. session[c] \in Session \cup {NoSession} /\ table[c] \in Entry \cup {NoEntry}
  BY DEF Shapes
<1>1. ASSUME NEW d \in Client, NEW k \in Key, NEW once \in BOOLEAN, Authenticate(d, k, once)
      PROVE  Pinned(c)'
  <2>1. CASE c = d
    <3>1. session'[c].key = k
      BY <1>1, <2>1 DEF Authenticate, Shapes
    <3>2. table'[c] = table[c]
      BY <1>1 DEF Authenticate
    <3>3. table[c] # NoEntry => table[c].key # k
      BY <1>1 DEF Authenticate, Fresh
    <3> QED
      BY <3>1, <3>2, <3>3 DEF Pinned
  <2>2. CASE c # d
    BY <1>1, <1>q, <2>2 DEF Authenticate, Calm, Shapes
  <2> QED
    BY <2>1, <2>2
<1>2. ASSUME NEW d \in Client, SessionEnds(d) PROVE Pinned(c)'
  BY <1>2, <1>q DEF SessionEnds, Calm, Shapes
<1>3. ASSUME NEW d \in Client, Disconnect(d) PROVE Pinned(c)'
  BY <1>3, <1>q DEF Disconnect, Drop, Without, Calm, Shapes
<1>4. ASSUME NEW d \in Client, NEW a \in Addr, HeartbeatAdmits(d, a) PROVE Pinned(c)'
  <2>1. CASE c = d
    <3>1. table'[c].addr = a
      BY <1>4, <2>1 DEF HeartbeatAdmits, NewEntry, Shapes
    <3>2. session'[c].pin = a
      BY <1>4, <1>r, <2>1 DEF HeartbeatAdmits, Verified, HasSession, Shapes, Session
    <3> QED
      BY <3>1, <3>2 DEF Pinned
  <2>2. CASE c # d
    BY <1>4, <1>q, <2>2 DEF HeartbeatAdmits, Verified, Calm, Shapes
  <2> QED
    BY <2>1, <2>2
<1>5. ASSUME NEW d \in Client, NEW a \in Addr, HeartbeatRefused(d, a) PROVE Pinned(c)'
  <2>1. CASE c = d
    BY <1>5, <2>1 DEF HeartbeatRefused, Clients, Pinned
  <2>2. CASE c # d
    BY <1>5, <1>q, <2>2 DEF HeartbeatRefused, Verified, Calm, Shapes
  <2> QED
    BY <2>1, <2>2
<1>6. ASSUME NEW d \in Client, NEW a \in Addr, HeartbeatRefreshes(d, a) PROVE Pinned(c)'
  <2>1. CASE c = d
    <3>1. table'[c].addr = a
      BY <1>6, <1>r, <2>1 DEF HeartbeatRefreshes, Clients, Shapes, Entry
    <3>2. session'[c].pin = a
      BY <1>6, <1>r, <2>1 DEF HeartbeatRefreshes, Verified, HasSession, Shapes, Session
    <3> QED
      BY <3>1, <3>2 DEF Pinned
  <2>2. CASE c # d
    BY <1>6, <1>q, <2>2 DEF HeartbeatRefreshes, Verified, Calm, Shapes
  <2> QED
    BY <2>1, <2>2
<1>7. ASSUME NEW d \in Client, Silence(d) PROVE Pinned(c)'
  BY <1>7, <1>q, <1>r DEF Silence, Clients, Calm, Shapes, Entry
<1>8. ASSUME NEW d \in Client, Encrypt(d) PROVE Pinned(c)'
  BY <1>8, <1>q DEF Encrypt, Calm
<1>9. ASSUME NEW d \in Client, SkipFrame(d) PROVE Pinned(c)'
  BY <1>9, <1>q, ServeCalm DEF SkipFrame
<1>10. ASSUME NEW d \in Client, Finish(d) PROVE Pinned(c)'
  <2> DEFINE e == [Target(d) EXCEPT !.seq = @ + 1, !.errors = 0]
  <2>1. Target(d) \in Entry
    BY <1>10, TargetType DEF Finish
  <2>2. e.key = Target(d).key /\ e.addr = Target(d).addr
    BY <2>1, EntryIdentity, Zenon
  <2>3. Serve(d, e, dead) /\ d \in todo
    BY <1>10 DEF Finish
  <2> HIDE DEF e
  <2> QED
    BY <2>2, <2>3, <1>q, ServeCalm
<1>11. ASSUME NEW d \in Client, Fail(d) PROVE Pinned(c)'
  <2> DEFINE e == [Target(d) EXCEPT !.errors = @ + 1]
             gone == IF e.errors >= MaxErrors THEN dead \cup {d} ELSE dead
  <2>1. Target(d) \in Entry
    BY <1>11, TargetType DEF Fail
  <2>2. e.key = Target(d).key /\ e.addr = Target(d).addr
    BY <2>1, EntryIdentity, Zenon
  <2>3. Serve(d, e, gone) /\ d \in todo
    BY <1>11 DEF Fail
  <2> HIDE DEF e, gone
  <2> QED
    BY <2>2, <2>3, <1>q, ServeCalm
<1>12. ASSUME BeginRound PROVE Pinned(c)'
  BY <1>12, <1>q DEF BeginRound, Calm
<1>13. ASSUME Cleanup PROVE Pinned(c)'
  BY <1>13, <1>q DEF Cleanup, Drop, Without, RevokedOnce, Calm
<1>14. CASE UNCHANGED vars
  BY <1>14, <1>q DEF vars, Calm
<1> QED
  BY <1>1, <1>2, <1>3, <1>4, <1>5, <1>6, <1>7, <1>8, <1>9, <1>10, <1>11, <1>12, <1>13,
     <1>14, NextCases

\* Frames go to the address that the session is pinned to, through refreshes,
\* drops and readmissions, for any number of clients, keys and addresses.
THEOREM AddressIsPinned == Spec => []PinnedAddress
<1>1. Init => PinnedAddress
  BY DEF Init, PinnedAddress, Clients
<1>2. QED
  BY <1>1, PinnedStep, ShapesHold, PTL DEF Spec

-----------------------------------------------------------------------------
\* Whoever takes the place of d away revokes its single-use session.
Tied(d) ==
  table[d] # NoEntry /\ table'[d] = NoEntry /\ session'[d] # NoSession
    => ~session'[d].once

LEMMA PlaceStep ==
  ASSUME Shapes, [Next]_vars, NEW c \in Client
  PROVE  Tied(c)
<1> USE DEF Tied
<1>1. ASSUME NEW S, table[c] # NoEntry /\ table'[c] = NoEntry => c \in S, session' = RevokedOnce(S) PROVE Tied(c)
  BY <1>1 DEF RevokedOnce, HasSession
<1>2. ASSUME table[c] # NoEntry => table'[c] # NoEntry PROVE Tied(c)
  BY <1>2
<1>3. ASSUME NEW d \in todo, NEW e, e # NoEntry, NEW gone, Serve(d, e, gone) PROVE Tied(c)
  <2> DEFINE served == IF orphan[d] = NoEntry THEN [table EXCEPT ![d] = e] ELSE table
  <2>1. table[c] # NoEntry => served[c] # NoEntry
    BY <1>3 DEF Shapes
  <2>2. table' = IF todo = {d} THEN Without(served, gone) ELSE served
    BY <1>3 DEF Serve
  <2> HIDE DEF served
  <2>3. CASE todo = {d}
    BY <1>1, <1>2, <1>3, <2>1, <2>2, <2>3 DEF Serve, Without
  <2>4. CASE todo # {d}
    BY <1>2, <2>1, <2>2, <2>4
  <2> QED
    BY <2>3, <2>4
<1>4. ASSUME NEW d \in Client, SkipFrame(d) PROVE Tied(c)
  BY <1>3, <1>4, TargetType, NullsAreNull DEF SkipFrame
<1>5. ASSUME NEW d \in Client, Finish(d) PROVE Tied(c)
  <2> DEFINE e == [Target(d) EXCEPT !.seq = @ + 1, !.errors = 0]
  <2>1. e \in Entry
    BY <1>5, TargetType, LoopUpdates, Zenon DEF Finish
  <2>2. Serve(d, e, dead) /\ d \in todo
    BY <1>5 DEF Finish
  <2> HIDE DEF e
  <2> QED
    BY <2>1, <2>2, <1>3, NullsAreNull
<1>6. ASSUME NEW d \in Client, Fail(d) PROVE Tied(c)
  <2> DEFINE e == [Target(d) EXCEPT !.errors = @ + 1]
             gone == IF e.errors >= MaxErrors THEN dead \cup {d} ELSE dead
  <2>1. e \in Entry
    BY <1>6, TargetType, LoopUpdates, Zenon DEF Fail
  <2>2. Serve(d, e, gone) /\ d \in todo
    BY <1>6 DEF Fail
  <2> HIDE DEF e, gone
  <2> QED
    BY <2>1, <2>2, <1>3, NullsAreNull
<1>7. ASSUME NEW d \in Client, NEW a \in Addr, HeartbeatAdmits(d, a) PROVE Tied(c)
  BY <1>7, HeartbeatUpdates, NullsAreNull DEF HeartbeatAdmits, Clients, Shapes
<1>8. ASSUME NEW d \in Client, NEW a \in Addr, HeartbeatRefreshes(d, a) PROVE Tied(c)
  <2>1. session[d].key \in Key /\ table[d] \in Entry
    BY <1>8 DEF HeartbeatRefreshes, Verified, HasSession, Clients, Shapes, Session
  <2>2. [table[d] EXCEPT !.key = session[d].key, !.addr = a, !.silent = FALSE] \in Entry
    BY <2>1, HeartbeatUpdates
  <2> QED
    BY <1>2, <1>8, <2>2, NullsAreNull DEF HeartbeatRefreshes, Shapes
<1>9. ASSUME NEW d \in Client, Silence(d) PROVE Tied(c)
  <2>1. [table[d] EXCEPT !.silent = TRUE] \in Entry
    BY <1>9, LoopUpdates DEF Silence, Clients, Shapes
  <2> QED
    BY <1>2, <1>9, <2>1, NullsAreNull DEF Silence, Shapes
<1>10. ASSUME NEW d \in Client, Disconnect(d) PROVE Tied(c)
  BY <1>10, NullsAreNull DEF Disconnect, Drop, Without, Shapes
<1>11. ASSUME Cleanup PROVE Tied(c)
  BY <1>1, <1>11 DEF Cleanup, Drop, Without
<1>12. ASSUME table' = table PROVE Tied(c)
  BY <1>2, <1>12
<1>13. CASE UNCHANGED vars
  BY <1>12, <1>13 DEF vars
<1>14. ASSUME NEW d \in Client, Encrypt(d) \/ SessionEnds(d) PROVE Tied(c)
  BY <1>14, <1>12 DEF Encrypt, SessionEnds
<1>15. ASSUME NEW d \in Client, NEW k \in Key, NEW once \in BOOLEAN, Authenticate(d, k, once)
       PROVE  Tied(c)
  BY <1>15, <1>12 DEF Authenticate
<1>16. ASSUME NEW d \in Client, NEW a \in Addr, HeartbeatRefused(d, a) PROVE Tied(c)
  BY <1>16, <1>12 DEF HeartbeatRefused
<1>17. ASSUME BeginRound PROVE Tied(c)
  BY <1>17, <1>12 DEF BeginRound
<1> HIDE DEF Tied
<1> QED
  BY <1>4, <1>5, <1>6, <1>7, <1>8, <1>9, <1>10, <1>11, <1>13, <1>14, <1>15, <1>16, <1>17,
     NextCases

\* A single-use session ends no later than the client's place in the table,
\* whoever takes that place and however the entries have moved.
THEOREM SingleUseEndsWithItsPlace == Spec => SingleUseEndsWithPlace
<1>1. Shapes /\ [Next]_vars =>
        [\A d \in Client :
           d \in Clients /\ d \notin Clients' /\ HasSession(d)'
             => ~session'[d].once]_vars
  BY PlaceStep DEF Tied, Clients, HasSession
<1>2. QED
  BY <1>1, ShapesHold, PTL DEF Spec, SingleUseEndsWithPlace

-----------------------------------------------------------------------------
(***************************************************************************)
(* The service with its clients.                                           *)
(***************************************************************************)

\* A client's own steps leave the service alone, and what it receives is the
\* end of a frame there.
LEMMA PathStep == [PathNext]_pathVars => [Next]_vars
<1> SUFFICES ASSUME [PathNext]_pathVars PROVE [Next]_vars
  OBVIOUS
<1>1. ASSUME NEW d \in Client, NEW k \in Key, NEW once \in BOOLEAN, Reconnect(d, k, once)
      PROVE  Next
  BY <1>1 DEF Reconnect, Next, SessionNext
<1>2. ASSUME NEW d \in Client, GiveUp(d) PROVE UNCHANGED vars
  BY <1>2 DEF GiveUp
<1>3. ASSUME NEW d \in Client, Receive(d) PROVE Next
  BY <1>3 DEF Receive, Next, RoundNext
<1>4. ASSUME NEW d \in Client, Elsewhere(d) PROVE Next
  BY <1>4 DEF Elsewhere, Next, SessionNext
<1>5. UNCHANGED pathVars => UNCHANGED vars
  BY DEF pathVars
<1> QED
  BY <1>1, <1>2, <1>3, <1>4, <1>5 DEF PathNext, Next

\* With its clients the stream service still does only what it does alone, so
\* whatever is proved of it holds of the two together.
THEOREM PathImplementsService == PathSpec => Spec
<1>1. PathInit => Init
  BY DEF PathInit
<1> QED
  BY <1>1, PathStep, PTL DEF PathSpec, Spec

\* The types of what the clients keep.
PathShapes ==
  /\ Shapes
  /\ mine \in [Client -> Key \cup {NoKey}]
  /\ last \in [Client -> Nat \cup {-1}]

\* The frame under way has a key, and a client with a session holds its key.
InFlight == sending = NoClient <=> cipher = NoKey

Current == \A d \in Client : HasSession(d) /\ mine[d] # NoKey => mine[d] = session[d].key

\* The keys in use for a client, and by it.
Uses(d, k) ==
  \/ mine[d] = k
  \/ HasSession(d) /\ session[d].key = k
  \/ table[d] # NoEntry /\ table[d].key = k
  \/ orphan[d] # NoEntry /\ orphan[d].key = k
  \/ sending = d /\ cipher = k

\* No key is in use for two.
KeysApart == \A d, e \in Client : d # e => \A k \in Key : ~(Uses(d, k) /\ Uses(e, k))

\* Every step of the path, one by one.
LEMMA PathCases ==
  ASSUME PathNext, NEW P,
         \A d \in Client, k \in Key, once \in BOOLEAN : Reconnect(d, k, once) => P,
         \A d \in Client : GiveUp(d) => P,
         \A d \in Client : Receive(d) => P,
         \A d \in Client : SessionEnds(d) /\ UNCHANGED listeners => P,
         \A d \in Client : Disconnect(d) /\ UNCHANGED listeners => P,
         \A d \in Client, a \in Addr : HeartbeatAdmits(d, a) /\ UNCHANGED listeners => P,
         \A d \in Client, a \in Addr : HeartbeatRefused(d, a) /\ UNCHANGED listeners => P,
         \A d \in Client, a \in Addr : HeartbeatRefreshes(d, a) /\ UNCHANGED listeners => P,
         \A d \in Client : Silence(d) /\ UNCHANGED listeners => P,
         \A d \in Client : Encrypt(d) /\ UNCHANGED listeners => P,
         \A d \in Client : SkipFrame(d) /\ UNCHANGED listeners => P,
         \A d \in Client : Finish(d) /\ UNCHANGED listeners => P,
         \A d \in Client : Fail(d) /\ UNCHANGED listeners => P,
         BeginRound /\ UNCHANGED listeners => P,
         Cleanup /\ UNCHANGED listeners => P
  PROVE  P
  BY DEF PathNext, Elsewhere, HeartbeatNext, RoundNext

LEMMA PathShapesStep == PathShapes /\ [PathNext]_pathVars => PathShapes'
<1> SUFFICES ASSUME PathShapes, [PathNext]_pathVars PROVE PathShapes'
  OBVIOUS
<1>1. Shapes'
  BY PathStep, ShapesStep DEF PathShapes
<1>2. ASSUME NEW d \in Client, NEW k \in Key, NEW once \in BOOLEAN, Reconnect(d, k, once)
      PROVE  PathShapes'
  BY <1>1, <1>2 DEF Reconnect, PathShapes
<1>3. ASSUME NEW d \in Client, GiveUp(d) PROVE PathShapes'
  BY <1>1, <1>3 DEF GiveUp, PathShapes
<1>4. ASSUME NEW d \in Client, Receive(d) PROVE PathShapes'
  <2>1. Target(d).seq \in Nat
    BY <1>4, TargetType DEF Receive, Finish, PathShapes, Entry
  <2> QED
    BY <1>1, <1>4, <2>1 DEF Receive, PathShapes
<1>5. ASSUME UNCHANGED listeners PROVE PathShapes'
  BY <1>1, <1>5 DEF listeners, PathShapes
<1> QED
  BY <1>2, <1>3, <1>4, <1>5 DEF PathNext, Elsewhere, pathVars

\* A served frame is no longer under way, and its entry keeps its key.
LEMMA ServeKeys ==
  ASSUME Shapes, NEW d \in todo, NEW e, NEW gone, Serve(d, e, gone),
         e.key = Target(d).key, NEW c \in Client
  PROVE  /\ session'[c] \in {session[c], NoSession}
         /\ table'[c] # NoEntry => table[c] # NoEntry /\ table'[c].key = table[c].key
         /\ orphan'[c] \in {orphan[c], NoEntry}
         /\ sending' = NoClient /\ cipher' = NoKey
<1> DEFINE served == IF orphan[d] = NoEntry THEN [table EXCEPT ![d] = e] ELSE table
<1>1. table' = IF todo = {d} THEN Without(served, gone) ELSE served
  BY DEF Serve
<1>2. served[c] # NoEntry => table[c] # NoEntry /\ served[c].key = table[c].key
  BY DEF Shapes, Target
<1> HIDE DEF served
<1>3. table'[c] = served[c] \/ table'[c] = NoEntry
  BY <1>1 DEF Without
<1>4. session'[c] \in {session[c], NoSession}
  BY DEF Serve, RevokedOnce
<1>5. orphan'[c] \in {orphan[c], NoEntry} /\ sending' = NoClient /\ cipher' = NoKey
  BY DEF Serve, Shapes
<1> QED
  BY <1>2, <1>3, <1>4, <1>5

\* The three ways of serving a client.
LEMMA Serving ==
  ASSUME Shapes, NEW d \in Client, SkipFrame(d) \/ Finish(d) \/ Fail(d)
  PROVE  /\ d \in todo /\ sending \in {d, NoClient}
         /\ \E e \in Entry, gone \in SUBSET Client :
              /\ Serve(d, e, gone)
              /\ e.key = Target(d).key /\ e.seq >= Target(d).seq
              /\ Finish(d) => e.seq = Target(d).seq + 1
<1>1. d \in todo /\ sending \in {d, NoClient}
  BY DEF SkipFrame, Finish, Fail
<1>2. Target(d) \in Entry /\ Target(d).seq \in Nat
  BY <1>1, TargetType DEF Entry
<1>3. CASE SkipFrame(d) /\ ~Finish(d)
  BY <1>1, <1>2, <1>3 DEF SkipFrame, Shapes
<1>4. CASE Finish(d)
  <2> DEFINE e == [Target(d) EXCEPT !.seq = @ + 1, !.errors = 0]
  <2>1. e \in Entry /\ e.key = Target(d).key
    BY <1>2, LoopUpdates, EntryIdentity, Zenon
  <2>2. e.seq = Target(d).seq + 1
    BY <1>2 DEF Entry
  <2>3. Serve(d, e, dead) /\ dead \in SUBSET Client
    BY <1>4 DEF Finish, Shapes
  <2> HIDE DEF e
  <2> QED
    BY <1>1, <1>2, <2>1, <2>2, <2>3
<1>5. CASE Fail(d) /\ ~Finish(d)
  <2> DEFINE e == [Target(d) EXCEPT !.errors = @ + 1]
             gone == IF e.errors >= MaxErrors THEN dead \cup {d} ELSE dead
  <2>1. e \in Entry /\ e.key = Target(d).key
    BY <1>2, LoopUpdates, EntryIdentity, Zenon
  <2>2. e.seq = Target(d).seq
    BY <1>2 DEF Entry
  <2>3. Serve(d, e, gone)
    BY <1>5 DEF Fail
  <2>4. gone \in SUBSET Client
    BY DEF Shapes
  <2> HIDE DEF e, gone
  <2> QED
    BY <1>1, <1>2, <1>5, <2>1, <2>2, <2>3, <2>4
<1> QED
  BY <1>3, <1>4, <1>5

LEMMA InFlightStep == PathShapes /\ InFlight /\ [PathNext]_pathVars => InFlight'
<1> SUFFICES ASSUME PathShapes, InFlight, [PathNext]_pathVars PROVE InFlight'
  OBVIOUS
<1>1. ASSUME UNCHANGED <<sending, cipher>> PROVE InFlight'
  BY <1>1 DEF InFlight
<1>2. ASSUME NEW d \in Client, Encrypt(d) PROVE InFlight'
  <2>1. Target(d).key \in Key
    BY <1>2, TargetType DEF Encrypt, PathShapes, Entry
  <2> QED
    BY <1>2, <2>1, NullsAreNull DEF Encrypt, InFlight
<1>3. ASSUME NEW d \in Client, SkipFrame(d) \/ Finish(d) \/ Fail(d) PROVE InFlight'
  BY <1>3 DEF SkipFrame, Finish, Fail, Serve, InFlight
<1>4. ASSUME NEW d \in Client, Receive(d) PROVE InFlight'
  BY <1>3, <1>4 DEF Receive
<1>5. CASE UNCHANGED pathVars
  BY <1>1, <1>5 DEF pathVars, vars, round
<1>6. CASE PathNext
  BY <1>1, <1>2, <1>3, <1>4, <1>6, PathCases
     DEF Reconnect, Authenticate, GiveUp, SessionEnds, Disconnect, HeartbeatAdmits,
         HeartbeatRefused, HeartbeatRefreshes, Silence, BeginRound, Cleanup, vars, round
<1> QED
  BY <1>5, <1>6

\* Of a client's connection and its session, the session is the newer.
LEMMA CurrentStep == PathShapes /\ Current /\ [PathNext]_pathVars => Current'
<1> SUFFICES ASSUME PathShapes, Current, [PathNext]_pathVars, NEW c \in Client,
                    HasSession(c)', mine'[c] # NoKey
             PROVE  mine'[c] = session'[c].key
  BY DEF Current
<1> DEFINE Goal == mine'[c] = session'[c].key
<1>1. ASSUME session'[c] \in {session[c], NoSession}, mine'[c] = mine[c] PROVE Goal
  BY <1>1 DEF Current, HasSession
<1>2. ASSUME NEW d \in Client, NEW k \in Key, NEW once \in BOOLEAN, Reconnect(d, k, once)
      PROVE  Goal
  <2>1. session' = [session EXCEPT ![d] = [key |-> k, once |-> once, pin |-> NoAddr]]
    BY <1>2 DEF Reconnect, Authenticate
  <2>2. mine' = [mine EXCEPT ![d] = k]
    BY <1>2 DEF Reconnect
  <2>3. CASE c = d
    BY <2>1, <2>2, <2>3 DEF PathShapes, Shapes
  <2>4. CASE c # d
    BY <1>1, <2>1, <2>2, <2>4 DEF PathShapes, Shapes
  <2> QED
    BY <2>3, <2>4
<1>3. ASSUME NEW d \in Client, GiveUp(d) PROVE Goal
  <2>1. session' = session /\ mine' = [mine EXCEPT ![d] = NoKey]
    BY <1>3 DEF GiveUp, vars
  <2> QED
    BY <1>1, <2>1 DEF PathShapes
<1>4. ASSUME NEW d \in Client, SkipFrame(d) \/ Finish(d) \/ Fail(d), mine' = mine PROVE Goal
  <2>1. session'[c] \in {session[c], NoSession}
    BY <1>4 DEF SkipFrame, Finish, Fail, Serve, RevokedOnce
  <2> QED
    BY <1>1, <1>4, <2>1
<1>5. ASSUME NEW d \in Client, NEW a \in Addr, Verified(d, a), mine' = mine PROVE Goal
  <2>1. session' = [session EXCEPT ![d].pin = a]
    BY <1>5 DEF Verified
  <2>2. session'[c].key = session[c].key /\ (HasSession(c)' => HasSession(c))
    <3>1. CASE c = d
      BY <1>5, <2>1, <3>1 DEF Verified, HasSession, PathShapes, Shapes, Session
    <3>2. CASE c # d
      BY <2>1, <3>2 DEF HasSession, PathShapes, Shapes
    <3> QED
      BY <3>1, <3>2
  <2> QED
    BY <1>5, <2>2 DEF Current
<1>6. ASSUME NEW d \in Client, SessionEnds(d) \/ Disconnect(d), mine' = mine PROVE Goal
  <2>1. session' = [session EXCEPT ![d] = NoSession]
    BY <1>6 DEF SessionEnds, Disconnect
  <2> QED
    BY <1>1, <1>6, <2>1 DEF PathShapes, Shapes
<1>7. ASSUME Cleanup, mine' = mine PROVE Goal
  BY <1>1, <1>7 DEF Cleanup, RevokedOnce
<1>8. ASSUME session' = session, mine' = mine PROVE Goal
  BY <1>1, <1>8
<1>9. CASE UNCHANGED pathVars
  BY <1>8, <1>9 DEF pathVars, vars, listeners
<1>10. CASE PathNext
  <2> HIDE DEF Goal
  <2>1. \A d \in Client : Receive(d) => Goal
    BY <1>4 DEF Receive
  <2>2. ASSUME UNCHANGED listeners
        PROVE  /\ \A d \in Client : SessionEnds(d) \/ Disconnect(d) => Goal
               /\ \A d \in Client, a \in Addr :
                    HeartbeatAdmits(d, a) \/ HeartbeatRefused(d, a) \/ HeartbeatRefreshes(d, a) => Goal
               /\ \A d \in Client : Silence(d) \/ Encrypt(d) => Goal
               /\ \A d \in Client : SkipFrame(d) \/ Finish(d) \/ Fail(d) => Goal
               /\ BeginRound \/ Cleanup => Goal
    <3>1. mine' = mine
      BY <2>2 DEF listeners
    <3>2. \A d \in Client, a \in Addr :
            HeartbeatAdmits(d, a) \/ HeartbeatRefused(d, a) \/ HeartbeatRefreshes(d, a) => Goal
      BY <1>5, <3>1 DEF HeartbeatAdmits, HeartbeatRefused, HeartbeatRefreshes
    <3>3. \A d \in Client : Silence(d) \/ Encrypt(d) => Goal
      BY <1>8, <3>1 DEF Silence, Encrypt
    <3>4. BeginRound \/ Cleanup => Goal
      BY <1>7, <1>8, <3>1 DEF BeginRound
    <3> QED
      BY <1>4, <1>6, <3>1, <3>2, <3>3, <3>4
  <2>3. Goal
    BY <1>2, <1>3, <1>10, <2>1, <2>2, PathCases
  <2> QED
    BY <2>3 DEF Goal
<1> QED
  BY <1>9, <1>10

\* Only a new session brings a key into use, and it is in use for nobody then.
LEMMA NewKey ==
  ASSUME PathShapes, NEW d \in Client, NEW k \in Key, NEW once \in BOOLEAN,
         Reconnect(d, k, once), NEW c \in Client, NEW j \in Key
  PROVE  ~Uses(c, k) /\ (Uses(c, j)' => Uses(c, j) \/ (c = d /\ j = k))
<1>1. k \in Fresh /\ mine[c] # k
  BY DEF Reconnect, Authenticate
<1>2. ~Uses(c, k)
  BY <1>1 DEF Fresh, Uses
<1>3. /\ UNCHANGED <<table, orphan, sending, cipher>>
      /\ session' = [session EXCEPT ![d] = [key |-> k, once |-> once, pin |-> NoAddr]]
      /\ mine' = [mine EXCEPT ![d] = k]
  BY DEF Reconnect, Authenticate, round
<1>4. CASE c = d
  BY <1>2, <1>3, <1>4 DEF Uses, HasSession, PathShapes, Shapes
<1>5. CASE c # d
  BY <1>2, <1>3, <1>5 DEF Uses, HasSession, PathShapes, Shapes
<1> QED
  BY <1>4, <1>5

\* No other step does.
LEMMA OldKeys ==
  ASSUME PathShapes, InFlight, NEW c \in Client, NEW k \in Key, Uses(c, k)',
         PathNext,
         ~ \E d \in Client, j \in Key, once \in BOOLEAN : Reconnect(d, j, once)
  PROVE  Uses(c, k)
<1> DEFINE Goal == Uses(c, k)
<1>0. /\ session[c] \in Session \cup {NoSession} /\ table[c] \in Entry \cup {NoEntry}
      /\ NoKey # k /\ NoClient # c
  BY NullsAreNull DEF PathShapes, Shapes
<1>1. ASSUME NEW d \in Client, GiveUp(d) PROVE Goal
  <2>1. UNCHANGED <<session, table, orphan, sending, cipher>> /\ mine' = [mine EXCEPT ![d] = NoKey]
    BY <1>1 DEF GiveUp, vars, round
  <2> QED
    BY <1>0, <2>1 DEF Uses, HasSession, PathShapes
<1>2. ASSUME NEW d \in Client, SkipFrame(d) \/ Finish(d) \/ Fail(d), mine' = mine PROVE Goal
  <2>1. PICK e \in Entry, gone \in SUBSET Client : Serve(d, e, gone) /\ e.key = Target(d).key
    BY <1>2, Serving DEF PathShapes
  <2>2. /\ session'[c] \in {session[c], NoSession}
        /\ table'[c] # NoEntry => table[c] # NoEntry /\ table'[c].key = table[c].key
        /\ orphan'[c] \in {orphan[c], NoEntry}
        /\ sending' = NoClient
    BY <1>2, <2>1, Serving, ServeKeys DEF PathShapes
  <2> QED
    BY <1>0, <1>2, <2>2 DEF Uses, HasSession
<1>3. ASSUME NEW d \in Client, Receive(d) PROVE Goal
  BY <1>2, <1>3 DEF Receive
<1>4. ASSUME NEW d \in Client, NEW a \in Addr,
             HeartbeatAdmits(d, a) \/ HeartbeatRefused(d, a) \/ HeartbeatRefreshes(d, a),
             mine' = mine
      PROVE  Goal
  <2>1. Verified(d, a) /\ UNCHANGED <<orphan, sending, cipher>>
    BY <1>4 DEF HeartbeatAdmits, HeartbeatRefused, HeartbeatRefreshes, round
  <2>2. session' = [session EXCEPT ![d].pin = a] /\ HasSession(d)
    BY <2>1 DEF Verified
  <2>3. CASE c # d
    <3>1. session'[c] = session[c] /\ table'[c] = table[c]
      BY <1>4, <2>2, <2>3 DEF HeartbeatAdmits, HeartbeatRefused, HeartbeatRefreshes,
                              PathShapes, Shapes
    <3> QED
      BY <1>4, <2>1, <3>1 DEF Uses, HasSession
  <2>4. CASE c = d
    <3>1. session'[c].key = session[c].key /\ HasSession(c)
      BY <1>0, <2>2, <2>4 DEF HasSession, Session, PathShapes, Shapes
    <3>2. table'[c] # NoEntry =>
            table'[c].key = session[c].key \/ (table[c] # NoEntry /\ table'[c].key = table[c].key)
      <4>1. CASE HeartbeatAdmits(d, a)
        BY <2>4, <4>1 DEF HeartbeatAdmits, NewEntry, PathShapes, Shapes
      <4>2. CASE HeartbeatRefused(d, a)
        BY <4>2 DEF HeartbeatRefused
      <4>3. CASE HeartbeatRefreshes(d, a)
        BY <1>0, <2>4, <4>3 DEF HeartbeatRefreshes, Clients, Entry, PathShapes, Shapes
      <4> QED
        BY <1>4, <4>1, <4>2, <4>3
    <3> QED
      BY <1>4, <2>1, <3>1, <3>2 DEF Uses
  <2> QED
    BY <2>3, <2>4
<1>5. ASSUME NEW S, Drop(S), UNCHANGED <<sending, cipher>>, mine' = mine,
             session'[c] \in {session[c], NoSession}
      PROVE  Goal
  <2>1. table'[c] \in {table[c], NoEntry} /\ orphan'[c] \in {orphan[c], table[c]}
    BY <1>5 DEF Drop, Without
  <2> QED
    BY <1>5, <2>1 DEF Uses, HasSession
<1>6. ASSUME NEW d \in Client, SessionEnds(d) \/ Disconnect(d), mine' = mine PROVE Goal
  <2>1. session'[c] \in {session[c], NoSession}
    BY <1>6 DEF SessionEnds, Disconnect, PathShapes, Shapes
  <2>2. CASE SessionEnds(d)
    BY <1>6, <2>1, <2>2 DEF SessionEnds, round, Uses, HasSession
  <2>3. CASE Disconnect(d)
    BY <1>5, <1>6, <2>1, <2>3 DEF Disconnect
  <2> QED
    BY <1>6, <2>2, <2>3
<1>7. ASSUME Cleanup, mine' = mine PROVE Goal
  <2>1. session'[c] \in {session[c], NoSession}
    BY <1>7 DEF Cleanup, RevokedOnce
  <2> QED
    BY <1>5, <1>7, <2>1 DEF Cleanup
<1>8. ASSUME NEW d \in Client, Silence(d), mine' = mine PROVE Goal
  <2>1. table'[c].key = table[c].key /\ (table'[c] # NoEntry => table[c] # NoEntry)
    <3>1. table[d] \in Entry /\ table' = [table EXCEPT ![d] = [table[d] EXCEPT !.silent = TRUE]]
      BY <1>8 DEF Silence, Clients, PathShapes, Shapes
    <3>2. [table[d] EXCEPT !.silent = TRUE].key = table[d].key
      BY <3>1, EntryIdentity
    <3>3. CASE c = d
      BY <3>1, <3>2, <3>3, NullsAreNull DEF PathShapes, Shapes
    <3>4. CASE c # d
      BY <3>1, <3>4 DEF PathShapes, Shapes
    <3> QED
      BY <3>3, <3>4
  <2> QED
    BY <1>8, <2>1 DEF Silence, round, Uses, HasSession
<1>9. ASSUME NEW d \in Client, Encrypt(d), mine' = mine PROVE Goal
  <2>1. /\ UNCHANGED <<session, table, orphan>> /\ sending' = d /\ cipher' = Target(d).key
        /\ d \in todo
    BY <1>9 DEF Encrypt
  <2>2. table[d] # NoEntry \/ orphan[d] # NoEntry
    BY <2>1 DEF PathShapes, Shapes
  <2> QED
    BY <1>9, <2>1, <2>2 DEF Uses, HasSession, Target
<1>10. ASSUME BeginRound, mine' = mine PROVE Goal
  BY <1>10 DEF BeginRound, Uses, HasSession
<1> HIDE DEF Goal
<1>11. ASSUME UNCHANGED listeners
       PROVE  /\ \A d \in Client : SessionEnds(d) \/ Disconnect(d) => Goal
              /\ \A d \in Client, a \in Addr :
                   HeartbeatAdmits(d, a) \/ HeartbeatRefused(d, a) \/ HeartbeatRefreshes(d, a) => Goal
              /\ \A d \in Client : Silence(d) => Goal
              /\ \A d \in Client : Encrypt(d) => Goal
              /\ \A d \in Client : SkipFrame(d) \/ Finish(d) \/ Fail(d) => Goal
              /\ BeginRound => Goal
              /\ Cleanup => Goal
  <2>1. mine' = mine
    BY <1>11 DEF listeners
  <2> QED
    BY <1>2, <1>4, <1>6, <1>7, <1>8, <1>9, <1>10, <2>1
<1>12. Goal
  BY <1>1, <1>3, <1>11, PathCases
<1> QED
  BY <1>12 DEF Goal

LEMMA KeysApartStep == PathShapes /\ InFlight /\ KeysApart /\ [PathNext]_pathVars => KeysApart'
<1> SUFFICES ASSUME PathShapes, InFlight, KeysApart, [PathNext]_pathVars,
                    NEW d \in Client, NEW e \in Client, d # e, NEW k \in Key,
                    Uses(d, k)', Uses(e, k)'
             PROVE  FALSE
  BY DEF KeysApart
<1>1. ASSUME Uses(d, k), Uses(e, k) PROVE FALSE
  BY <1>1 DEF KeysApart
<1>2. CASE UNCHANGED pathVars
  BY <1>1, <1>2 DEF pathVars, vars, listeners, round, Uses, HasSession
<1>3. CASE \E b \in Client, j \in Key, once \in BOOLEAN : Reconnect(b, j, once)
  <2>1. PICK b \in Client, j \in Key, once \in BOOLEAN : Reconnect(b, j, once)
    BY <1>3
  <2>2. ASSUME NEW c \in Client
        PROVE  ~Uses(c, j) /\ (Uses(c, k)' => Uses(c, k) \/ (c = b /\ k = j))
    BY <2>1, NewKey
  <2> QED
    BY <1>1, <2>2
<1>4. CASE PathNext /\ ~ \E b \in Client, j \in Key, once \in BOOLEAN : Reconnect(b, j, once)
  BY <1>1, <1>4, OldKeys
<1> QED
  BY <1>2, <1>3, <1>4

LEMMA PathInitHolds == PathInit => PathShapes /\ InFlight /\ Current /\ KeysApart
<1> SUFFICES ASSUME PathInit PROVE PathShapes /\ InFlight /\ Current /\ KeysApart
  OBVIOUS
<1>1. Shapes
  BY InitTypes DEF PathInit
<1>2. PathShapes
  BY <1>1 DEF PathInit, PathShapes
<1>3. InFlight /\ Current
  BY DEF PathInit, Init, InFlight, Current
<1>4. \A c \in Client : ~HasSession(c) /\ table[c] = NoEntry /\ orphan[c] = NoEntry
  BY DEF PathInit, Init, HasSession
<1>5. \A c \in Client, k \in Key : ~Uses(c, k)
  BY <1>4, NullsAreNull DEF PathInit, Init, Uses
<1> QED
  BY <1>2, <1>3, <1>5 DEF KeysApart

\* No client can decrypt a frame that is under way to another: no key is ever in
\* use for two, through sessions, refreshes and entries that outlive their place.
THEOREM FramesAreOwn == PathSpec => []OwnFramesOnly
<1>1. PathInit => PathShapes /\ InFlight /\ KeysApart
  BY PathInitHolds
<1>2. PathShapes /\ InFlight /\ KeysApart /\ [PathNext]_pathVars
        => (PathShapes /\ InFlight /\ KeysApart)'
  BY PathShapesStep, InFlightStep, KeysApartStep
<1>3. PathShapes /\ InFlight /\ KeysApart => OwnFramesOnly
  <2> SUFFICES ASSUME PathShapes, InFlight, KeysApart,
                      NEW d \in Client, mine[d] # NoKey, cipher = mine[d]
               PROVE  sending = d
    BY DEF OwnFramesOnly
  <2>1. cipher \in Key /\ sending \in Client
    BY DEF PathShapes, Shapes, InFlight
  <2>2. Uses(d, cipher) /\ Uses(sending, cipher)
    BY DEF Uses
  <2> QED
    BY <2>1, <2>2 DEF KeysApart
<1> QED
  BY <1>1, <1>2, <1>3, PTL DEF PathSpec
-----------------------------------------------------------------------------
\* A frame under way that is encrypted with its client's session key is sent on
\* an entry with that key.
SentAs(d) ==
  sending = d /\ HasSession(d) /\ cipher = session[d].key => Target(d).key = cipher

\* The entries of a client that listens are ahead of what it has taken, and when it
\* has one in the table and one outside, it holds the key of neither the one
\* outside nor the frame under way.
Ahead(d) ==
  mine[d] # NoKey =>
    /\ table[d] # NoEntry => last[d] < table[d].seq
    /\ orphan[d] # NoEntry => last[d] < orphan[d].seq
    /\ table[d] # NoEntry /\ orphan[d] # NoEntry =>
         orphan[d].key # mine[d] /\ ~(sending = d /\ cipher = mine[d])

PathInv ==
  /\ PathShapes /\ InFlight /\ Current
  /\ \A d \in Client : SentAs(d) /\ Ahead(d)

\* What a step leaves of d's entries is no further back than before, and nothing
\* new is under way to it.
Steady(d) ==
  /\ mine'[d] = mine[d] /\ last'[d] = last[d]
  /\ table'[d] # NoEntry => table[d] # NoEntry /\ table'[d].seq >= table[d].seq
  /\ orphan'[d] \in {orphan[d], NoEntry}
  /\ sending' = d => sending = d /\ cipher' = cipher

LEMMA SeqTypes ==
  ASSUME PathShapes, NEW d \in Client
  PROVE  /\ last[d] \in Int
         /\ table[d] # NoEntry => table[d] \in Entry /\ table[d].seq \in Nat
         /\ orphan[d] # NoEntry => orphan[d] \in Entry /\ orphan[d].seq \in Nat
  BY DEF PathShapes, Shapes, Entry

LEMMA SteadyKeeps ==
  ASSUME PathShapes, PathShapes', NEW d \in Client, Ahead(d), Steady(d)
  PROVE  Ahead(d)'
<1>0. table'[d] # NoEntry => table'[d].seq \in Nat
  BY DEF PathShapes, Shapes, Entry
<1>1. /\ last[d] \in Int /\ last'[d] = last[d] /\ mine'[d] = mine[d]
      /\ table[d] # NoEntry => table[d].seq \in Nat
      /\ table'[d] # NoEntry => table'[d].seq \in Nat
  BY <1>0, SeqTypes DEF Steady
<1> SUFFICES ASSUME mine[d] # NoKey PROVE Ahead(d)'
  BY <1>1 DEF Ahead
<1>2. table'[d] # NoEntry => last'[d] < table'[d].seq
  BY <1>1 DEF Ahead, Steady
<1>3. orphan'[d] # NoEntry => last'[d] < orphan'[d].seq
  BY <1>1 DEF Ahead, Steady
<1>4. table'[d] # NoEntry /\ orphan'[d] # NoEntry =>
        orphan'[d].key # mine'[d] /\ ~(sending' = d /\ cipher' = mine'[d])
  BY <1>1 DEF Ahead, Steady
<1> QED
  BY <1>2, <1>3, <1>4 DEF Ahead

\* An entry that leaves the table in the middle of a round is the one outside.
LEMMA DropKeeps ==
  ASSUME PathShapes, NEW S, Drop(S), UNCHANGED <<sending, cipher, mine, last>>,
         NEW d \in Client, Ahead(d)
  PROVE  Ahead(d)'
<1>1. CASE d \notin S
  <2>1. table'[d] = table[d] /\ orphan'[d] = orphan[d]
    BY <1>1 DEF Drop, Without
  <2> QED
    BY <2>1 DEF Ahead
<1>2. CASE d \in S
  <2>1. table'[d] = NoEntry /\ orphan'[d] \in {orphan[d], table[d]}
    BY <1>2 DEF Drop, Without
  <2> QED
    BY <2>1 DEF Ahead
<1> QED
  BY <1>1, <1>2

\* Serving a client moves its entry on.
LEMMA ServeSteady ==
  ASSUME PathShapes, NEW d \in todo, NEW e, NEW gone, Serve(d, e, gone),
         e.seq >= Target(d).seq, UNCHANGED mine, NEW c \in Client, last'[c] = last[c]
  PROVE  Steady(c)
<1> DEFINE served == IF orphan[d] = NoEntry THEN [table EXCEPT ![d] = e] ELSE table
<1>1. table' = IF todo = {d} THEN Without(served, gone) ELSE served
  BY DEF Serve
<1>2. table[c] # NoEntry => table[c].seq >= table[c].seq
  BY SeqTypes
<1>3. served[c] # NoEntry => table[c] # NoEntry /\ served[c].seq >= table[c].seq
  <2>1. CASE orphan[d] = NoEntry /\ c = d
    <3>1. table[d] # NoEntry /\ Target(d) = table[d]
      BY <2>1 DEF PathShapes, Shapes, Target
    <3>2. served[c] = e
      BY <2>1 DEF PathShapes, Shapes
    <3> QED
      BY <2>1, <3>1, <3>2
  <2>2. CASE ~(orphan[d] = NoEntry /\ c = d)
    <3>1. served[c] = table[c]
      BY <2>2 DEF PathShapes, Shapes
    <3> QED
      BY <1>2, <3>1
  <2> QED
    BY <2>1, <2>2
<1> HIDE DEF served
<1>4. table'[c] = served[c] \/ table'[c] = NoEntry
  BY <1>1 DEF Without
<1>5. orphan'[c] \in {orphan[c], NoEntry} /\ sending' = NoClient
  BY DEF Serve, PathShapes, Shapes
<1>6. NoClient # c
  BY NullsAreNull
<1> QED
  BY <1>3, <1>4, <1>5, <1>6 DEF Steady

\* A client that takes a frame has it behind the entry it came from, and that is the
\* only one it listens to.
LEMMA ReceiveKeeps ==
  ASSUME PathInv, NEW d \in Client, Receive(d), NEW c \in Client, PathShapes'
  PROVE  Ahead(c)'
<1> USE DEF PathInv
<1>1. PICK e \in Entry, gone \in SUBSET Client :
        /\ Serve(d, e, gone) /\ e.seq >= Target(d).seq /\ e.seq = Target(d).seq + 1
  BY Serving DEF Receive, PathShapes
<1>2. /\ d \in todo /\ sending = d /\ mine' = mine
      /\ last' = IF cipher = mine[d] /\ Target(d).seq > last[d]
                 THEN [last EXCEPT ![d] = Target(d).seq] ELSE last
  BY DEF Receive, Finish
<1>3. CASE last'[c] = last[c]
  BY <1>1, <1>2, <1>3, ServeSteady, SteadyKeeps
<1>4. CASE last'[c] # last[c]
  <2>1. c = d /\ cipher = mine[d] /\ last'[d] = Target(d).seq
    BY <1>2, <1>4 DEF PathShapes
  <2>2. orphan'[d] = NoEntry
    BY <1>1 DEF Serve, PathShapes, Shapes
  <2>3. cipher # NoKey
    BY <1>2, NullsAreNull DEF InFlight
  <2>4. CASE orphan[d] # NoEntry
    <3>1. table[d] = NoEntry
      BY <1>2, <2>1, <2>3, <2>4 DEF Ahead
    <3>2. table'[d] = NoEntry
      BY <1>1, <2>4, <3>1 DEF Serve, Without
    <3> QED
      BY <2>1, <2>2, <3>2 DEF Ahead
  <2>5. CASE orphan[d] = NoEntry
    <3>1. table'[d] \in {e, NoEntry}
      BY <1>1, <2>5 DEF Serve, Without, PathShapes, Shapes
    <3>2. Target(d).seq < e.seq
      <4>1. Target(d).seq \in Nat
        BY <1>2, TargetType DEF PathShapes, Entry
      <4> QED
        BY <1>1, <4>1
    <3> QED
      BY <2>1, <2>2, <3>1, <3>2 DEF Ahead
  <2> QED
    BY <2>4, <2>5
<1> QED
  BY <1>3, <1>4

\* A heartbeat that readmits a client does so under a session it has no stream in.
LEMMA AdmitKeeps ==
  ASSUME PathInv, NEW d \in Client, NEW a \in Addr, HeartbeatAdmits(d, a), FirstStream,
         UNCHANGED listeners, PathShapes'
  PROVE  \A c \in Client : SentAs(c)' /\ Ahead(c)'
<1> USE DEF PathInv
<1>1. /\ UNCHANGED <<mine, last, orphan, sending, cipher, todo>>
      /\ HasSession(d) /\ d \notin Clients /\ table[d] = NoEntry
      /\ table' = [table EXCEPT ![d] = NewEntry(session[d].key, a)]
      /\ session' = [session EXCEPT ![d].pin = a]
  BY DEF HeartbeatAdmits, Verified, Clients, listeners, round
<1>2. session[d] \in Session /\ session[d].key \in Key
  BY <1>1 DEF HasSession, PathShapes, Shapes, Session
<1>3. /\ table'[d] = NewEntry(session[d].key, a) /\ NewEntry(session[d].key, a) \in Entry
      /\ NewEntry(session[d].key, a).seq = 0
  BY <1>1, <1>2, HeartbeatUpdates DEF PathShapes, Shapes, NewEntry
<1>4. d \in Clients'
  BY <1>3, NullsAreNull DEF Clients
<1>5. ~Streamed(d)
  BY <1>1, <1>4 DEF FirstStream
<1>6. session'[d].key = session[d].key
  BY <1>1, <1>2 DEF Session, PathShapes, Shapes
<1>7. sending = d => orphan[d] # NoEntry
  BY <1>1, NullsAreNull DEF PathShapes, Shapes
<1>8. SentAs(d)'
  <2>1. ASSUME sending = d PROVE Target(d)' = Target(d)
    BY <1>1, <1>7, <2>1 DEF Target
  <2> QED
    BY <1>1, <1>6, <2>1 DEF SentAs
<1>9. Ahead(d)'
  <2> SUFFICES ASSUME mine[d] # NoKey PROVE Ahead(d)'
    BY <1>1 DEF Ahead
  <2>1. mine[d] = session[d].key
    BY <1>1 DEF Current
  <2>2. last[d] = -1
    BY <1>5, <2>1 DEF Streamed
  <2>3. orphan[d] # NoEntry => orphan[d].key # mine[d] /\ ~(sending = d /\ cipher = mine[d])
    <3>1. orphan[d] # NoEntry => orphan[d].key # mine[d]
      BY <1>5, <2>1 DEF Streamed
    <3>2. orphan[d] # NoEntry => Target(d) = orphan[d]
      BY DEF Target
    <3> QED
      BY <1>1, <2>1, <3>1, <3>2 DEF SentAs
  <2>4. last'[d] < table'[d].seq
    BY <1>1, <1>3, <2>2
  <2> QED
    BY <1>1, <2>3, <2>4 DEF Ahead
<1>10. ASSUME NEW c \in Client, c # d PROVE SentAs(c)' /\ Ahead(c)'
  <2>1. table'[c] = table[c] /\ session'[c] = session[c]
    BY <1>1, <1>10 DEF PathShapes, Shapes
  <2> QED
    BY <1>1, <2>1 DEF SentAs, Ahead, Target, HasSession
<1> QED
  BY <1>8, <1>9, <1>10

\* One that refreshes an entry gives it the session's key and leaves its number.
LEMMA RefreshKeeps ==
  ASSUME PathInv, NEW d \in Client, NEW a \in Addr, HeartbeatRefreshes(d, a),
         UNCHANGED listeners, PathShapes'
  PROVE  \A c \in Client : SentAs(c)' /\ Ahead(c)'
<1> USE DEF PathInv
<1> DEFINE e == [table[d] EXCEPT !.key = session[d].key, !.addr = a, !.silent = FALSE]
<1>1. /\ UNCHANGED <<mine, last, orphan, sending, cipher, todo>>
      /\ HasSession(d) /\ table[d] # NoEntry
      /\ table' = [table EXCEPT ![d] = e]
      /\ session' = [session EXCEPT ![d].pin = a]
  BY DEF HeartbeatRefreshes, Verified, Clients, listeners, round
<1>2. session[d] \in Session /\ table[d] \in Entry
  BY <1>1 DEF HasSession, PathShapes, Shapes
<1>3. e.key = session[d].key /\ e.seq = table[d].seq
  BY <1>2 DEF Entry
<1> HIDE DEF e
<1>4. table'[d] = e /\ session'[d].key = session[d].key
  BY <1>1, <1>2 DEF Session, PathShapes, Shapes
<1>5. SentAs(d)'
  <2>1. Target(d)'.key = IF orphan[d] = NoEntry THEN session[d].key ELSE Target(d).key
    BY <1>1, <1>3, <1>4 DEF Target
  <2>2. SentAs(d)
    OBVIOUS
  <2> QED
    BY <1>1, <1>4, <2>1, <2>2 DEF SentAs
<1>6. Ahead(d)'
  <2>1. Ahead(d)
    OBVIOUS
  <2> QED
    BY <1>1, <1>3, <1>4, <2>1 DEF Ahead
<1>7. ASSUME NEW c \in Client, c # d PROVE SentAs(c)' /\ Ahead(c)'
  <2>1. table'[c] = table[c] /\ session'[c] = session[c]
    BY <1>1, <1>7 DEF PathShapes, Shapes
  <2> QED
    BY <1>1, <2>1 DEF SentAs, Ahead, Target, HasSession
<1> QED
  BY <1>5, <1>6, <1>7

\* With a new session the client counts from the start.
LEMMA ReconnectKeeps ==
  ASSUME PathInv, NEW d \in Client, NEW k \in Key, NEW once \in BOOLEAN, Reconnect(d, k, once),
         PathShapes'
  PROVE  \A c \in Client : SentAs(c)' /\ Ahead(c)'
<1> USE DEF PathInv
<1>1. /\ UNCHANGED <<table, orphan, sending, cipher, todo>> /\ k \in Fresh
      /\ session' = [session EXCEPT ![d] = [key |-> k, once |-> once, pin |-> NoAddr]]
      /\ mine' = [mine EXCEPT ![d] = k] /\ last' = [last EXCEPT ![d] = -1]
  BY DEF Reconnect, Authenticate, round
<1>2. cipher # k /\ (orphan[d] # NoEntry => orphan[d].key # k)
  BY <1>1 DEF Fresh
<1>3. session'[d].key = k /\ mine'[d] = k /\ last'[d] = -1
  BY <1>1 DEF PathShapes, Shapes
<1>4. SentAs(d)'
  BY <1>1, <1>2, <1>3 DEF SentAs
<1>5. Ahead(d)'
  <2>1. /\ table[d] # NoEntry => -1 < table[d].seq
        /\ orphan[d] # NoEntry => -1 < orphan[d].seq
    BY SeqTypes
  <2> QED
    BY <1>1, <1>2, <1>3, <2>1 DEF Ahead
<1>6. ASSUME NEW c \in Client, c # d PROVE SentAs(c)' /\ Ahead(c)'
  <2>1. mine'[c] = mine[c] /\ last'[c] = last[c] /\ session'[c] = session[c]
    BY <1>1, <1>6 DEF PathShapes, Shapes
  <2> QED
    BY <1>1, <2>1 DEF SentAs, Ahead, Target, HasSession
<1> QED
  BY <1>4, <1>5, <1>6

\* A frame goes out on an entry with the key it is encrypted with.
LEMMA EncryptKeeps ==
  ASSUME PathInv, NEW d \in Client, Encrypt(d), UNCHANGED listeners
  PROVE  \A c \in Client : SentAs(c)' /\ Ahead(c)'
<1> USE DEF PathInv
<1>1. /\ UNCHANGED <<session, table, todo, orphan, mine, last>>
      /\ sending' = d /\ cipher' = Target(d).key
  BY DEF Encrypt, listeners
<1>2. \A c \in Client : Target(c)' = Target(c) /\ (HasSession(c)' <=> HasSession(c))
  BY <1>1 DEF Target, HasSession
<1>3. \A c \in Client : SentAs(c)'
  BY <1>1, <1>2 DEF SentAs
<1>4. ASSUME NEW c \in Client PROVE Ahead(c)'
  <2>1. orphan[d] # NoEntry => cipher' = orphan[d].key
    BY <1>1 DEF Target
  <2> QED
    BY <1>1, <2>1 DEF Ahead
<1> QED
  BY <1>3, <1>4

\* Sessions that end, and entries that are dropped with them.
LEMMA EndsKeep ==
  ASSUME PathInv, UNCHANGED <<sending, cipher, todo, mine, last>>,
         \A c \in Client : session'[c] \in {session[c], NoSession},
         UNCHANGED <<table, orphan>> \/ \E S : Drop(S)
  PROVE  \A c \in Client : SentAs(c)' /\ Ahead(c)'
<1> USE DEF PathInv
<1>1. ASSUME NEW c \in Client PROVE SentAs(c)'
  <2>1. sending = c => Target(c)' = Target(c)
    <3>1. CASE UNCHANGED <<table, orphan>>
      BY <3>1 DEF Target
    <3>2. ASSUME NEW S, Drop(S), sending = c PROVE Target(c)' = Target(c)
      <4>1. c \in todo
        BY <3>2, NullsAreNull DEF PathShapes, Shapes
      <4> QED
        BY <3>2, <4>1 DEF Drop, Without, Target
    <3> QED
      BY <3>1, <3>2
  <2>2. HasSession(c)' => HasSession(c) /\ session'[c] = session[c]
    BY DEF HasSession
  <2>3. SentAs(c)
    OBVIOUS
  <2> QED
    BY <2>1, <2>2, <2>3 DEF SentAs
<1>2. ASSUME NEW c \in Client PROVE Ahead(c)'
  <2>1. Ahead(c)
    OBVIOUS
  <2>2. CASE UNCHANGED <<table, orphan>>
    BY <2>1, <2>2 DEF Ahead
  <2>3. ASSUME NEW S, Drop(S) PROVE Ahead(c)'
    BY <2>1, <2>3, DropKeeps
  <2> QED
    BY <2>2, <2>3
<1> QED
  BY <1>1, <1>2

LEMMA SilenceKeeps ==
  ASSUME PathInv, NEW d \in Client, Silence(d), UNCHANGED listeners, PathShapes'
  PROVE  \A c \in Client : SentAs(c)' /\ Ahead(c)'
<1> USE DEF PathInv
<1> DEFINE e == [table[d] EXCEPT !.silent = TRUE]
<1>1. /\ UNCHANGED <<session, mine, last, orphan, sending, cipher, todo>>
      /\ table[d] \in Entry /\ table' = [table EXCEPT ![d] = e]
  BY DEF Silence, listeners, round, Clients, PathShapes, Shapes
<1>2. e.key = table[d].key /\ e.seq = table[d].seq /\ e \in Entry
  BY <1>1 DEF Entry
<1> HIDE DEF e
<1>3. ASSUME NEW c \in Client
      PROVE  /\ table'[c].key = table[c].key /\ table'[c].seq = table[c].seq
             /\ table'[c] # NoEntry => table[c] # NoEntry
  BY <1>1, <1>2, NullsAreNull DEF PathShapes, Shapes
<1>4. \A c \in Client : Target(c)'.key = Target(c).key
  BY <1>1, <1>3 DEF Target
<1>5. \A c \in Client : SentAs(c)'
  BY <1>1, <1>4 DEF SentAs, HasSession
<1>6. \A c \in Client : Ahead(c)'
  BY <1>1, <1>3 DEF Ahead
<1> QED
  BY <1>5, <1>6

LEMMA ServeKeeps ==
  ASSUME PathInv, NEW d \in Client, SkipFrame(d) \/ Finish(d) \/ Fail(d), PathShapes',
         UNCHANGED listeners \/ Receive(d)
  PROVE  \A c \in Client : SentAs(c)' /\ Ahead(c)'
<1> USE DEF PathInv
<1>1. PICK e \in Entry, gone \in SUBSET Client : Serve(d, e, gone) /\ e.seq >= Target(d).seq
  BY Serving DEF PathShapes
<1>2. d \in todo /\ sending' = NoClient
  BY <1>1, Serving DEF Serve, PathShapes
<1>3. \A c \in Client : SentAs(c)'
  BY <1>2, NullsAreNull DEF SentAs
<1>4. ASSUME UNCHANGED listeners, NEW c \in Client PROVE Ahead(c)'
  <2>1. Steady(c)
    BY <1>1, <1>2, <1>4, ServeSteady DEF listeners
  <2> QED
    BY <2>1, SteadyKeeps
<1>5. ASSUME Receive(d), NEW c \in Client PROVE Ahead(c)'
  BY <1>5, ReceiveKeeps
<1> QED
  BY <1>3, <1>4, <1>5

LEMMA PathInvStep == PathInv /\ [PathNext]_pathVars /\ [FirstStream]_pathVars => PathInv'
<1> SUFFICES ASSUME PathInv, [PathNext]_pathVars, [FirstStream]_pathVars PROVE PathInv'
  OBVIOUS
<1> DEFINE Goal == \A c \in Client : SentAs(c)' /\ Ahead(c)'
<1>1. PathShapes' /\ InFlight' /\ Current'
  BY PathShapesStep, InFlightStep, CurrentStep DEF PathInv
<1>2. ASSUME NEW d \in Client, NEW k \in Key, NEW once \in BOOLEAN, Reconnect(d, k, once)
      PROVE  Goal
  BY <1>1, <1>2, ReconnectKeeps
<1>3. ASSUME NEW d \in Client, GiveUp(d) PROVE Goal
  <2>1. /\ UNCHANGED <<session, table, todo, orphan, sending, cipher, last>>
        /\ mine' = [mine EXCEPT ![d] = NoKey]
    BY <1>3 DEF GiveUp, vars, round
  <2>2. \A c \in Client : mine'[c] \in {mine[c], NoKey}
    BY <2>1 DEF PathInv, PathShapes
  <2> QED
    BY <2>1, <2>2 DEF PathInv, SentAs, Ahead, Target, HasSession
<1>4. ASSUME NEW d \in Client, Receive(d) PROVE Goal
  BY <1>1, <1>4, ServeKeeps DEF Receive
<1>5. ASSUME NEW d \in Client, SessionEnds(d) \/ Disconnect(d), UNCHANGED listeners PROVE Goal
  <2>1. \A c \in Client : session'[c] \in {session[c], NoSession}
    BY <1>5 DEF SessionEnds, Disconnect, PathInv, PathShapes, Shapes
  <2>2. UNCHANGED <<sending, cipher, todo, mine, last>>
    BY <1>5 DEF SessionEnds, Disconnect, listeners, round
  <2>3. UNCHANGED <<table, orphan>> \/ \E S : Drop(S)
    BY <1>5 DEF SessionEnds, Disconnect, round
  <2> QED
    BY <2>1, <2>2, <2>3, EndsKeep
<1>6. ASSUME Cleanup, UNCHANGED listeners PROVE Goal
  <2>1. \A c \in Client : session'[c] \in {session[c], NoSession}
    BY <1>6 DEF Cleanup, RevokedOnce
  <2>2. UNCHANGED <<sending, cipher, todo, mine, last>> /\ Drop(Silent)
    BY <1>6 DEF Cleanup, listeners
  <2> QED
    BY <2>1, <2>2, EndsKeep
<1>7. ASSUME NEW d \in Client, NEW a \in Addr, HeartbeatAdmits(d, a), UNCHANGED listeners
      PROVE  Goal
  <2>1. CASE FirstStream
    BY <1>1, <1>7, <2>1, AdmitKeeps
  <2>2. CASE UNCHANGED pathVars
    BY <2>2 DEF pathVars, vars, round, listeners, PathInv, SentAs, Ahead, Target, HasSession
  <2> QED
    BY <2>1, <2>2
<1>8. ASSUME NEW d \in Client, NEW a \in Addr, HeartbeatRefused(d, a), UNCHANGED listeners
      PROVE  Goal
  <2>1. /\ UNCHANGED <<table, todo, orphan, sending, cipher, mine, last>>
        /\ session' = [session EXCEPT ![d].pin = a] /\ HasSession(d)
    BY <1>8 DEF HeartbeatRefused, Verified, round, listeners
  <2>2. session[d] \in Session
    BY <2>1 DEF HasSession, PathInv, PathShapes, Shapes
  <2>3. \A c \in Client : session'[c].key = session[c].key /\ (HasSession(c)' => HasSession(c))
    BY <2>1, <2>2 DEF HasSession, Session, PathInv, PathShapes, Shapes
  <2> QED
    BY <2>1, <2>3 DEF PathInv, SentAs, Ahead, Target
<1>9. ASSUME NEW d \in Client, NEW a \in Addr, HeartbeatRefreshes(d, a), UNCHANGED listeners
      PROVE  Goal
  BY <1>1, <1>9, RefreshKeeps
<1>10. ASSUME NEW d \in Client, Silence(d), UNCHANGED listeners PROVE Goal
  BY <1>1, <1>10, SilenceKeeps
<1>11. ASSUME NEW d \in Client, Encrypt(d), UNCHANGED listeners PROVE Goal
  BY <1>11, EncryptKeeps
<1>12. ASSUME NEW d \in Client, SkipFrame(d) \/ Finish(d) \/ Fail(d), UNCHANGED listeners
       PROVE  Goal
  BY <1>1, <1>12, ServeKeeps
<1>13. ASSUME BeginRound, UNCHANGED listeners PROVE Goal
  BY <1>13 DEF BeginRound, listeners, PathInv, SentAs, Ahead, Target, HasSession
<1>14. ASSUME UNCHANGED pathVars PROVE Goal
  BY <1>14 DEF pathVars, vars, round, listeners, PathInv, SentAs, Ahead, Target, HasSession
<1> HIDE DEF Goal
<1>15. ASSUME PathNext PROVE Goal
  BY <1>2, <1>3, <1>4, <1>5, <1>6, <1>7, <1>8, <1>9, <1>10, <1>11, <1>12, <1>13, <1>15,
     PathCases
<1>16. Goal
  BY <1>14, <1>15
<1> QED
  BY <1>1, <1>16 DEF PathInv, Goal

\* A frame that reaches its client is ahead of what the client has taken.
LEMMA TakenStep ==
  ASSUME PathInv, NEW d \in Client, Receive(d), cipher = mine[d]
  PROVE  last'[d] # last[d]
<1> USE DEF PathInv
<1>1. d \in todo /\ sending = d
  BY DEF Receive, Finish
<1>2. mine[d] # NoKey
  BY <1>1, NullsAreNull DEF InFlight
<1>3. table[d] # NoEntry \/ orphan[d] # NoEntry
  BY <1>1 DEF PathShapes, Shapes
<1>4. Target(d).seq > last[d] /\ Target(d).seq \in Nat /\ last[d] \in Int
  BY <1>2, <1>3, SeqTypes DEF Ahead, Target
<1>5. last' = [last EXCEPT ![d] = Target(d).seq]
  BY <1>4 DEF Receive
<1> QED
  BY <1>4, <1>5 DEF PathShapes

\* As long as no client is readmitted under a session it has a stream in, every frame
\* that reaches a client under its key is taken: being readmitted is the one way in
\* which a client comes to discard its own new frames.
THEOREM OnlyReadmissionHidesFrames == PathSpec /\ FirstStreams => NewFramesAreTaken
<1>1. PathInit => PathInv
  <2> SUFFICES ASSUME PathInit PROVE PathInv
    OBVIOUS
  <2>1. \A d \in Client : mine[d] = NoKey /\ sending # d
    BY NullsAreNull DEF PathInit, Init
  <2> QED
    BY <2>1, PathInitHolds DEF PathInv, SentAs, Ahead
<1>2. PathInv /\ [PathNext]_pathVars /\ [FirstStream]_pathVars => PathInv'
  BY PathInvStep
<1>3. PathInv => [\A d \in Client : Receive(d) /\ cipher = mine[d] => last'[d] # last[d]]_pathVars
  BY TakenStep
<1> QED
  BY <1>1, <1>2, <1>3, PTL DEF PathSpec, FirstStreams, FirstStream, NewFramesAreTaken
=============================================================================

---------------------- MODULE ConversationMemory_proofs ----------------------
(***************************************************************************)
(* Proofs about the conversation store for any number of sessions, owners, *)
(* requests and contents and for any limits.                               *)
(***************************************************************************)
EXTENDS ConversationMemory, TLAPS, FiniteSetTheorems, SequenceTheorems

\* A dictionary of sessions.
IsStore(d) ==
    DOMAIN d \subseteq SessionIds /\ \A s \in DOMAIN d : d[s] \in Session

LEMMA WithoutStore ==
    ASSUME NEW d, IsStore(d), NEW gone
    PROVE  /\ IsStore(Without(d, gone))
           /\ DOMAIN Without(d, gone) = DOMAIN d \ gone
           /\ \A s \in DOMAIN d \ gone : Without(d, gone)[s] = d[s]
  BY DEF IsStore, Without

LEMMA WithStore ==
    ASSUME NEW d, IsStore(d), NEW s \in SessionIds, NEW v \in Session
    PROVE  /\ IsStore(With(d, s, v))
           /\ DOMAIN With(d, s, v) = DOMAIN d \cup {s}
           /\ With(d, s, v)[s] = v
           /\ \A x \in DOMAIN d : x # s => With(d, s, v)[x] = d[x]
  BY DEF IsStore, With

\* A session put into the store after others were removed.
LEMMA PutStore ==
    ASSUME NEW d, IsStore(d), NEW gone, NEW s \in SessionIds,
           NEW v \in Session
    PROVE  LET e == With(Without(d, gone), s, v)
           IN /\ IsStore(e)
              /\ DOMAIN e = (DOMAIN d \ gone) \cup {s}
              /\ e[s] = v
              /\ \A x \in DOMAIN e : x # s => x \in DOMAIN d /\ e[x] = d[x]
<1> DEFINE e == With(Without(d, gone), s, v)
<1>1. /\ IsStore(Without(d, gone))
      /\ DOMAIN Without(d, gone) = DOMAIN d \ gone
      /\ \A x \in DOMAIN d \ gone : Without(d, gone)[x] = d[x]
  BY WithoutStore
<1>2. /\ IsStore(e) /\ DOMAIN e = DOMAIN Without(d, gone) \cup {s}
      /\ e[s] = v
      /\ \A x \in DOMAIN Without(d, gone) :
            x # s => e[x] = Without(d, gone)[x]
  BY <1>1, WithStore
<1> HIDE DEF e
<1> QED BY <1>1, <1>2 DEF e

\* Dropping the oldest k of a sequence of turns.
LEMMA FromTurns ==
    ASSUME NEW turns \in Seq(Turns), NEW k \in 0 .. Len(turns)
    PROVE  /\ From(turns, k) \in Seq(Turns)
           /\ Len(From(turns, k)) = Len(turns) - k
           /\ \A i \in 1 .. Len(turns) - k : From(turns, k)[i] = turns[k + i]
  BY SubSeqProperties DEF From

LEMMA PutSession ==
    ASSUME TypeOK, NEW gone, NEW s \in SessionIds, NEW v \in Session,
           sessions' = With(Without(sessions, gone), s, v)
    PROVE  /\ sessions'[s] = v
           /\ \A y \in DOMAIN sessions' : y # s =>
                 y \in DOMAIN sessions \ gone /\ sessions'[y] = sessions[y]
<1>1. DOMAIN Without(sessions, gone) = DOMAIN sessions \ gone
  BY DEF Without
<1>2. \A y \in DOMAIN sessions \ gone :
         Without(sessions, gone)[y] = sessions[y]
  BY DEF Without
<1> DEFINE d == Without(sessions, gone)
<1> HIDE DEF d
<1>3. /\ DOMAIN With(d, s, v) = DOMAIN d \cup {s}
      /\ With(d, s, v)[s] = v
      /\ \A y \in DOMAIN d : y # s => With(d, s, v)[y] = d[y]
  BY DEF With
<1>4. sessions' = With(d, s, v)
  BY DEF d
<1> QED BY <1>1, <1>2, <1>3, <1>4 DEF d

LEMMA NewSessionType ==
    ASSUME TypeOK, NEW o \in Owners
    PROVE  /\ NewSession(o) \in Session
           /\ NewSession(o).turns = <<>>
           /\ NewSession(o).next = 1
           /\ NewSession(o).owner = o
  BY LimitsAssumption DEF TypeOK, NewSession, Session

LEMMA TurnType ==
    ASSUME NEW v \in Session, NEW o \in Owners, NEW q \in RequestIds,
           NEW c \in Contents
    PROVE  Turn(v, o, q, c) \in Turns
  BY DEF Turn, Turns, Session

\* What appending a turn and dropping the oldest k makes of a session.
LEMMA StoredType ==
    ASSUME TypeOK, NEW v \in Session, NEW o \in Owners, NEW q \in RequestIds,
           NEW c \in Contents, NEW k \in 0 .. Len(v.turns) + 1
    PROVE  LET turns == Append(v.turns, Turn(v, o, q, c))
           IN /\ turns \in Seq(Turns)
              /\ Len(turns) = Len(v.turns) + 1
              /\ StoredIn(v, o, q, c, k) \in Session
              /\ StoredIn(v, o, q, c, k).turns = From(turns, k)
              /\ StoredIn(v, o, q, c, k).next = v.next + 1
              /\ StoredIn(v, o, q, c, k).owner = v.owner
<1> DEFINE turns == Append(v.turns, Turn(v, o, q, c))
<1>1. v.turns \in Seq(Turns) /\ v.next \in Nat \ {0}
  BY DEF Session
<1>2. turns \in Seq(Turns) /\ Len(turns) = Len(v.turns) + 1
  BY <1>1, TurnType
<1>3. From(turns, k) \in Seq(Turns)
  BY <1>2, FromTurns
<1>4. now + TTL \in Nat /\ now \in Nat
  BY LimitsAssumption DEF TypeOK
<1> HIDE DEF turns
<1>5. StoredIn(v, o, q, c, k) =
         [v EXCEPT !.turns = From(turns, k), !.next = @ + 1,
                   !.accessed = now, !.expires = now + TTL]
  BY DEF StoredIn, turns
<1>6. v \in Session /\ v.next + 1 \in Nat \ {0}
  BY <1>1
<1> DEFINE w == StoredIn(v, o, q, c, k)
<1>7. /\ w \in Session
      /\ w.turns = From(turns, k) /\ w.next = v.next + 1
      /\ w.owner = v.owner
  BY <1>3, <1>4, <1>5, <1>6 DEF Session
<1> HIDE DEF w
<1> QED BY <1>2, <1>7 DEF turns, w

LEMMA ReplyType ==
    ASSUME NEW outcome \in Outcomes, NEW s \in SessionIds, NEW o \in Owners,
           NEW turns \in Seq(Turns), Reply(outcome, s, o, turns)
    PROVE  reply' \in Replies
  BY DEF Reply, Replies

\* A step that stores a turn: into which session, over which other ones.
StoresTurn(s, o, q, c) ==
    \E v \in Session, gone \in SUBSET SessionIds, k \in Nat :
       /\ k <= Len(v.turns) + 1
       /\ EvictTurns(Append(v.turns, Turn(v, o, q, c)), k)
       /\ v.owner = o /\ ~Holds(v, q)
       /\ sessions' = With(Without(sessions, gone), s,
                           StoredIn(v, o, q, c, k))
       /\ \/ s \in DOMAIN sessions \ gone /\ sessions[s] = v
          \/ s \notin DOMAIN sessions \ gone /\ v = NewSession(o)

\* A step that leaves an empty session behind.
OpensSession(s, o) ==
    \E gone \in SUBSET SessionIds :
       /\ s \notin DOMAIN sessions \ gone
       /\ sessions' = With(Without(sessions, gone), s, NewSession(o))

\* A step that only removes sessions or notes their use.
Touches ==
    /\ DOMAIN sessions' \subseteq DOMAIN sessions
    /\ \A s \in DOMAIN sessions' :
          \E t \in Nat : sessions'[s] = [sessions[s] EXCEPT !.accessed = t]

LEMMA MakeCapacityRemoves ==
    ASSUME TypeOK, NEW d, IsStore(d), NEW gone \in SUBSET DOMAIN d
    PROVE  gone \in SUBSET SessionIds
  BY DEF IsStore

LEMMA UpsertFirstCases ==
    ASSUME TypeOK, NEW s \in SessionIds, NEW o \in Owners,
           NEW q \in RequestIds, NEW c \in Contents, UpsertFirst(s, o, q, c)
    PROVE  StoresTurn(s, o, q, c) \/ OpensSession(s, o)
<1> DEFINE d == Without(sessions, {s})
           v == NewSession(o)
<1>1. PICK gone \in SUBSET DOMAIN d :
         IF TooLarge(c)
         THEN sessions' = With(Without(d, gone), s, v)
         ELSE \E k \in 0 .. 1 :
                 /\ EvictTurns(<<Turn(v, o, q, c)>>, k)
                 /\ sessions' = With(Without(d, gone), s,
                                     StoredIn(v, o, q, c, k))
  BY DEF UpsertFirst
<1>2. DOMAIN d = DOMAIN sessions \ {s}
  BY DEF Without
<1>3. gone \cup {s} \in SUBSET SessionIds
  BY <1>1, <1>2 DEF TypeOK
<1>4. Without(d, gone) = Without(sessions, gone \cup {s})
  BY DEF Without
<1>5. v \in Session /\ v.turns = <<>> /\ v.owner = o
  BY NewSessionType
<1>6. s \notin DOMAIN sessions \ (gone \cup {s})
  OBVIOUS
<1> HIDE DEF d, v
<1>7. CASE TooLarge(c)
  BY <1>1, <1>3, <1>4, <1>6, <1>7 DEF OpensSession, v
<1>8. CASE ~TooLarge(c)
  <2>1. PICK k \in 0 .. 1 :
           /\ EvictTurns(<<Turn(v, o, q, c)>>, k)
           /\ sessions' = With(Without(d, gone), s, StoredIn(v, o, q, c, k))
    BY <1>1, <1>8
  <2>2. Append(v.turns, Turn(v, o, q, c)) = <<Turn(v, o, q, c)>>
    BY <1>5
  <2>3. k \in 0 .. Len(v.turns) + 1 /\ ~Holds(v, q)
    BY <1>5 DEF Holds
  <2>4. sessions' = With(Without(sessions, gone \cup {s}), s,
                         StoredIn(v, o, q, c, k))
    BY <2>1, <1>4
  <2>a. v \in Session /\ gone \cup {s} \in SUBSET SessionIds /\ k \in Nat
    BY <1>3, <1>5, <2>1
  <2>5. EvictTurns(Append(v.turns, Turn(v, o, q, c)), k) /\ k \in Nat
    BY <2>1, <2>2
  <2>6. \E u \in Session, forgotten \in SUBSET SessionIds, i \in Nat :
           /\ i <= Len(u.turns) + 1
           /\ EvictTurns(Append(u.turns, Turn(u, o, q, c)), i)
           /\ u.owner = o /\ ~Holds(u, q)
           /\ sessions' = With(Without(sessions, forgotten), s,
                               StoredIn(u, o, q, c, i))
           /\ s \notin DOMAIN sessions \ forgotten /\ u = v
    <3> USE <2>a
    <3> WITNESS v \in Session, gone \cup {s} \in SUBSET SessionIds,
                k \in Nat
    <3> QED BY <1>5, <1>6, <2>3, <2>4, <2>5
  <2> QED BY <2>6 DEF StoresTurn, v
<1> QED BY <1>7, <1>8

LEMMA UpsertNextStores ==
    ASSUME TypeOK, NEW s \in SessionIds, NEW o \in Owners,
           NEW q \in RequestIds, NEW c \in Contents, UpsertNext(s, o, q, c)
    PROVE  StoresTurn(s, o, q, c)
<1> DEFINE v == sessions[s]
<1>1. s \in DOMAIN sessions /\ v \in Session /\ v.owner = o /\ ~Holds(v, q)
  BY DEF UpsertNext, Live, TypeOK
<1>2. PICK k \in 0 .. Len(v.turns) + 1 :
         /\ EvictTurns(Append(v.turns, Turn(v, o, q, c)), k)
         /\ sessions' = [sessions EXCEPT ![s] = StoredIn(v, o, q, c, k)]
  BY DEF UpsertNext
<1>3. [sessions EXCEPT ![s] = StoredIn(v, o, q, c, k)]
         = With(Without(sessions, {}), s, StoredIn(v, o, q, c, k))
  <2> HIDE DEF v
  <2> DEFINE w == StoredIn(v, o, q, c, k)
  <2> HIDE DEF w
  <2>1. [sessions EXCEPT ![s] = w] = With(Without(sessions, {}), s, w)
    BY <1>1 DEF With, Without
  <2> QED BY <2>1 DEF w
<1> HIDE DEF v
<1>4. \E gone \in SUBSET SessionIds :
         /\ sessions' = With(Without(sessions, gone), s,
                             StoredIn(v, o, q, c, k))
         /\ s \in DOMAIN sessions \ gone
  BY <1>1, <1>2, <1>3
<1> QED BY <1>1, <1>2, <1>4 DEF StoresTurn, v

\* Everything a step can do to the store.
LEMMA StepCases ==
    ASSUME TypeOK, [Next]_vars
    PROVE  \/ \E s \in SessionIds, o \in Owners, q \in RequestIds,
                 c \in Contents : StoresTurn(s, o, q, c)
           \/ \E s \in SessionIds, o \in Owners : OpensSession(s, o)
           \/ Touches
<1>0. \A s \in DOMAIN sessions :
         /\ sessions[s].accessed \in Nat
         /\ sessions[s] = [sessions[s] EXCEPT !.accessed = sessions[s].accessed]
  BY DEF TypeOK, Session
<1>1. ASSUME sessions' = sessions PROVE Touches
  BY <1>0, <1>1 DEF Touches
<1>2. ASSUME NEW gone, sessions' = Without(sessions, gone) PROVE Touches
  BY <1>0, <1>2 DEF Touches, Without
<1>3. ASSUME NEW s \in SessionIds, NEW o \in Owners, Load(s, o)
      PROVE  Touches
  <2>1. CASE LoadRefused(s, o) BY <1>1, <2>1 DEF LoadRefused
  <2>2. CASE LoadFound(s, o)
    <3>1. /\ s \in DOMAIN sessions
          /\ sessions' = [sessions EXCEPT ![s].accessed = now]
      BY <2>2 DEF LoadFound, Live
    <3>2. now \in Nat BY DEF TypeOK
    <3> QED BY <1>0, <3>1, <3>2 DEF Touches
  <2>3. CASE LoadMissing(s, o) BY <1>2, <2>3 DEF LoadMissing
  <2> QED BY <1>3, <2>1, <2>2, <2>3 DEF Load
<1>4. ASSUME NEW s \in SessionIds, NEW o \in Owners, DeleteSession(s, o)
      PROVE  Touches
  BY <1>1, <1>2, <1>4 DEF DeleteSession, Delete, DeleteRefused
<1>5. ASSUME CleanupExpired PROVE Touches
  BY <1>2, <1>5 DEF CleanupExpired
<1>6. ASSUME Tick PROVE Touches
  BY <1>1, <1>6 DEF Tick
<1>7. ASSUME UNCHANGED vars PROVE Touches
  BY <1>1, <1>7 DEF vars
<1>8. ASSUME NEW s \in SessionIds, NEW o \in Owners, NEW q \in RequestIds,
             NEW c \in Contents, Upsert(s, o, q, c)
      PROVE  \/ StoresTurn(s, o, q, c)
             \/ OpensSession(s, o)
             \/ Touches
  BY <1>1, <1>8, UpsertFirstCases, UpsertNextStores
     DEF Upsert, UpsertRefused, UpsertAgain, UpsertTooLarge
<1> QED BY <1>3, <1>4, <1>5, <1>6, <1>7, <1>8 DEF Next

-----------------------------------------------------------------------------
(* Types.                                                                  *)

LEMMA ReplyStep ==
    ASSUME TypeOK, [Next]_vars
    PROVE  reply' \in Replies
<1>1. <<>> \in Seq(Turns)
  OBVIOUS
<1>2. ASSUME NEW s \in SessionIds, NEW o \in Owners, Load(s, o)
      PROVE  reply' \in Replies
  <2>1. s \in DOMAIN sessions => sessions[s].turns \in Seq(Turns)
    BY DEF TypeOK, Session
  <2> QED BY <1>1, <1>2, <2>1, ReplyType
          DEF Load, LoadRefused, LoadFound, LoadMissing, Live, Outcomes
<1>3. ASSUME NEW s \in SessionIds, NEW o \in Owners, NEW q \in RequestIds,
             NEW c \in Contents, Upsert(s, o, q, c)
      PROVE  reply' \in Replies
  <2>1. CASE UpsertFirst(s, o, q, c)
    <3>1. Reply("capacity", s, o, <<>>) \/ Reply("stored", s, o, <<>>)
      BY <2>1 DEF UpsertFirst
    <3> QED BY <1>1, <3>1, ReplyType DEF Outcomes
  <2>2. CASE UpsertAgain(s, o, q, c)
    <3>1. Reply("duplicate", s, o, <<>>) \/ Reply("integrity", s, o, <<>>)
      BY <2>2 DEF UpsertAgain
    <3> QED BY <1>1, <3>1, ReplyType DEF Outcomes
  <2>3. CASE UpsertNext(s, o, q, c)
    <3>1. Reply("stored", s, o, <<>>)
      BY <2>3 DEF UpsertNext
    <3> QED BY <1>1, <3>1, ReplyType DEF Outcomes
  <2> QED BY <1>1, <1>3, <2>1, <2>2, <2>3, ReplyType
          DEF Upsert, UpsertRefused, UpsertTooLarge, Outcomes
<1>4. ASSUME NEW s \in SessionIds, NEW o \in Owners, DeleteSession(s, o)
      PROVE  reply' \in Replies
  BY <1>1, <1>4, ReplyType DEF DeleteSession, Delete, DeleteRefused, Outcomes
<1>5. CASE CleanupExpired \/ Tick
  <2>1. \E outcome \in Outcomes :
           reply' = [outcome |-> outcome, session |-> {}, to |-> {},
                     turns |-> <<>>]
    BY <1>5 DEF CleanupExpired, Tick, Outcomes
  <2> QED BY <1>1, <2>1 DEF Replies
<1>6. CASE UNCHANGED vars
  BY <1>6 DEF vars, TypeOK
<1> QED BY <1>2, <1>3, <1>4, <1>5, <1>6 DEF Next

LEMMA ClockStep ==
    ASSUME TypeOK, [Next]_vars
    PROVE  now' \in Nat
<1>1. ASSUME NEW s \in SessionIds, NEW o \in Owners, NEW q \in RequestIds,
             NEW c \in Contents, Upsert(s, o, q, c)
      PROVE  now' = now
  BY <1>1 DEF Upsert, UpsertFirst, UpsertRefused, UpsertAgain,
              UpsertTooLarge, UpsertNext
<1>2. ASSUME NEW s \in SessionIds, NEW o \in Owners,
             Load(s, o) \/ DeleteSession(s, o)
      PROVE  now' = now
  BY <1>2 DEF Load, LoadRefused, LoadFound, LoadMissing, DeleteSession,
              Delete, DeleteRefused
<1>3. CASE CleanupExpired \/ Tick \/ UNCHANGED vars
  BY <1>3 DEF CleanupExpired, Tick, TypeOK, vars
<1> QED BY <1>1, <1>2, <1>3 DEF Next, TypeOK

\* What holds of every session separately is kept by appending a turn, holds
\* of a new session, and does not depend on the time of the last access.
LEMMA StoreStep ==
    ASSUME TypeOK, [Next]_vars
    PROVE  IsStore(sessions')
<1>0. IsStore(sessions)
  BY DEF TypeOK, IsStore
<1>1. ASSUME NEW s \in SessionIds, NEW o \in Owners, NEW q \in RequestIds,
             NEW c \in Contents, StoresTurn(s, o, q, c)
      PROVE  IsStore(sessions')
  <2>1. PICK v \in Session, gone \in SUBSET SessionIds, k \in Nat :
           /\ k <= Len(v.turns) + 1
           /\ sessions' = With(Without(sessions, gone), s,
                               StoredIn(v, o, q, c, k))
    BY <1>1 DEF StoresTurn
  <2>2. k \in 0 .. Len(v.turns) + 1
    BY <2>1 DEF Session
  <2>3. StoredIn(v, o, q, c, k) \in Session
    BY <2>2, StoredType
  <2> QED BY <1>0, <2>1, <2>3, PutStore
<1>2. ASSUME NEW s \in SessionIds, NEW o \in Owners, OpensSession(s, o)
      PROVE  IsStore(sessions')
  <2>1. PICK gone \in SUBSET SessionIds :
           sessions' = With(Without(sessions, gone), s, NewSession(o))
    BY <1>2 DEF OpensSession
  <2> QED BY <1>0, <2>1, NewSessionType, PutStore
<1>3. CASE Touches
  <2>1. \A s \in DOMAIN sessions, t \in Nat :
           [sessions[s] EXCEPT !.accessed = t] \in Session
    BY <1>0 DEF IsStore, Session
  <2> QED BY <1>0, <1>3, <2>1 DEF Touches, IsStore
<1> QED BY <1>1, <1>2, <1>3, StepCases

\* Every variable keeps its type.
THEOREM MemoryTypeCorrect == Spec => []TypeOK
<1>1. Init => TypeOK
  BY DEF Init, TypeOK, Replies, Outcomes
<1>2. TypeOK /\ [Next]_vars => TypeOK'
  BY StoreStep, ReplyStep, ClockStep DEF TypeOK, IsStore
<1> QED BY <1>1, <1>2, PTL DEF Spec

-----------------------------------------------------------------------------
(* The numbers of the turns.                                               *)

Numbered(v) ==
    \A i \in DOMAIN v.turns :
        v.turns[i].sequence + (Len(v.turns) - i) + 1 = v.next

LEMMA StoredIsNumbered ==
    ASSUME TypeOK, NEW v \in Session, NEW o \in Owners, NEW q \in RequestIds,
           NEW c \in Contents, NEW k \in 0 .. Len(v.turns) + 1, Numbered(v)
    PROVE  Numbered(StoredIn(v, o, q, c, k))
<1> DEFINE turn == Turn(v, o, q, c)
           turns == Append(v.turns, turn)
           w == StoredIn(v, o, q, c, k)
           n == Len(v.turns)
<1>1. /\ v.turns \in Seq(Turns) /\ n \in Nat /\ v.next \in Nat
      /\ DOMAIN v.turns = 1 .. n
  BY DEF Session
<1>2. /\ turns \in Seq(Turns) /\ Len(turns) = n + 1
      /\ w.turns = From(turns, k) /\ w.next = v.next + 1
  BY StoredType
<1>3. turn.sequence = v.next /\ turn \in Turns
  BY TurnType DEF Turn
<1>4. \A i \in 1 .. n : turns[i] = v.turns[i]
  BY <1>1
<1>5. turns[n + 1] = turn
  BY <1>1
<1>a. k \in 0 .. n + 1
  OBVIOUS
<1> HIDE DEF turn, turns, w, n
<1>b. k \in 0 .. Len(turns)
  BY <1>2, <1>a
<1>6. /\ w.turns \in Seq(Turns) /\ Len(w.turns) = n + 1 - k
      /\ \A i \in 1 .. n + 1 - k : w.turns[i] = turns[k + i]
  <2>1. /\ From(turns, k) \in Seq(Turns)
        /\ Len(From(turns, k)) = Len(turns) - k
        /\ \A i \in 1 .. Len(turns) - k : From(turns, k)[i] = turns[k + i]
    BY <1>2, <1>b, FromTurns
  <2> QED BY <1>1, <1>2, <1>a, <2>1
<1>7. ASSUME NEW i \in 1 .. n + 1 - k
      PROVE  w.turns[i].sequence + (Len(w.turns) - i) + 1 = w.next
  <2>1. k \in Nat /\ i \in Nat /\ k + i \in 1 .. n + 1
    BY <1>1, <1>a
  <2>2. CASE k + i = n + 1
    BY <1>1, <1>2, <1>3, <1>5, <1>6, <2>1, <2>2
  <2>3. CASE k + i \in 1 .. n
    <3> DEFINE j == k + i
               m == v.turns[j].sequence
    <3>1. w.turns[i] = turns[j] /\ turns[j] = v.turns[j]
      BY <1>4, <1>6, <2>3
    <3>2. m \in Nat
      <4>1. v.turns[j] \in Turns
        BY <1>1, <2>3
      <4> QED BY <4>1 DEF Turns
    <3>3. m + (n - j) + 1 = v.next
      BY <1>1, <2>3 DEF Numbered, n
    <3>4. w.turns[i].sequence = m
      BY <3>1
    <3> HIDE DEF m
    <3>5. m + (n + 1 - k - i) + 1 = v.next + 1
      BY <1>1, <2>1, <3>2, <3>3
    <3> QED BY <1>1, <1>2, <1>6, <2>1, <3>2, <3>4, <3>5
  <2> QED BY <1>1, <2>1, <2>2, <2>3
<1>8. DOMAIN w.turns = 1 .. n + 1 - k
  BY <1>6
<1> QED BY <1>7, <1>8 DEF Numbered, w

\* The turns kept are the newest, without a gap.
THEOREM NewestKept == Spec => []NewestTurnsKept
<1>1. Init => NewestTurnsKept
  BY DEF Init, NewestTurnsKept
<1>2. TypeOK /\ NewestTurnsKept /\ [Next]_vars => NewestTurnsKept'
  <2> SUFFICES ASSUME TypeOK, NewestTurnsKept, [Next]_vars
               PROVE  NewestTurnsKept'
    OBVIOUS
  <2>0. IsStore(sessions) /\ \A s \in DOMAIN sessions : Numbered(sessions[s])
    BY DEF TypeOK, IsStore, NewestTurnsKept, Numbered
  <2>1. ASSUME NEW s \in SessionIds, NEW o \in Owners, NEW q \in RequestIds,
               NEW c \in Contents, StoresTurn(s, o, q, c),
               NEW x \in DOMAIN sessions'
        PROVE  Numbered(sessions'[x])
    <3>1. PICK v \in Session, gone \in SUBSET SessionIds, k \in Nat :
             /\ k <= Len(v.turns) + 1
             /\ sessions' = With(Without(sessions, gone), s,
                                 StoredIn(v, o, q, c, k))
             /\ \/ s \in DOMAIN sessions \ gone /\ sessions[s] = v
                \/ s \notin DOMAIN sessions \ gone /\ v = NewSession(o)
      BY <2>1 DEF StoresTurn
    <3>2. k \in 0 .. Len(v.turns) + 1
      BY <3>1 DEF Session
    <3>3. Numbered(v)
      BY <2>0, <3>1, NewSessionType DEF Numbered
    <3>4. Numbered(StoredIn(v, o, q, c, k))
      BY <3>2, <3>3, StoredIsNumbered
    <3>5. StoredIn(v, o, q, c, k) \in Session
      BY <3>2, StoredType
    <3> DEFINE w == StoredIn(v, o, q, c, k)
    <3> HIDE DEF w
    <3>6. w \in Session /\ Numbered(w)
      BY <3>4, <3>5 DEF w
    <3>7. sessions' = With(Without(sessions, gone), s, w)
      BY <3>1 DEF w
    <3>8. /\ sessions'[s] = w
          /\ x # s => x \in DOMAIN sessions /\ sessions'[x] = sessions[x]
      BY <2>1, <3>6, <3>7, PutSession
    <3> QED BY <2>0, <2>1, <3>6, <3>8
  <2>2. ASSUME NEW s \in SessionIds, NEW o \in Owners, OpensSession(s, o),
               NEW x \in DOMAIN sessions'
        PROVE  Numbered(sessions'[x])
    <3>1. Numbered(NewSession(o))
      BY NewSessionType DEF Numbered
    <3>2. PICK gone \in SUBSET SessionIds :
             sessions' = With(Without(sessions, gone), s, NewSession(o))
      BY <2>2 DEF OpensSession
    <3>3. NewSession(o) \in Session
      BY NewSessionType
    <3>4. /\ sessions'[s] = NewSession(o)
          /\ x # s => x \in DOMAIN sessions /\ sessions'[x] = sessions[x]
      BY <2>2, <3>2, <3>3, PutSession
    <3> QED BY <2>0, <2>2, <3>1, <3>4
  <2>3. ASSUME Touches, NEW x \in DOMAIN sessions'
        PROVE  Numbered(sessions'[x])
    <3>1. PICK t \in Nat : sessions'[x] = [sessions[x] EXCEPT !.accessed = t]
      BY <2>3 DEF Touches
    <3>2. sessions[x] \in Session /\ Numbered(sessions[x])
      BY <2>0, <2>3 DEF Touches, IsStore
    <3>3. /\ sessions'[x].turns = sessions[x].turns
          /\ sessions'[x].next = sessions[x].next
      BY <3>1, <3>2 DEF Session
    <3> QED BY <3>2, <3>3 DEF Numbered
  <2>4. \A x \in DOMAIN sessions' : Numbered(sessions'[x])
    BY <2>1, <2>2, <2>3, StepCases
  <2> QED BY <2>4 DEF NewestTurnsKept, Numbered
<1> QED BY <1>1, <1>2, MemoryTypeCorrect, PTL DEF Spec

-----------------------------------------------------------------------------
(* The limits.                                                             *)

Small(S) == IsFiniteSet(S) /\ Cardinality(S) <= MaxSessions

\* After _make_capacity there is room for one more session.
LEMMA RoomMade ==
    ASSUME NEW d, Small(DOMAIN d), NEW gone \in SUBSET DOMAIN d,
           MakeCapacity(d, gone)
    PROVE  /\ IsFiniteSet(DOMAIN d \ gone)
           /\ Cardinality(DOMAIN d \ gone) < MaxSessions
<1> DEFINE lapsed == {x \in DOMAIN d : d[x].expires <= now}
<1>1. PICK expired \in Batches(lapsed) :
         IF Cardinality(DOMAIN d \ expired) < MaxSessions THEN gone = expired
         ELSE \E u \in DOMAIN d \ expired : gone = expired \cup {u}
  BY DEF MakeCapacity
<1> DEFINE kept == DOMAIN d \ expired
<1>2. IsFiniteSet(kept) /\ Cardinality(kept) <= Cardinality(DOMAIN d)
  BY FS_Subset DEF Small
<1>3. Cardinality(kept) \in Nat /\ Cardinality(DOMAIN d) \in Nat
  BY <1>2, FS_CardinalityType DEF Small
<1>4. CASE Cardinality(kept) < MaxSessions
  BY <1>1, <1>2, <1>4
<1>5. CASE ~(Cardinality(kept) < MaxSessions)
  <2>1. PICK u \in kept : gone = expired \cup {u}
    BY <1>1, <1>5
  <2>2. DOMAIN d \ gone = kept \ {u}
    BY <2>1
  <2>3. /\ IsFiniteSet(kept \ {u})
        /\ Cardinality(kept \ {u}) = Cardinality(kept) - 1
    BY <1>2, <2>1, FS_RemoveElement
  <2>4. Cardinality(DOMAIN d) <= MaxSessions /\ MaxSessions \in Nat
    BY LimitsAssumption DEF Small
  <2> DEFINE m == Cardinality(kept)
             n == Cardinality(DOMAIN d)
  <2>5. m \in Nat /\ n \in Nat /\ m <= n /\ n <= MaxSessions
    BY <1>2, <1>3, <2>4
  <2> HIDE DEF m, n
  <2>6. m - 1 < MaxSessions
    BY <2>4, <2>5
  <2> QED BY <2>2, <2>3, <2>6 DEF m
<1> QED BY <1>4, <1>5

LEMMA SmallStep ==
    ASSUME TypeOK, Small(DOMAIN sessions), [Next]_vars
    PROVE  Small(DOMAIN sessions')
<1>1. ASSUME NEW s \in SessionIds, NEW o \in Owners, NEW q \in RequestIds,
             NEW c \in Contents, UpsertFirst(s, o, q, c)
      PROVE  Small(DOMAIN sessions')
  <2> DEFINE d == Without(sessions, {s})
  <2>a. PICK gone \in SUBSET DOMAIN d :
           /\ MakeCapacity(d, gone)
           /\ IF TooLarge(c)
              THEN sessions' = With(Without(d, gone), s, NewSession(o))
              ELSE \E k \in 0 .. 1 :
                      sessions' = With(Without(d, gone), s,
                                       StoredIn(NewSession(o), o, q, c, k))
    BY <1>1 DEF UpsertFirst
  <2>1. \E v : sessions' = With(Without(d, gone), s, v)
    BY <2>a
  <2>2. DOMAIN d = DOMAIN sessions \ {s}
    BY DEF Without
  <2>3. DOMAIN sessions' = (DOMAIN d \ gone) \cup {s}
    BY <2>1 DEF With, Without
  <2>4. Small(DOMAIN d)
    <3>1. /\ IsFiniteSet(DOMAIN d)
          /\ Cardinality(DOMAIN d) <= Cardinality(DOMAIN sessions)
      BY <2>2, FS_Subset DEF Small
    <3>2. Cardinality(DOMAIN d) \in Nat /\ Cardinality(DOMAIN sessions) \in Nat
      BY <3>1, FS_CardinalityType DEF Small
    <3> QED BY <3>1, <3>2, LimitsAssumption DEF Small
  <2> DEFINE rest == DOMAIN d \ gone
  <2>5. IsFiniteSet(rest) /\ Cardinality(rest) < MaxSessions
    BY <2>a, <2>4, RoomMade
  <2>6. s \notin rest
    BY <2>2
  <2>7. /\ IsFiniteSet(rest \cup {s})
        /\ Cardinality(rest \cup {s}) = Cardinality(rest) + 1
    BY <2>5, <2>6, FS_AddElement
  <2>8. Cardinality(rest) \in Nat
    BY <2>5, FS_CardinalityType
  <2> QED BY <2>3, <2>5, <2>7, <2>8, LimitsAssumption DEF Small
<1>2. ASSUME DOMAIN sessions' \subseteq DOMAIN sessions
      PROVE  Small(DOMAIN sessions')
  <2>1. /\ IsFiniteSet(DOMAIN sessions')
        /\ Cardinality(DOMAIN sessions') <= Cardinality(DOMAIN sessions)
    BY <1>2, FS_Subset DEF Small
  <2>2. /\ Cardinality(DOMAIN sessions') \in Nat
        /\ Cardinality(DOMAIN sessions) \in Nat
    BY <2>1, FS_CardinalityType DEF Small
  <2> QED BY <2>1, <2>2, LimitsAssumption DEF Small
<1>3. ASSUME NEW s \in SessionIds, NEW o \in Owners,
             Load(s, o) \/ DeleteSession(s, o)
      PROVE  DOMAIN sessions' \subseteq DOMAIN sessions
  BY <1>3 DEF Load, LoadRefused, LoadFound, LoadMissing, DeleteSession,
              Delete, DeleteRefused, Without
<1>4. ASSUME NEW s \in SessionIds, NEW o \in Owners, NEW q \in RequestIds,
             NEW c \in Contents, Upsert(s, o, q, c), ~UpsertFirst(s, o, q, c)
      PROVE  DOMAIN sessions' \subseteq DOMAIN sessions
  BY <1>4 DEF Upsert, UpsertRefused, UpsertAgain, UpsertTooLarge, UpsertNext
<1>5. CASE CleanupExpired \/ Tick \/ UNCHANGED vars
  BY <1>2, <1>5 DEF CleanupExpired, Tick, vars, Without
<1> QED BY <1>1, <1>2, <1>3, <1>4, <1>5 DEF Next

Fitting(v) == v.turns # <<>> => Fits(v.turns)

LEMMA StoredIsFitting ==
    ASSUME TypeOK, NEW v \in Session, NEW o \in Owners, NEW q \in RequestIds,
           NEW c \in Contents, NEW k \in 0 .. Len(v.turns) + 1,
           EvictTurns(Append(v.turns, Turn(v, o, q, c)), k)
    PROVE  Fitting(StoredIn(v, o, q, c, k))
<1> DEFINE turns == Append(v.turns, Turn(v, o, q, c))
<1>1. /\ turns \in Seq(Turns) /\ Len(turns) = Len(v.turns) + 1
      /\ StoredIn(v, o, q, c, k).turns = From(turns, k)
  BY StoredType
<1>2. k = Len(turns) \/ Fits(From(turns, k))
  BY DEF EvictTurns
<1> HIDE DEF turns
<1>3. CASE k = Len(turns)
  <2>1. From(turns, k) \in Seq(Turns) /\ Len(From(turns, k)) = 0
    BY <1>1, <1>3, FromTurns
  <2> QED BY <1>1, <2>1 DEF Fitting
<1> QED BY <1>1, <1>2, <1>3 DEF Fitting

LimitsInv ==
    /\ Small(DOMAIN sessions)
    /\ \A s \in DOMAIN sessions : Fitting(sessions[s])

LEMMA LimitsKept == Spec => []LimitsInv
<1>1. Init => LimitsInv
  BY FS_EmptySet, LimitsAssumption DEF Init, LimitsInv, Small
<1>2. TypeOK /\ LimitsInv /\ [Next]_vars => LimitsInv'
  <2> SUFFICES ASSUME TypeOK, LimitsInv, [Next]_vars
               PROVE  LimitsInv'
    OBVIOUS
  <2>1. ASSUME NEW s \in SessionIds, NEW o \in Owners, NEW q \in RequestIds,
               NEW c \in Contents, StoresTurn(s, o, q, c),
               NEW x \in DOMAIN sessions'
        PROVE  Fitting(sessions'[x])
    <3>1. PICK v \in Session, gone \in SUBSET SessionIds, k \in Nat :
             /\ k <= Len(v.turns) + 1
             /\ EvictTurns(Append(v.turns, Turn(v, o, q, c)), k)
             /\ sessions' = With(Without(sessions, gone), s,
                                 StoredIn(v, o, q, c, k))
      BY <2>1 DEF StoresTurn
    <3>2. k \in 0 .. Len(v.turns) + 1
      BY <3>1 DEF Session
    <3>3. StoredIn(v, o, q, c, k) \in Session
      BY <3>2, StoredType
    <3>4. Fitting(StoredIn(v, o, q, c, k))
      BY <3>1, <3>2, StoredIsFitting
    <3>5. /\ sessions'[s] = StoredIn(v, o, q, c, k)
          /\ x # s => x \in DOMAIN sessions /\ sessions'[x] = sessions[x]
      BY <2>1, <3>1, <3>3, PutSession
    <3> QED BY <2>1, <3>4, <3>5 DEF LimitsInv
  <2>2. ASSUME NEW s \in SessionIds, NEW o \in Owners, OpensSession(s, o),
               NEW x \in DOMAIN sessions'
        PROVE  Fitting(sessions'[x])
    <3>1. PICK gone \in SUBSET SessionIds :
             sessions' = With(Without(sessions, gone), s, NewSession(o))
      BY <2>2 DEF OpensSession
    <3>2. NewSession(o) \in Session /\ Fitting(NewSession(o))
      BY NewSessionType DEF Fitting
    <3>3. /\ sessions'[s] = NewSession(o)
          /\ x # s => x \in DOMAIN sessions /\ sessions'[x] = sessions[x]
      BY <2>2, <3>1, <3>2, PutSession
    <3> QED BY <2>2, <3>2, <3>3 DEF LimitsInv
  <2>3. ASSUME Touches, NEW x \in DOMAIN sessions'
        PROVE  Fitting(sessions'[x])
    <3>1. PICK t \in Nat : sessions'[x] = [sessions[x] EXCEPT !.accessed = t]
      BY <2>3 DEF Touches
    <3>2. sessions[x] \in Session /\ Fitting(sessions[x])
      BY <2>3 DEF Touches, TypeOK, LimitsInv
    <3>3. sessions'[x].turns = sessions[x].turns
      BY <3>1, <3>2 DEF Session
    <3> QED BY <3>2, <3>3 DEF Fitting
  <2>4. \A x \in DOMAIN sessions' : Fitting(sessions'[x])
    BY <2>1, <2>2, <2>3, StepCases
  <2>5. Small(DOMAIN sessions')
    BY SmallStep DEF LimitsInv
  <2> QED BY <2>4, <2>5 DEF LimitsInv, Small, Fitting, Fits
<1> QED BY <1>1, <1>2, MemoryTypeCorrect, PTL DEF Spec

\* Every limit of InMemoryConversationStore holds after every operation.
THEOREM LimitsHold == Spec => []WithinLimits
<1>1. LimitsInv => WithinLimits
  BY DEF LimitsInv, WithinLimits, Small, Fitting
<1> QED BY <1>1, LimitsKept, PTL

-----------------------------------------------------------------------------
(* What is read.                                                           *)

\* The turns of a session were written by its owner.
Owned(v) == \A i \in DOMAIN v.turns : v.turns[i].by = v.owner

LEMMA StoredIsOwned ==
    ASSUME TypeOK, NEW v \in Session, NEW o \in Owners, NEW q \in RequestIds,
           NEW c \in Contents, NEW k \in 0 .. Len(v.turns) + 1, Owned(v),
           v.owner = o
    PROVE  Owned(StoredIn(v, o, q, c, k))
<1> DEFINE turn == Turn(v, o, q, c)
           turns == Append(v.turns, turn)
           w == StoredIn(v, o, q, c, k)
           n == Len(v.turns)
<1>1. v.turns \in Seq(Turns) /\ n \in Nat /\ DOMAIN v.turns = 1 .. n
  BY DEF Session
<1>2. /\ turns \in Seq(Turns) /\ Len(turns) = n + 1
      /\ w.turns = From(turns, k)
  BY StoredType
<1>3. w.owner = o
  BY DEF StoredIn, Session
<1>4. turn.by = o
  BY DEF Turn
<1>5. \A j \in 1 .. n + 1 : turns[j] = IF j = n + 1 THEN turn ELSE v.turns[j]
  BY <1>1
<1>6. \A j \in 1 .. n + 1 : turns[j].by = o
  BY <1>1, <1>4, <1>5 DEF Owned
<1>7. k \in 0 .. n + 1
  OBVIOUS
<1> HIDE DEF turn, turns, w, n
<1>8. /\ w.turns \in Seq(Turns) /\ Len(w.turns) = n + 1 - k
      /\ \A i \in 1 .. n + 1 - k : w.turns[i] = turns[k + i]
  <2>0. k \in 0 .. Len(turns)
    BY <1>2, <1>7
  <2>1. /\ From(turns, k) \in Seq(Turns)
        /\ Len(From(turns, k)) = Len(turns) - k
        /\ \A i \in 1 .. Len(turns) - k : From(turns, k)[i] = turns[k + i]
    BY <1>2, <2>0, FromTurns
  <2> QED BY <1>1, <1>2, <1>7, <2>1
<1>9. ASSUME NEW i \in 1 .. n + 1 - k PROVE w.turns[i].by = o
  <2>1. k + i \in 1 .. n + 1
    BY <1>1, <1>7
  <2> QED BY <1>6, <1>8, <2>1
<1>10. DOMAIN w.turns = 1 .. n + 1 - k
  BY <1>8
<1> QED BY <1>3, <1>9, <1>10 DEF Owned, w

OwnedInv == \A s \in DOMAIN sessions : Owned(sessions[s])

LEMMA OwnedKept == Spec => []OwnedInv
<1>1. Init => OwnedInv
  BY DEF Init, OwnedInv
<1>2. TypeOK /\ OwnedInv /\ [Next]_vars => OwnedInv'
  <2> SUFFICES ASSUME TypeOK, OwnedInv, [Next]_vars PROVE OwnedInv'
    OBVIOUS
  <2>1. ASSUME NEW s \in SessionIds, NEW o \in Owners, NEW q \in RequestIds,
               NEW c \in Contents, StoresTurn(s, o, q, c),
               NEW x \in DOMAIN sessions'
        PROVE  Owned(sessions'[x])
    <3>1. PICK v \in Session, gone \in SUBSET SessionIds, k \in Nat :
             /\ k <= Len(v.turns) + 1 /\ v.owner = o
             /\ sessions' = With(Without(sessions, gone), s,
                                 StoredIn(v, o, q, c, k))
             /\ \/ s \in DOMAIN sessions \ gone /\ sessions[s] = v
                \/ s \notin DOMAIN sessions \ gone /\ v = NewSession(o)
      BY <2>1 DEF StoresTurn
    <3>2. k \in 0 .. Len(v.turns) + 1
      BY <3>1 DEF Session
    <3>3. Owned(v)
      BY <3>1, NewSessionType DEF Owned, OwnedInv
    <3>4. Owned(StoredIn(v, o, q, c, k)) /\ StoredIn(v, o, q, c, k) \in Session
      BY <3>1, <3>2, <3>3, StoredIsOwned, StoredType
    <3>5. /\ sessions'[s] = StoredIn(v, o, q, c, k)
          /\ x # s => x \in DOMAIN sessions /\ sessions'[x] = sessions[x]
      BY <2>1, <3>1, <3>4, PutSession
    <3> QED BY <2>1, <3>4, <3>5 DEF OwnedInv
  <2>2. ASSUME NEW s \in SessionIds, NEW o \in Owners, OpensSession(s, o),
               NEW x \in DOMAIN sessions'
        PROVE  Owned(sessions'[x])
    <3>1. PICK gone \in SUBSET SessionIds :
             sessions' = With(Without(sessions, gone), s, NewSession(o))
      BY <2>2 DEF OpensSession
    <3>2. NewSession(o) \in Session /\ Owned(NewSession(o))
      BY NewSessionType DEF Owned
    <3>3. /\ sessions'[s] = NewSession(o)
          /\ x # s => x \in DOMAIN sessions /\ sessions'[x] = sessions[x]
      BY <2>2, <3>1, <3>2, PutSession
    <3> QED BY <2>2, <3>2, <3>3 DEF OwnedInv
  <2>3. ASSUME Touches, NEW x \in DOMAIN sessions'
        PROVE  Owned(sessions'[x])
    <3>1. PICK t \in Nat : sessions'[x] = [sessions[x] EXCEPT !.accessed = t]
      BY <2>3 DEF Touches
    <3>2. sessions[x] \in Session /\ Owned(sessions[x])
      BY <2>3 DEF Touches, TypeOK, OwnedInv
    <3>3. /\ sessions'[x].turns = sessions[x].turns
          /\ sessions'[x].owner = sessions[x].owner
      BY <3>1, <3>2 DEF Session
    <3> QED BY <3>2, <3>3 DEF Owned
  <2>4. \A x \in DOMAIN sessions' : Owned(sessions'[x])
    BY <2>1, <2>2, <2>3, StepCases
  <2> QED BY <2>4 DEF OwnedInv, Owned
<1> QED BY <1>1, <1>2, MemoryTypeCorrect, PTL DEF Spec

\* What a load returns was written by the reader, and the session had not
\* expired when it was read.
THEOREM ReadersReadTheirOwn == Spec => OwnLiveTurnsRead
<1> DEFINE Answer(s, o) == /\ Live(s) /\ sessions[s].owner = o
                           /\ Reply("found", s, o, sessions[s].turns)
           Fair == reply'.outcome = "found" =>
                      /\ \A i \in DOMAIN reply'.turns :
                            reply'.to = {reply'.turns[i].by}
                      /\ \A s \in reply'.session : sessions[s].expires > now
<1>1. TypeOK /\ OwnedInv /\ Next => Fair
  <2> SUFFICES ASSUME TypeOK, OwnedInv, Next, reply'.outcome = "found"
               PROVE  Fair
    OBVIOUS
  <2>1. \E s \in SessionIds, o \in Owners : Answer(s, o)
    <3>1. ASSUME NEW s \in SessionIds, NEW o \in Owners, Load(s, o)
          PROVE  Answer(s, o)
      <4>1. ~LoadRefused(s, o) /\ ~LoadMissing(s, o)
        BY DEF LoadRefused, LoadMissing, Reply
      <4> QED BY <3>1, <4>1 DEF Load, LoadFound
    <3>2. ASSUME NEW s \in SessionIds, NEW o \in Owners, NEW q \in RequestIds,
                 NEW c \in Contents, Upsert(s, o, q, c)
          PROVE  FALSE
      <4>1. ~UpsertFirst(s, o, q, c)
        BY DEF UpsertFirst, Reply
      <4>2. ~UpsertRefused(s, o) /\ ~UpsertTooLarge(s, o, q, c)
        BY DEF UpsertRefused, UpsertTooLarge, Reply
      <4>3. ~UpsertAgain(s, o, q, c)
        BY DEF UpsertAgain, Reply
      <4>4. ~UpsertNext(s, o, q, c)
        BY DEF UpsertNext, Reply
      <4> QED BY <3>2, <4>1, <4>2, <4>3, <4>4 DEF Upsert
    <3>3. ASSUME NEW s \in SessionIds, NEW o \in Owners, DeleteSession(s, o)
          PROVE  FALSE
      BY <3>3 DEF DeleteSession, Delete, DeleteRefused, Reply
    <3>4. ~CleanupExpired /\ ~Tick
      BY DEF CleanupExpired, Tick
    <3> QED BY <3>1, <3>2, <3>3, <3>4 DEF Next
  <2>2. PICK s \in SessionIds, o \in Owners : Answer(s, o)
    BY <2>1
  <2>3. /\ s \in DOMAIN sessions /\ sessions[s].expires > now
        /\ \A i \in DOMAIN sessions[s].turns : sessions[s].turns[i].by = o
    BY <2>2 DEF Live, OwnedInv, Owned
  <2>4. /\ reply'.turns = sessions[s].turns /\ reply'.to = {o}
        /\ reply'.session = {s}
    BY <2>2 DEF Reply
  <2> QED BY <2>3, <2>4
<1>2. TypeOK /\ OwnedInv /\ [Next]_vars => [Fair]_vars
  BY <1>1
<1> QED BY <1>2, MemoryTypeCorrect, OwnedKept, PTL DEF Spec, OwnLiveTurnsRead

-----------------------------------------------------------------------------
(* What is evicted.                                                        *)

\* Room is made by removing a session in use only if the store is full of
\* sessions in use, and then the least recently used of them.
LEMMA LiveEvicted ==
    ASSUME TypeOK, Small(DOMAIN sessions), NEW s, ~Live(s),
           NEW gone \in SUBSET DOMAIN Without(sessions, {s}),
           MakeCapacity(Without(sessions, {s}), gone),
           NEW x \in gone, Live(x)
    PROVE  /\ s \notin DOMAIN sessions
           /\ Cardinality(DOMAIN sessions) >= MaxSessions
           /\ \A u \in DOMAIN sessions :
                 Live(u) /\ sessions[x].accessed <= sessions[u].accessed
<1> DEFINE d == Without(sessions, {s})
           all == DOMAIN sessions
           lapsed == {u \in DOMAIN d : d[u].expires <= now}
<1>1. /\ DOMAIN d = all \ {s} /\ \A u \in DOMAIN d : d[u] = sessions[u]
      /\ x \in DOMAIN d
  BY DEF Without
<1>2. \A u \in all : sessions[u].expires \in Nat /\ now \in Nat
  BY DEF TypeOK, Session
<1>3. PICK expired \in Batches(lapsed) :
         IF Cardinality(DOMAIN d \ expired) < MaxSessions THEN gone = expired
         ELSE \E v \in DOMAIN d \ expired :
                 /\ \A u \in DOMAIN d \ expired : d[v].accessed <= d[u].accessed
                 /\ gone = expired \cup {v}
  BY DEF MakeCapacity
<1> HIDE DEF d
<1>4. expired \subseteq lapsed /\ x \notin expired
  <2>1. expired \subseteq lapsed
    BY <1>3 DEF Batches
  <2>2. x \notin lapsed
    BY <1>1, <1>2 DEF Live
  <2> QED BY <2>1, <2>2
<1>5. /\ Cardinality(DOMAIN d \ expired) >= MaxSessions
      /\ x \in DOMAIN d \ expired
      /\ \A u \in DOMAIN d \ expired : d[x].accessed <= d[u].accessed
  <2> DEFINE kept == DOMAIN d \ expired
  <2>1. IsFiniteSet(kept)
    BY <1>1, FS_Subset DEF Small
  <2>2. Cardinality(kept) \in Nat
    BY <2>1, FS_CardinalityType
  <2>3. ~(Cardinality(kept) < MaxSessions)
    BY <1>3, <1>4
  <2>4. PICK v \in kept : /\ \A u \in kept : d[v].accessed <= d[u].accessed
                          /\ gone = expired \cup {v}
    BY <1>3, <2>3
  <2>5. v = x
    BY <1>4, <2>4
  <2>6. Cardinality(kept) >= MaxSessions
    <3> HIDE DEF kept
    <3> QED BY <2>2, <2>3, LimitsAssumption
  <2> QED BY <2>4, <2>5, <2>6
<1>6. DOMAIN d \ expired = all
  <2> DEFINE kept == DOMAIN d \ expired
  <2>1. kept \subseteq all /\ IsFiniteSet(all)
    BY <1>1 DEF Small
  <2>2. IsFiniteSet(kept) /\ Cardinality(kept) <= Cardinality(all)
        /\ (Cardinality(kept) = Cardinality(all) => kept = all)
    BY <2>1, FS_Subset
  <2>3. Cardinality(kept) \in Nat /\ Cardinality(all) \in Nat
    BY <2>1, <2>2, FS_CardinalityType
  <2>4. Cardinality(all) <= MaxSessions /\ Cardinality(kept) >= MaxSessions
    BY <1>5 DEF Small
  <2> HIDE DEF kept, all
  <2>5. Cardinality(kept) = Cardinality(all)
    BY <2>2, <2>3, <2>4, LimitsAssumption
  <2> QED BY <2>2, <2>5 DEF kept
<1>7. s \notin all /\ expired = {}
  BY <1>1, <1>4, <1>6
<1>8. lapsed = {}
  <2>1. IsFiniteSet(lapsed)
    BY <1>1, FS_Subset DEF Small
  <2>2. Cardinality({}) = 0
    BY FS_EmptySet
  <2>3. CASE Cardinality(lapsed) <= ScanLimit
    BY <1>3, <1>7, <2>3 DEF Batches
  <2>4. CASE ~(Cardinality(lapsed) <= ScanLimit)
    <3>1. Cardinality(expired) = ScanLimit
      BY <1>3, <2>4 DEF Batches
    <3> QED BY <1>7, <2>2, <3>1, LimitsAssumption
  <2> QED BY <2>3, <2>4
<1>9. ASSUME NEW u \in all
      PROVE  Live(u) /\ sessions[x].accessed <= sessions[u].accessed
  <2>1. u \in DOMAIN d /\ d[u] = sessions[u] /\ d[x] = sessions[x]
    BY <1>1, <1>6
  <2>2. ~(sessions[u].expires <= now)
    BY <1>8, <2>1
  <2>3. Live(u)
    BY <1>2, <2>2 DEF Live
  <2> QED BY <1>5, <1>6, <2>1, <2>3
<1>10. Cardinality(all) >= MaxSessions
  BY <1>5, <1>6
<1> QED BY <1>7, <1>9, <1>10

\* A session in use disappears only when its owner deletes it, or when it is
\* the least recently used of a store full of sessions in use.
THEOREM LiveSessionsStay == Spec => LiveSessionsSurvive
<1> DEFINE Deleted(s) == /\ reply'.outcome = "deleted"
                         /\ reply'.session = {s}
                         /\ reply'.to = {sessions[s].owner}
           Evicted(s) == /\ Cardinality(DOMAIN sessions) >= MaxSessions
                         /\ DOMAIN sessions' \ DOMAIN sessions # {}
                         /\ \A u \in DOMAIN sessions :
                               /\ Live(u)
                               /\ sessions[s].accessed <= sessions[u].accessed
           Good == \A s \in DOMAIN sessions \ DOMAIN sessions' :
                      Live(s) =>
                         \/ /\ reply'.outcome = "deleted"
                            /\ reply'.session = {s} /\ reply'.to = {sessions[s].owner}
                         \/ /\ Cardinality(DOMAIN sessions) >= MaxSessions
                            /\ DOMAIN sessions' \ DOMAIN sessions # {}
                            /\ \A u \in DOMAIN sessions :
                                  /\ Live(u)
                                  /\ sessions[s].accessed <= sessions[u].accessed
<1>1. TypeOK /\ LimitsInv /\ Next => Good
  <2> SUFFICES ASSUME TypeOK, LimitsInv, Next,
                      NEW x \in DOMAIN sessions \ DOMAIN sessions', Live(x)
               PROVE  Deleted(x) \/ Evicted(x)
    OBVIOUS
  <2>1. sessions[x].expires > now /\ sessions[x].expires \in Nat /\ now \in Nat
    BY DEF Live, TypeOK, Session
  <2>2. ASSUME NEW s \in SessionIds, NEW o \in Owners, Load(s, o)
        PROVE  FALSE
    BY <2>2 DEF Load, LoadRefused, LoadFound, LoadMissing, Without
  <2>3. ASSUME NEW s \in SessionIds, NEW o \in Owners, DeleteSession(s, o)
        PROVE  Deleted(x)
    <3>1. Delete(s, o)
      BY <2>3 DEF DeleteSession, DeleteRefused
    <3>2. x = s
      BY <3>1 DEF Delete, Without
    <3> QED BY <3>1, <3>2 DEF Delete, Reply
  <2>4. ASSUME CleanupExpired PROVE FALSE
    <3>1. PICK expired \in Batches(Lapsed) : sessions' = Without(sessions, expired)
      BY <2>4 DEF CleanupExpired
    <3>2. x \in expired /\ expired \subseteq Lapsed
      BY <3>1 DEF Without, Batches
    <3> QED BY <2>1, <3>2 DEF Lapsed
  <2>5. ASSUME NEW s \in SessionIds, NEW o \in Owners, NEW q \in RequestIds,
               NEW c \in Contents, UpsertFirst(s, o, q, c)
        PROVE  Evicted(x)
    <3> DEFINE d == Without(sessions, {s})
    <3>1. PICK gone \in SUBSET DOMAIN d :
             /\ MakeCapacity(d, gone)
             /\ IF TooLarge(c)
                THEN sessions' = With(Without(d, gone), s, NewSession(o))
                ELSE \E k \in 0 .. 1 :
                        sessions' = With(Without(d, gone), s,
                                         StoredIn(NewSession(o), o, q, c, k))
      BY <2>5 DEF UpsertFirst
    <3>2. \E v : sessions' = With(Without(d, gone), s, v)
      BY <3>1
    <3>3. DOMAIN sessions' = (DOMAIN sessions \ ({s} \cup gone)) \cup {s}
      BY <3>2 DEF With, Without
    <3>4. ~Live(s)
      BY <2>5 DEF UpsertFirst
    <3>5. x \in gone
      BY <3>3
    <3>6. /\ s \notin DOMAIN sessions
          /\ Cardinality(DOMAIN sessions) >= MaxSessions
          /\ \A u \in DOMAIN sessions :
                Live(u) /\ sessions[x].accessed <= sessions[u].accessed
      <4>1. Small(DOMAIN sessions)
        BY DEF LimitsInv
      <4> QED BY <3>1, <3>4, <3>5, <4>1, LiveEvicted
    <3> QED BY <3>3, <3>6
  <2>6. ASSUME NEW s \in SessionIds, NEW o \in Owners, NEW q \in RequestIds,
               NEW c \in Contents, Upsert(s, o, q, c), ~UpsertFirst(s, o, q, c)
        PROVE  FALSE
    BY <2>6 DEF Upsert, UpsertRefused, UpsertAgain, UpsertTooLarge, UpsertNext
  <2>7. ~Tick
    BY DEF Tick
  <2> QED BY <2>2, <2>3, <2>4, <2>5, <2>6, <2>7 DEF Next
<1>2. TypeOK /\ LimitsInv /\ [Next]_vars => [Good]_vars
  BY <1>1
<1> QED BY <1>2, MemoryTypeCorrect, LimitsKept, PTL
        DEF Spec, LiveSessionsSurvive

-----------------------------------------------------------------------------
(* The store implements ConversationLog.                                   *)

Conversed(d) == [s \in DOMAIN d |-> Conversation(d[s])]

Entered(turns) == [i \in DOMAIN turns |-> Entry(turns[i])]

\* Appending and dropping commute with the mapping of a sequence of turns.
LEMMA EnteredStored ==
    ASSUME NEW turns \in Seq(Turns), NEW turn \in Turns,
           NEW k \in 0 .. Len(turns) + 1
    PROVE  LET all == Append(Entered(turns), Entry(turn))
           IN /\ Entered(From(Append(turns, turn), k))
                    = SubSeq(all, k + 1, Len(all))
              /\ Len(all) = Len(turns) + 1
<1> DEFINE long == Append(turns, turn)
           all == Append(Entered(turns), Entry(turn))
           n == Len(turns)
<1>1. n \in Nat /\ DOMAIN turns = 1 .. n /\ k \in 0 .. n + 1
  OBVIOUS
<1>2. /\ long \in Seq(Turns) /\ Len(long) = n + 1
      /\ \A i \in 1 .. n : long[i] = turns[i]
      /\ long[n + 1] = turn
  OBVIOUS
<1>3. Entered(turns) \in Seq({Entry(t) : t \in Turns}) /\ Len(Entered(turns)) = n
  <2>1. \A i \in 1 .. n : turns[i] \in Turns
    BY <1>1
  <2>2. Entered(turns) \in [1 .. n -> {Entry(t) : t \in Turns}]
    BY <1>1, <2>1 DEF Entered
  <2> QED BY <1>1, <2>2
<1>4. /\ all \in Seq({Entry(t) : t \in Turns}) /\ Len(all) = n + 1
      /\ \A i \in 1 .. n : all[i] = Entered(turns)[i]
      /\ all[n + 1] = Entry(turn)
  BY <1>3
<1>5. \A i \in 1 .. n : Entered(turns)[i] = Entry(turns[i])
  BY <1>1 DEF Entered
<1> HIDE DEF long, all, n
<1>6. \A i \in 1 .. n + 1 : all[i] = Entry(long[i])
  BY <1>1, <1>2, <1>4, <1>5
<1>7. /\ From(long, k) \in Seq(Turns) /\ Len(From(long, k)) = n + 1 - k
      /\ \A i \in 1 .. n + 1 - k : From(long, k)[i] = long[k + i]
  <2>1. k \in 0 .. Len(long)
    BY <1>1, <1>2
  <2>2. Len(long) - k = n + 1 - k
    BY <1>1, <1>2
  <2> QED BY <1>2, <2>1, <2>2, FromTurns
<1>8. /\ SubSeq(all, k + 1, n + 1) \in Seq({Entry(t) : t \in Turns})
      /\ Len(SubSeq(all, k + 1, n + 1)) = n + 1 - k
      /\ \A i \in 1 .. n + 1 - k : SubSeq(all, k + 1, n + 1)[i] = all[k + i]
  BY <1>1, <1>4, SubSeqProperties
<1>9. Entered(From(long, k)) = SubSeq(all, k + 1, n + 1)
  <2> DEFINE E == {Entry(t) : t \in Turns}
             left == Entered(From(long, k))
             right == SubSeq(all, k + 1, n + 1)
  <2>1. DOMAIN From(long, k) = 1 .. n + 1 - k /\ n + 1 - k \in Nat
    BY <1>1, <1>7
  <2>2. left = [i \in 1 .. n + 1 - k |-> Entry(long[k + i])]
    BY <1>7, <2>1 DEF Entered
  <2>3. ASSUME NEW i \in 1 .. n + 1 - k
        PROVE  right[i] = Entry(long[k + i])
    <3>1. k + i \in 1 .. n + 1
      BY <1>1
    <3> QED BY <1>6, <1>8, <3>1
  <2>4. \A i \in 1 .. n + 1 - k : From(long, k)[i] \in Turns
    BY <1>7, <2>1
  <2>5. left \in Seq(E) /\ Len(left) = n + 1 - k
    <3>1. left \in [1 .. n + 1 - k -> E]
      BY <1>7, <2>2, <2>4
    <3> QED BY <2>1, <3>1
  <2>6. \A i \in 1 .. Len(left) : left[i] = right[i]
    BY <2>2, <2>3, <2>5
  <2>7. right \in Seq(E) /\ Len(right) = Len(left)
    BY <1>8, <2>5
  <2> HIDE DEF left, right, E
  <2>8. left = right
    BY <2>5, <2>6, <2>7, SeqEqual
  <2> QED BY <2>8 DEF left, right
<1> QED BY <1>4, <1>9 DEF long, all, n

\* What the mapping makes of a store into which a session was put.
LEMMA RecordPut ==
    ASSUME TypeOK, NEW gone, NEW s \in SessionIds, NEW v \in Session,
           NEW conversation, conversation = Conversation(v),
           sessions' = With(Without(sessions, gone), s, v)
    PROVE  Log!Record(s, conversation, gone)
<1>1. /\ sessions'[s] = v
      /\ \A y \in DOMAIN sessions' : y # s =>
            y \in DOMAIN sessions \ gone /\ sessions'[y] = sessions[y]
  BY PutSession
<1>2. DOMAIN sessions' = (DOMAIN sessions \ gone) \cup {s}
  BY DEF With, Without
<1>3. DOMAIN Conversed(sessions) = DOMAIN sessions
  BY DEF Conversed
<1>4. \A x \in DOMAIN sessions : Conversed(sessions)[x] = Conversation(sessions[x])
  BY DEF Conversed
<1>5. Conversed(sessions') =
         [x \in (DOMAIN sessions \ gone) \cup {s} |-> Conversation(sessions'[x])]
  BY <1>2 DEF Conversed
<1>6. \A x \in (DOMAIN sessions \ gone) \cup {s} :
         Conversation(sessions'[x])
            = IF x = s THEN conversation ELSE Conversed(sessions)[x]
  BY <1>1, <1>2, <1>4
<1>7. Conversed(sessions') =
         [x \in (DOMAIN Conversed(sessions) \ gone) \cup {s} |->
             IF x = s THEN conversation ELSE Conversed(sessions)[x]]
  BY <1>3, <1>5, <1>6
<1> QED BY <1>7 DEF Log!Record, Conversed

\* To forget sessions means to forget those of them that are in the store.
LEMMA OnlyStoredGo ==
    ASSUME NEW gone
    PROVE  LET held == gone \cap DOMAIN sessions IN
           /\ held \in SUBSET DOMAIN sessions
           /\ DOMAIN sessions \ gone = DOMAIN sessions \ held
           /\ Without(sessions, gone) = Without(sessions, held)
<1>1. DOMAIN sessions \ gone = DOMAIN sessions \ (gone \cap DOMAIN sessions)
  OBVIOUS
<1> QED BY <1>1 DEF Without

\* What is recorded is of the owner it names.
LEMMA RecordWrites ==
    ASSUME NEW s, NEW o, NEW gone, NEW turns,
           Log!Record(s, [owner |-> o, turns |-> turns], gone),
           s \in DOMAIN sessions \ gone => Conversation(sessions[s]).owner = o
    PROVE  Log!Writes(s, o, gone)
<1>1. /\ DOMAIN Conversed(sessions) = DOMAIN sessions
      /\ \A x \in DOMAIN sessions :
            Conversed(sessions)[x] = Conversation(sessions[x])
  BY DEF Conversed
<1>2. Conversed(sessions') =
         [x \in (DOMAIN Conversed(sessions) \ gone) \cup {s} |->
             IF x = s THEN [owner |-> o, turns |-> turns]
             ELSE Conversed(sessions)[x]]
  BY DEF Log!Record, Conversed
<1>3. /\ DOMAIN Conversed(sessions') = (DOMAIN Conversed(sessions) \ gone) \cup {s}
      /\ Conversed(sessions')[s].owner = o
  BY <1>2
<1>4. s \in DOMAIN Conversed(sessions) \ gone => Conversed(sessions)[s].owner = o
  BY <1>1
<1> QED BY <1>3, <1>4 DEF Log!Writes, Conversed

LEMMA OpensIsOpen ==
    ASSUME TypeOK, NEW s \in SessionIds, NEW o \in Owners,
           OpensSession(s, o)
    PROVE  Log!Next
<1>1. PICK gone \in SUBSET DOMAIN sessions :
         /\ s \notin DOMAIN sessions \ gone
         /\ sessions' = With(Without(sessions, gone), s, NewSession(o))
  BY OnlyStoredGo DEF OpensSession
<1>2. NewSession(o) \in Session
  BY NewSessionType
<1> DEFINE conversation == [owner |-> o, turns |-> <<>>]
<1>3. Conversation(NewSession(o)) = conversation
  <2>1. [i \in DOMAIN <<>> |-> Entry(<<>>[i])] = <<>>
    OBVIOUS
  <2> QED BY <2>1 DEF Conversation, NewSession
<1> HIDE DEF conversation
<1>4. Log!Record(s, conversation, gone)
  BY <1>1, <1>2, <1>3, RecordPut
<1>5. Log!Open(s, o, gone)
  BY <1>1, <1>4 DEF Log!Open, conversation
<1>6. Log!Writes(s, o, gone)
  BY <1>1, <1>4, RecordWrites DEF conversation
<1> QED BY <1>1, <1>5, <1>6 DEF Log!Next

LEMMA TouchesIsForget ==
    ASSUME TypeOK, Touches
    PROVE  Log!Next
<1> DEFINE gone == DOMAIN sessions \ DOMAIN sessions'
<1>1. gone \in SUBSET DOMAIN sessions
  OBVIOUS
<1>2. DOMAIN sessions \ gone = DOMAIN sessions'
  BY DEF Touches
<1>3. ASSUME NEW s \in DOMAIN sessions'
      PROVE  Conversation(sessions'[s]) = Conversation(sessions[s])
  <2>1. PICK t \in Nat : sessions'[s] = [sessions[s] EXCEPT !.accessed = t]
    BY <1>3 DEF Touches
  <2>2. sessions[s] \in Session
    BY <1>3 DEF Touches, TypeOK
  <2>3. /\ sessions'[s].owner = sessions[s].owner
        /\ sessions'[s].turns = sessions[s].turns
    BY <2>1, <2>2 DEF Session
  <2> QED BY <2>3 DEF Conversation
<1>4. Log!Forget(gone)
  <2>1. Conversed(sessions') =
           [x \in DOMAIN Conversed(sessions) \ gone |-> Conversed(sessions)[x]]
    BY <1>2, <1>3 DEF Conversed
  <2> QED BY <2>1 DEF Log!Forget, Conversed
<1> QED BY <1>1, <1>4 DEF Log!Next

LEMMA StoresIsRemember ==
    ASSUME TypeOK, NEW s \in SessionIds, NEW o \in Owners,
           NEW q \in RequestIds, NEW c \in Contents, StoresTurn(s, o, q, c)
    PROVE  Log!Next
<1>1. PICK v \in Session, gone \in SUBSET DOMAIN sessions, k \in Nat :
         /\ k <= Len(v.turns) + 1
         /\ v.owner = o /\ ~Holds(v, q)
         /\ sessions' = With(Without(sessions, gone), s,
                             StoredIn(v, o, q, c, k))
         /\ \/ s \in DOMAIN sessions \ gone /\ sessions[s] = v
            \/ s \notin DOMAIN sessions \ gone /\ v = NewSession(o)
  BY OnlyStoredGo DEF StoresTurn
<1> DEFINE before == Log!EntriesAfter(s, gone)
           entry == [request |-> q, content |-> c, by |-> o]
           all == Append(before, entry)
           w == StoredIn(v, o, q, c, k)
<1>2. k \in 0 .. Len(v.turns) + 1 /\ v.turns \in Seq(Turns)
  BY <1>1 DEF Session
<1>3. Turn(v, o, q, c) \in Turns /\ Entry(Turn(v, o, q, c)) = entry
  BY TurnType DEF Turn, Entry
<1>4. before = Entered(v.turns)
  <2>1. CASE s \in DOMAIN sessions \ gone /\ sessions[s] = v
    BY <2>1 DEF Log!EntriesAfter, Conversation, Entered
  <2>2. CASE s \notin DOMAIN sessions \ gone /\ v = NewSession(o)
    <3>1. [i \in DOMAIN <<>> |-> Entry(<<>>[i])] = <<>>
      OBVIOUS
    <3>2. Entered(v.turns) = <<>>
      BY <2>2, <3>1, NewSessionType DEF Entered
    <3>3. before = <<>>
      BY <2>2 DEF Log!EntriesAfter
    <3> QED BY <3>2, <3>3
  <2> QED BY <1>1, <2>1, <2>2
<1>5. /\ w \in Session /\ w.owner = v.owner
      /\ w.turns = From(Append(v.turns, Turn(v, o, q, c)), k)
  BY <1>2, StoredType
<1> HIDE DEF before, entry, w
<1>6. /\ Entered(w.turns) = SubSeq(all, k + 1, Len(all))
      /\ Len(all) = Len(v.turns) + 1
  BY <1>2, <1>3, <1>4, <1>5, EnteredStored
<1> DEFINE conversation ==
              [owner |-> o, turns |-> SubSeq(all, k + 1, Len(all))]
<1>7. conversation = Conversation(w)
  BY <1>1, <1>5, <1>6 DEF Conversation, Entered
<1>8. sessions' = With(Without(sessions, gone), s, w)
  BY <1>1 DEF w
<1> HIDE DEF conversation, all
<1>9. Log!Record(s, conversation, gone)
  BY <1>5, <1>7, <1>8, RecordPut
<1>10. Log!Writes(s, o, gone)
  <2>1. s \in DOMAIN sessions \ gone => Conversation(sessions[s]).owner = o
    BY <1>1 DEF Conversation
  <2> QED BY <1>9, <2>1, RecordWrites DEF conversation
<1>11. \A i \in DOMAIN before : before[i].request # q
  BY <1>1, <1>4 DEF Entered, Entry, Holds
<1>12. Log!Remember(s, o, q, c, gone, k)
  BY <1>1, <1>6, <1>9, <1>11
     DEF Log!Remember, before, entry, all, conversation
<1>13. k \in 0 .. Len(before) + 1
  <2>1. DOMAIN before = DOMAIN v.turns /\ Len(before) = Len(v.turns)
    BY <1>2, <1>4 DEF Entered
  <2> QED BY <1>2, <2>1
<1> QED BY <1>1, <1>10, <1>12, <1>13 DEF Log!Next, before

\* Every step of the store is a step of ConversationLog or leaves it as it
\* is.
THEOREM Implements == Spec => RemembersConversations
<1>1. Init => Log!Init
  BY DEF Init, Log!Init
<1>2. TypeOK /\ [Next]_vars => Log!Next
  BY StoresIsRemember, OpensIsOpen, TouchesIsForget, StepCases
<1> QED BY <1>1, <1>2, MemoryTypeCorrect, PTL
        DEF Spec, RemembersConversations, Log!Spec
=============================================================================

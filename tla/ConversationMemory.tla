------------------------- MODULE ConversationMemory -------------------------
(***************************************************************************)
(* InMemoryConversationStore (memory/in_memory.py): the process-local      *)
(* store of conversation turns with its limits, time to live, least        *)
(* recently used eviction, ownership and idempotency.                      *)
(*                                                                         *)
(* No operation suspends between taking the session's lock and releasing   *)
(* it, nor inside cleanup_expired, so each is one action.  The wall clock  *)
(* advances between operations.  The order of the dictionary decides which *)
(* of several expired sessions a bounded scan meets and which of several   *)
(* equally old ones is evicted; here any of them may be.                   *)
(***************************************************************************)
EXTENDS Naturals, FiniteSets, SequencesExt

CONSTANTS
    SessionIds, Owners, RequestIds,
    Contents,       \* what a turn says: messages, route, status, references
    CharactersOf,   \* combined message length of a content
    ReferencesOf,   \* number of evidence references of a content
    MaxSessions,    \* memory_max_sessions
    MaxTurns,       \* memory_max_turns_per_session
    MaxCharacters,  \* memory_max_total_characters
    MaxReferences,  \* memory_max_evidence_references
    TTL,            \* memory_session_ttl_seconds
    ScanLimit,      \* the 100 of _make_capacity and cleanup_expired
    MaxTime,        \* bound: the last value of the clock
    MaxWrites       \* bound: turns ever stored in one session

\* Field bounds of RetrievalSettings; the service truncates the references.
ASSUME SizesAssumption ==
    /\ CharactersOf \in [Contents -> Nat]
    /\ ReferencesOf \in [Contents -> 0 .. MaxReferences]
ASSUME LimitsAssumption ==
    /\ MaxSessions \in Nat \ {0}
    /\ MaxTurns \in Nat \ {0}
    /\ MaxCharacters \in Nat \ {0}
    /\ MaxReferences \in Nat \ {0}
    /\ TTL \in Nat \ {0}
    /\ ScanLimit \in Nat \ {0}
ASSUME ModelBounds == MaxTime \in Nat /\ MaxWrites \in Nat

VARIABLES
    sessions,  \* _sessions, a dictionary of _Session
    now,       \* the clock
    reply      \* the result of the last operation, or the error it raised

vars == <<sessions, now, reply>>

Turns == [request : RequestIds, content : Contents, by : Owners,
          sequence : Nat \ {0}]

Session == [owner : Owners, turns : Seq(Turns), next : Nat \ {0},
            expires : Nat, accessed : Nat]

Outcomes == {"ready", "found", "missing", "stored", "duplicate", "deleted",
             "cleaned", "ownership", "integrity", "capacity"}

Replies == [outcome : Outcomes, session : SUBSET SessionIds,
            to : SUBSET Owners, turns : Seq(Turns)]

Reply(outcome, s, o, turns) ==
    reply' = [outcome |-> outcome, session |-> {s}, to |-> {o},
              turns |-> turns]

-----------------------------------------------------------------------------
(* Dictionaries and limits.                                                *)

Without(d, gone) == [s \in DOMAIN d \ gone |-> d[s]]

With(d, s, session) ==
    [x \in DOMAIN d \cup {s} |-> IF x = s THEN session ELSE d[x]]

Live(s) == s \in DOMAIN sessions /\ sessions[s].expires > now

Lapsed == {s \in DOMAIN sessions : sessions[s].expires <= now}

\* The expired sessions that a bounded scan removes.
Batches(expired) ==
    IF Cardinality(expired) <= ScanLimit THEN {expired}
    ELSE {b \in SUBSET expired : Cardinality(b) = ScanLimit}

Total(size, turns) ==
    FoldSeq(LAMBDA t, sum : size[t.content] + sum, 0, turns)

Fits(turns) ==
    /\ Len(turns) <= MaxTurns
    /\ Total(CharactersOf, turns) <= MaxCharacters
    /\ Total(ReferencesOf, turns) <= MaxReferences

From(turns, k) == SubSeq(turns, k + 1, Len(turns))

\* Mutant: the turn count alone ends the loop.
EvictTurnsByCount(turns, k) ==
    /\ Len(From(turns, k)) <= MaxTurns
    /\ \A j \in 0 .. k - 1 : Len(From(turns, j)) > MaxTurns

\* _evict_turns drops the oldest k: the loop stops at the first k after
\* which the rest fits, or with no turns left.
EvictTurns(turns, k) ==
    /\ k = Len(turns) \/ Fits(From(turns, k))
    /\ \A j \in 0 .. k - 1 : ~Fits(From(turns, j))

\* Mutant: room is made of the session that would expire first.
MakeCapacityByExpiry(d, gone) ==
    \E expired \in Batches({s \in DOMAIN d : d[s].expires <= now}) :
        LET kept == DOMAIN d \ expired
        IN IF Cardinality(kept) < MaxSessions THEN gone = expired
           ELSE \E v \in kept :
                   /\ \A u \in kept : d[v].expires <= d[u].expires
                   /\ gone = expired \cup {v}

\* _make_capacity: some expired sessions, then the least recently used one
\* if the store is still full.
MakeCapacity(d, gone) ==
    \E expired \in Batches({s \in DOMAIN d : d[s].expires <= now}) :
        LET kept == DOMAIN d \ expired
        IN IF Cardinality(kept) < MaxSessions THEN gone = expired
           ELSE \E v \in kept :
                   /\ \A u \in kept : d[v].accessed <= d[u].accessed
                   /\ gone = expired \cup {v}

-----------------------------------------------------------------------------
(* Operations.                                                             *)

\* Mutant: the first turn has number zero.
NewSessionFromZero(o) == [owner |-> o, turns |-> <<>>, next |-> 0,
                          expires |-> now + TTL, accessed |-> now]

NewSession(o) == [owner |-> o, turns |-> <<>>, next |-> 1,
                  expires |-> now + TTL, accessed |-> now]

Turn(session, o, q, c) == [request |-> q, content |-> c, by |-> o,
                           sequence |-> session.next]

\* Mutant: the sequence number is the position in the session.
StoredByPosition(session, o, q, c, k) ==
    LET turns == Append(session.turns,
                        [Turn(session, o, q, c) EXCEPT
                            !.sequence = Len(session.turns) + 1])
    IN [session EXCEPT !.turns = From(turns, k), !.next = @ + 1,
                       !.accessed = now, !.expires = now + TTL]

\* The session after a turn was appended and the oldest k were evicted.
StoredIn(session, o, q, c, k) ==
    LET turns == Append(session.turns, Turn(session, o, q, c))
    IN [session EXCEPT !.turns = From(turns, k), !.next = @ + 1,
                       !.accessed = now, !.expires = now + TTL]

TooLarge(c) == CharactersOf[c] > MaxCharacters

\* The ownership is compared before the expiry, so another owner's expired
\* session is refused here and not removed.
LoadRefused(s, o) ==
    /\ s \in DOMAIN sessions /\ sessions[s].owner # o
    /\ Reply("ownership", s, o, <<>>)
    /\ UNCHANGED <<sessions, now>>

\* Mutant: an expired session is still served.
LoadStale(s, o) ==
    /\ s \in DOMAIN sessions /\ sessions[s].owner = o
    /\ sessions' = [sessions EXCEPT ![s].accessed = now]
    /\ Reply("found", s, o, sessions[s].turns)
    /\ UNCHANGED now

LoadFound(s, o) ==
    /\ Live(s) /\ sessions[s].owner = o
    /\ sessions' = [sessions EXCEPT ![s].accessed = now]
    /\ Reply("found", s, o, sessions[s].turns)
    /\ UNCHANGED now

LoadMissing(s, o) ==
    /\ s \in DOMAIN sessions => sessions[s].owner = o /\ ~Live(s)
    /\ sessions' = Without(sessions, {s})
    /\ Reply("missing", s, o, <<>>)
    /\ UNCHANGED now

\* upsert_turn into a new session: absent or expired.  A turn that is too
\* large is refused after room was made and the session created.
UpsertFirst(s, o, q, c) ==
    LET d == Without(sessions, {s})
    IN /\ ~Live(s)
       /\ \E gone \in SUBSET DOMAIN d :
             /\ MakeCapacity(d, gone)
             /\ IF TooLarge(c)
                THEN /\ sessions' = With(Without(d, gone), s, NewSession(o))
                     /\ Reply("capacity", s, o, <<>>)
                ELSE \E k \in 0 .. 1 :
                        /\ EvictTurns(<<Turn(NewSession(o), o, q, c)>>, k)
                        /\ sessions' = With(Without(d, gone), s,
                                     StoredIn(NewSession(o), o, q, c, k))
                        /\ Reply("stored", s, o, <<>>)
       /\ UNCHANGED now

UpsertRefused(s, o) ==
    /\ Live(s) /\ sessions[s].owner # o
    /\ Reply("ownership", s, o, <<>>)
    /\ UNCHANGED <<sessions, now>>

Holds(session, q) ==
    \E i \in DOMAIN session.turns : session.turns[i].request = q

\* The same request again: accepted and ignored if it says the same.
UpsertAgain(s, o, q, c) ==
    /\ Live(s) /\ sessions[s].owner = o /\ Holds(sessions[s], q)
    /\ Reply(IF \E i \in DOMAIN sessions[s].turns :
                   sessions[s].turns[i].request = q
                   /\ sessions[s].turns[i].content = c
             THEN "duplicate" ELSE "integrity", s, o, <<>>)
    /\ UNCHANGED <<sessions, now>>

UpsertTooLarge(s, o, q, c) ==
    /\ Live(s) /\ sessions[s].owner = o /\ ~Holds(sessions[s], q)
    /\ TooLarge(c)
    /\ Reply("capacity", s, o, <<>>)
    /\ UNCHANGED <<sessions, now>>

\* Mutant: a request already stored is stored again.
UpsertAlways(s, o, q, c) ==
    /\ Live(s) /\ sessions[s].owner = o /\ ~TooLarge(c)
    /\ sessions[s].next <= MaxWrites
    /\ \E k \in 0 .. Len(sessions[s].turns) + 1 :
          /\ EvictTurns(Append(sessions[s].turns,
                               Turn(sessions[s], o, q, c)), k)
          /\ sessions' = [sessions EXCEPT ![s] = StoredIn(@, o, q, c, k)]
    /\ Reply("stored", s, o, <<>>)
    /\ UNCHANGED now

UpsertNext(s, o, q, c) ==
    /\ Live(s) /\ sessions[s].owner = o /\ ~Holds(sessions[s], q)
    /\ ~TooLarge(c)
    /\ sessions[s].next <= MaxWrites
    /\ \E k \in 0 .. Len(sessions[s].turns) + 1 :
          /\ EvictTurns(Append(sessions[s].turns,
                               Turn(sessions[s], o, q, c)), k)
          /\ sessions' = [sessions EXCEPT ![s] = StoredIn(@, o, q, c, k)]
    /\ Reply("stored", s, o, <<>>)
    /\ UNCHANGED now

\* An owner deletes the session, expired or not.
Delete(s, o) ==
    /\ s \in DOMAIN sessions /\ sessions[s].owner = o
    /\ sessions' = Without(sessions, {s})
    /\ Reply("deleted", s, o, <<>>)
    /\ UNCHANGED now

DeleteRefused(s, o) ==
    /\ s \in DOMAIN sessions /\ sessions[s].owner # o
    /\ Reply("ownership", s, o, <<>>)
    /\ UNCHANGED <<sessions, now>>

CleanupExpired ==
    /\ \E expired \in Batches(Lapsed) :
          sessions' = Without(sessions, expired)
    /\ reply' = [outcome |-> "cleaned", session |-> {}, to |-> {},
                 turns |-> <<>>]
    /\ UNCHANGED now

\* The clock advances; the last result has been consumed.
Tick ==
    /\ now < MaxTime
    /\ now' = now + 1
    /\ reply' = [outcome |-> "ready", session |-> {}, to |-> {},
                 turns |-> <<>>]
    /\ UNCHANGED sessions

-----------------------------------------------------------------------------

Init ==
    /\ sessions = <<>>
    /\ now = 0
    /\ reply = [outcome |-> "ready", session |-> {}, to |-> {},
                turns |-> <<>>]

Load(s, o) == LoadRefused(s, o) \/ LoadFound(s, o) \/ LoadMissing(s, o)

Upsert(s, o, q, c) ==
    \/ UpsertFirst(s, o, q, c)
    \/ UpsertRefused(s, o)
    \/ UpsertAgain(s, o, q, c)
    \/ UpsertTooLarge(s, o, q, c)
    \/ UpsertNext(s, o, q, c)

DeleteSession(s, o) == Delete(s, o) \/ DeleteRefused(s, o)

Next ==
    \/ \E s \in SessionIds, o \in Owners :
          \/ Load(s, o)
          \/ \E q \in RequestIds, c \in Contents : Upsert(s, o, q, c)
          \/ DeleteSession(s, o)
    \/ CleanupExpired
    \/ Tick

Spec == Init /\ [][Next]_vars

-----------------------------------------------------------------------------
(* What the store guarantees.                                              *)

\* Every variable has its type.
TypeOK ==
    /\ DOMAIN sessions \subseteq SessionIds
    /\ \A s \in DOMAIN sessions : sessions[s] \in Session
    /\ now \in Nat
    /\ reply \in Replies

\* Every limit holds after every operation: sessions in the store, turns,
\* characters and references in a session (make room before a session is
\* created, evict turns after one is appended).
WithinLimits ==
    /\ Cardinality(DOMAIN sessions) <= MaxSessions
    /\ \A s \in DOMAIN sessions :
          sessions[s].turns # <<>> => Fits(sessions[s].turns)

\* The turns of a session are its newest ones, in the order they were stored
\* and without a gap: their numbers count up to the last one given out.
NewestTurnsKept ==
    \A s \in DOMAIN sessions :
        LET turns == sessions[s].turns
        IN \A i \in DOMAIN turns :
              turns[i].sequence + (Len(turns) - i) + 1 = sessions[s].next

\* What is returned to a reader was written by that reader, and the session
\* had not expired.
OwnLiveTurnsRead ==
    [][reply'.outcome = "found" =>
          /\ \A i \in DOMAIN reply'.turns : reply'.to = {reply'.turns[i].by}
          /\ \A s \in reply'.session : sessions[s].expires > now]_vars

\* A session that has not expired disappears only when its owner deletes it,
\* or when it makes room for a new one in a store full of such sessions, none
\* of which was used less recently.
LiveSessionsSurvive ==
    [][\A s \in DOMAIN sessions \ DOMAIN sessions' :
          Live(s) =>
             \/ /\ reply'.outcome = "deleted"
                /\ reply'.session = {s} /\ reply'.to = {sessions[s].owner}
             \/ /\ Cardinality(DOMAIN sessions) >= MaxSessions
                /\ DOMAIN sessions' \ DOMAIN sessions # {}
                /\ \A u \in DOMAIN sessions :
                      /\ Live(u)
                      /\ sessions[s].accessed <= sessions[u].accessed]_vars

\* The conversation a session stands for: its numbers and times are left out.
Entry(turn) == [request |-> turn.request, content |-> turn.content,
                by |-> turn.by]

Conversation(session) ==
    [owner |-> session.owner,
     turns |-> [i \in DOMAIN session.turns |-> Entry(session.turns[i])]]

Log == INSTANCE ConversationLog WITH
    log <- [s \in DOMAIN sessions |-> Conversation(sessions[s])]

\* The store remembers conversations as ConversationLog says, whatever its
\* limits and its clock do.
RemembersConversations == Log!Spec
=============================================================================

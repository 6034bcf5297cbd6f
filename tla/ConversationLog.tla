--------------------------- MODULE ConversationLog ---------------------------
(***************************************************************************)
(* What a conversation store promises, without clock, limits or locks: a   *)
(* conversation belongs to one owner, grows at its end by turns of that    *)
(* owner, one per request, loses turns only at its front, and is forgotten *)
(* only as a whole.                                                        *)
(***************************************************************************)
EXTENDS Naturals, Sequences

CONSTANTS SessionIds, Owners, RequestIds, Contents

VARIABLE log  \* the conversations remembered: session -> owner and turns

Entries == [request : RequestIds, content : Contents, by : Owners]

Conversations == [owner : Owners, turns : Seq(Entries)]

\* The conversation of s after the sessions in gone were forgotten.
EntriesAfter(s, gone) ==
    IF s \in DOMAIN log \ gone THEN log[s].turns ELSE <<>>

\* Only the sessions in gone are forgotten, and s is owned by o, as it was if
\* it was not forgotten.
Writes(s, o, gone) ==
    /\ s \in DOMAIN log \ gone => log[s].owner = o
    /\ DOMAIN log' = (DOMAIN log \ gone) \cup {s}
    /\ log'[s].owner = o

Record(s, conversation, gone) ==
    log' = [x \in (DOMAIN log \ gone) \cup {s} |->
               IF x = s THEN conversation ELSE log[x]]

\* A turn of a request not yet in the conversation; the oldest k are dropped.
Remember(s, o, q, c, gone, k) ==
    LET turns == Append(EntriesAfter(s, gone),
                        [request |-> q, content |-> c, by |-> o])
    IN /\ \A i \in DOMAIN EntriesAfter(s, gone) :
             EntriesAfter(s, gone)[i].request # q
       /\ k <= Len(turns)
       /\ Record(s, [owner |-> o, turns |-> SubSeq(turns, k + 1, Len(turns))],
                 gone)

\* A conversation without turns.
Open(s, o, gone) ==
    /\ s \notin DOMAIN log \ gone
    /\ Record(s, [owner |-> o, turns |-> <<>>], gone)

Forget(gone) == log' = [x \in DOMAIN log \ gone |-> log[x]]

Init == log = <<>>

Next ==
    \E gone \in SUBSET DOMAIN log :
        \/ Forget(gone)
        \/ \E s \in SessionIds, o \in Owners :
              /\ Writes(s, o, gone)
              /\ \/ Open(s, o, gone)
                 \/ \E q \in RequestIds, c \in Contents :
                       \E k \in 0 .. Len(EntriesAfter(s, gone)) + 1 :
                          Remember(s, o, q, c, gone, k)

Spec == Init /\ [][Next]_log
=============================================================================

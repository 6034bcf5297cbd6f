------------------------ MODULE MCConversationMemory ------------------------
(***************************************************************************)
(* Instances of ConversationMemory for TLC.                                *)
(***************************************************************************)
EXTENDS ConversationMemory

CONSTANTS brief, long, huge  \* three sizes of a turn

\* With four characters, three references and two turns per session each of
\* the three limits is the first to bind for some order of turns; a huge turn
\* fits in none.
MCCharactersOf == [c \in Contents |->
    CASE c = brief -> 1 [] c = long -> 3 [] c = huge -> 5]

MCReferencesOf == [c \in Contents |-> IF c = brief THEN 2 ELSE 0]

\* No operation reads the last reply, so states that differ in it alone have
\* the same steps; TLC judges the action properties on every step it takes.
MCView == <<sessions, now>>

MCSymmetry == Permutations(SessionIds) \cup Permutations(Owners)
                \cup Permutations(RequestIds)
=============================================================================

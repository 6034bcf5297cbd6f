--------------------------- MODULE StreamContract ---------------------------
(***************************************************************************)
(* What a chat stream may look like to its client: the envelopes that the  *)
(* frontend's StreamContractValidator accepts, one after the other         *)
(* (frontend/enterprise_ai_frontend/sse.py).  It refuses everything after  *)
(* a terminal envelope, a gap or a repetition in the sequence, a response  *)
(* that belongs to another request, and a terminal envelope that does not  *)
(* agree with the response it carries.                                     *)
(***************************************************************************)
EXTENDS Naturals

VARIABLES accepted, \* how many envelopes were accepted: _expected_sequence
          last      \* the newest of them

contractVars == <<accepted, last>>

Terminal == {"response.completed", "response.failed", "stream.error"}

\* The response of an envelope: none, or one of this or another request and
\* the status it reports.
Responses == [of : {"none", "this", "earlier"}, failed : BOOLEAN]

Envelopes == [sequence : Nat,
              type : Terminal \cup {"stream.started", "activity"},
              response : Responses]

NoResponse == [of |-> "none", failed |-> FALSE]

Nothing == [sequence |-> 0, type |-> "activity", response |-> NoResponse]

\* accept()
Accept(m) ==
    /\ last.type \notin Terminal
    /\ m.sequence = accepted
    /\ m.response.of # "earlier"
    /\ m.type = "response.completed" => m.response.of = "this"
    /\ m.type = "response.failed" => m.response.of = "this" /\ m.response.failed
    /\ accepted' = accepted + 1
    /\ last' = m

ContractInit == accepted = 0 /\ last = Nothing

\* Every stream gets a validator of its own.
Anew == accepted' = 0 /\ last' = Nothing

\* The client takes one envelope after the other.
ContractNext ==
    \/ Anew
    \/ last' \in Envelopes /\ Accept(last')

Contract == ContractInit /\ [][ContractNext]_contractVars
=============================================================================

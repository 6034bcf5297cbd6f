----------------------------- MODULE DenseIndex -----------------------------
(***************************************************************************)
(* `retrieval.cli index` (retrieval/indexer.py): the chunks of the current *)
(* build are embedded and upserted in batches into a Pinecone namespace,   *)
(* each batch retried on transient failures, and read back at the end.     *)
(*                                                                         *)
(* Pinecone is modelled from how the code treats it: it may apply a batch  *)
(* whose answer is lost, acknowledge one it does not keep, and answer a    *)
(* read with any version of a record it was ever sent.  Nothing deletes a  *)
(* record, so those of earlier builds stay.  The batches of a build are    *)
(* one, of which any part may arrive; vectors and their dimension are left *)
(* out.                                                                    *)
(***************************************************************************)
EXTENDS KnowledgeFiles

CONSTANT MaxRetries     \* pinecone_max_retries

ASSUME RetriesAssumption == MaxRetries \in Nat

VARIABLES
    written,    \* per chunk: the builds whose record of it Pinecone has
    tries,      \* failed attempts at the current batch
    indexed     \* history: the build of the last index command that succeeded

dense == <<written, tries, indexed>>

DenseInit ==
    /\ written = [c \in Chunks |-> {}]
    /\ tries = 0
    /\ indexed = 0

\* What a fetch or a query by chunk may answer with.
Records == {r \in [chunk : Chunks, build : Builds] : r.build \in written[r.chunk]}

\* index() loads the current chunks.
IndexLoads ==
    /\ Idle /\ Loadable
    /\ job' = [kind |-> "index", at |-> "bootstrapping", build |-> root.managed,
               before |-> Absent]
    /\ UNCHANGED <<source, files, past, faults, dense>>

\* bootstrap finds or creates the Pinecone index and waits until it is ready;
\* then the chunks are embedded.
IndexIsReady ==
    /\ At("index", "bootstrapping")
    /\ Proceed("upserting")
    /\ UNCHANGED <<source, files, past, faults, dense>>

\* The upserts of the build: any of their records may have arrived.
Upsert ==
    \E arrived \in SUBSET Ids(job.build) :
        written' = [c \in Chunks |->
                       IF c \in arrived THEN written[c] \cup {job.build} ELSE written[c]]

UpsertAcknowledged ==
    /\ At("index", "upserting")
    /\ Upsert
    /\ tries' = 0
    /\ Proceed("verifying")
    /\ UNCHANGED <<source, files, past, faults, indexed>>

\* with_retries: a transient failure is tried again.
UpsertRetried ==
    /\ At("index", "upserting") /\ tries < MaxRetries
    /\ Upsert
    /\ tries' = tries + 1
    /\ UNCHANGED <<knowledge, indexed>>

\* A call fails for good or times out, the last retry fails, an upsert is
\* reported partial, or a record is not read back: the command ends, and
\* what arrived stays.
IndexFails ==
    /\ job.kind = "index"
    /\ UNCHANGED written \/ (At("index", "upserting") /\ Upsert)
    /\ tries' = 0
    /\ Finish
    /\ UNCHANGED <<source, files, past, faults, indexed>>

\* Mutant: a record of any build will do.
VerifiedById(c, b) == \E r \in Records : r.chunk = c

\* verify reads every chunk of the build back under its fingerprint.
Verified(c, b) == [chunk |-> c, build |-> b] \in Records

IndexVerifies ==
    /\ At("index", "verifying")
    /\ \A c \in Ids(job.build) : Verified(c, job.build)
    /\ indexed' = job.build
    /\ Finish
    /\ UNCHANGED <<source, files, past, faults, written, tries>>

DenseNext ==
    \/ IndexLoads \/ IndexIsReady
    \/ UpsertAcknowledged \/ UpsertRetried \/ IndexFails \/ IndexVerifies

DenseTypeOK ==
    /\ written \in [Chunks -> SUBSET Builds]
    /\ tries \in 0..MaxRetries
    /\ indexed \in 0..MaxBuilds

(***************************************************************************)
(* When the index command reports success, Pinecone has every chunk of     *)
(* that build under that build's fingerprint, although upserts are retried *)
(* blindly and an acknowledgement is no proof.                             *)
(***************************************************************************)
IndexedMeansStored ==
    indexed # 0 => \A c \in Ids(indexed) : indexed \in written[c]

=============================================================================

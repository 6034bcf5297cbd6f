---------------------------- MODULE HybridSearch ----------------------------
(***************************************************************************)
(* One hybrid search (retrieval/hybrid/retriever.py) while the operator's  *)
(* commands replace the files it reads.  The two branches share one event  *)
(* loop: the dense one runs to its first await, then the whole sparse one, *)
(* which has none (so its timeout never fires), then the rest of the dense *)
(* one.  The commands are other processes and run between any two reads.   *)
(*                                                                         *)
(* The principal has a role; what it may read of a build is in Corpus.     *)
(* The identifiers of a query stand for the chunks that mention them.      *)
(* Scores are left out: of the candidates a branch may keep, it keeps any. *)
(***************************************************************************)
EXTENDS DenseIndex

CONSTANTS
    Queries,        \* what is asked: whether it names identifiers, the chunks with them,
                    \* and whether its filter is broader than the role's access
    AllowPartial    \* hybrid_allow_partial_results

ASSUME SearchAssumption ==
    /\ AllowPartial \in BOOLEAN
    /\ Queries \subseteq [names : BOOLEAN, named : SUBSET Chunks, broad : BOOLEAN]
    /\ Absent \notin Roles

VARIABLE search

vars == <<knowledge, dense, search>>

\* The evidence of a chunk: the build it is attributed to and the build
\* whose access metadata it carries.
Evidence == [chunk : Chunks, label : Builds, acl : Builds]

Waiting == [status |-> "waiting", items |-> {}]
Failed == [status |-> "failed", items |-> {}]
Answered(status, items) == [status |-> status, items |-> items]

Ready == [at |-> "ready", role |-> Absent, names |-> FALSE, named |-> {}, broad |-> FALSE,
          since |-> 0, fingerprint |-> 0, exact |-> {}, sm |-> 0, m |-> 0,
          tries |-> 0, dense |-> Waiting, sparse |-> Waiting, result |-> Waiting]

SearchInit == search = Ready

SearchAt(step) == search.at = step

\* is_document_authorized, with the metadata of a build.
Authorized(role, b, c) == c \in Ids(b) /\ role \in Corpus[b][c]

\* matching_document_ids: the chunks of a build that mention the identifiers.
Exact(b) == IF search.names THEN search.named \cap Ids(b) ELSE Ids(b)

\* load_current_chunks refuses a manifest and chunks that differ in number.
Consistent(m, c) == Cardinality(Ids(m)) = Cardinality(Ids(c))

\* The dense branch stops at its first await, or for good, and the loop
\* turns to the sparse one.
DenseEnds(out) == search' = [search EXCEPT !.at = "sparse_files", !.dense = out]

SparseEnds(out) ==
    search' = [search EXCEPT !.at = IF search.dense = Waiting THEN "embed" ELSE "join",
                             !.sm = 0, !.m = 0, !.sparse = out]

\* The search returns or raises; its local state is gone.
SearchEnds(out) ==
    search' = [Ready EXCEPT !.at = "done", !.role = search.role,
                            !.names = search.names, !.named = search.named,
                            !.broad = search.broad, !.since = search.since,
                            !.result = out]

\* The search starts.
SearchStarts ==
    /\ SearchAt("ready")
    /\ \E role \in Roles, q \in Queries :
          search' = [Ready EXCEPT !.at = "dense_manifest", !.role = role,
                              !.names = q.names, !.named = q.named,
                              !.broad = q.broad, !.since = published]

(***************************************************************************)
(* load_current_chunks, in two reads: the directory is validated and the   *)
(* manifest read, then the chunks.                                         *)
(***************************************************************************)
DenseReadsManifest ==
    /\ SearchAt("dense_manifest") /\ Loadable
    /\ search' = [search EXCEPT !.at = "dense_chunks", !.fingerprint = root.managed]

DenseReadsChunks ==
    /\ SearchAt("dense_chunks") /\ Loadable
    /\ Consistent(search.fingerprint, root.managed)
    /\ ~search.names \/ Exact(root.managed) # {}
    /\ search' = [search EXCEPT !.at = "sparse_files", !.exact = Exact(root.managed)]

\* Identifiers that no document has end the branch with nothing.
DenseFindsNoDocument ==
    /\ SearchAt("dense_chunks") /\ Loadable
    /\ Consistent(search.fingerprint, root.managed)
    /\ search.names /\ Exact(root.managed) = {}
    /\ DenseEnds(Answered("answered", {}))

\* A read finds no directory, one that is being exchanged, or an error.
DenseReadFails ==
    /\ search.at \in {"dense_manifest", "dense_chunks"}
    /\ DenseEnds(Failed)

(***************************************************************************)
(* The sparse branch.  validate_sparse reads the sparse files, loads the   *)
(* current chunks and compares the files with what they should contain;    *)
(* the manifest of the index covers the build it was made from and the     *)
(* index the chunks of that build.                                         *)
(***************************************************************************)
SparseReadsFiles ==
    /\ SearchAt("sparse_files") /\ Loadable /\ root.index # 0 /\ root.manifest # 0
    /\ search' = [search EXCEPT !.at = "check_manifest", !.sm = root.manifest]

CheckReadsManifest ==
    /\ SearchAt("check_manifest") /\ Loadable
    /\ search' = [search EXCEPT !.at = "check_chunks", !.m = root.managed]

CheckReadsChunks ==
    /\ SearchAt("check_chunks") /\ Loadable
    /\ Consistent(search.m, root.managed)
    /\ root.index # 0
    /\ search.sm = search.m
    /\ Ids(root.managed) = Ids(search.sm) /\ Ids(root.index) = Ids(root.managed)
    /\ search' = [search EXCEPT !.at = "sparse_manifest"]

SparseReadsManifest ==
    /\ SearchAt("sparse_manifest") /\ Loadable
    /\ search' = [search EXCEPT !.at = "sparse_chunks", !.m = root.managed]

\* The chunks that may be scored: indexed, authorized, and exact.
Candidates(b) ==
    {c \in Exact(b) \cap Ids(root.index) : Authorized(search.role, b, c)}

SparseScores ==
    /\ SearchAt("sparse_chunks") /\ Loadable /\ root.index # 0
    /\ Consistent(search.m, root.managed)
    /\ ~search.broad
    /\ search.sm = search.m
    /\ \E found \in SUBSET Candidates(root.managed) :
          SparseEnds(Answered("answered",
              {[chunk |-> c, label |-> search.m, acl |-> root.managed] : c \in found}))

\* A read fails, a file is stale, or the filter is too broad.
SparseFailsSafely ==
    /\ search.at \in {"sparse_files", "check_manifest", "check_chunks",
                      "sparse_manifest", "sparse_chunks"}
    /\ SparseEnds(Failed)

(***************************************************************************)
(* The rest of the dense branch.                                           *)
(***************************************************************************)

\* The query is embedded; a filter that is too broad is refused only here.
QueryEmbedded ==
    /\ SearchAt("embed") /\ ~search.broad
    /\ search' = [search EXCEPT !.at = "query"]

QueryRetried ==
    /\ SearchAt("query") /\ search.tries < MaxRetries
    /\ search' = [search EXCEPT !.tries = @ + 1]

\* Mutant: the fingerprint is not compared.
ParsedAnyBuild(r) == TRUE

\* _parse_match: a record of another build is malformed.
Parsed(r) == r.build = search.fingerprint

\* Mutant: the provider's filter is trusted.
KeptAsFiltered(matches) ==
    {r \in matches : Parsed(r) /\ (search.names => r.chunk \in search.exact)}

\* What is kept of the matches: parsed, authorized once more, and exact.
Kept(matches) ==
    {r \in matches : /\ Parsed(r)
                     /\ Authorized(search.role, r.build, r.chunk)
                     /\ search.names => r.chunk \in search.exact}

QueryAnswered ==
    /\ SearchAt("query")
    /\ \E matches \in SUBSET Records :
          LET found == {[chunk |-> r.chunk, label |-> r.build, acl |-> r.build] :
                          r \in Kept(matches)}
          IN search' = [search EXCEPT !.at = "join", !.tries = 0,
                                      !.dense = Answered("answered", found)]

\* A provider call fails, or the filter is refused.
DenseCallFails ==
    /\ search.at \in {"embed", "query"}
    /\ search' = [search EXCEPT !.at = "join", !.tries = 0, !.dense = Failed]

\* Mutant: only the embedding has a timeout.
EmbeddingTimesOut ==
    /\ SearchAt("embed")
    /\ search' = [search EXCEPT !.at = "join", !.tries = 0, !.dense = Failed]

\* One of the timeouts around the embedding, the query and the branch.
DenseTimesOut ==
    /\ search.at \in {"embed", "query"}
    /\ search' = [search EXCEPT !.at = "join", !.tries = 0, !.dense = Failed]

\* The request is cancelled at an await.
SearchCancelled ==
    /\ search.at \in {"embed", "query"}
    /\ SearchEnds(Failed)

(***************************************************************************)
(* The join.                                                               *)
(***************************************************************************)
Failures == {b \in {"dense", "sparse"} : search[b] = Failed}

Usable == Failures = {} \/ (Cardinality(Failures) = 1 /\ AllowPartial)

\* fuse: a chunk both branches found must carry the same attribution.
Disagree(d, s) ==
    /\ d.chunk = s.chunk
    /\ d.label # s.label \/ Corpus[d.acl][d.chunk] # Corpus[s.acl][s.chunk]

Fused ==
    search.dense.items \cup
    {s \in search.sparse.items : \A d \in search.dense.items : d.chunk # s.chunk}

SearchFails ==
    /\ SearchAt("join")
    /\ \/ ~Usable
       \/ \E d \in search.dense.items, s \in search.sparse.items : Disagree(d, s)
    /\ SearchEnds(Failed)

SearchAnswers ==
    /\ SearchAt("join") /\ Usable
    /\ \A d \in search.dense.items, s \in search.sparse.items : ~Disagree(d, s)
    /\ SearchEnds(Answered(IF Failures = {} THEN "complete" ELSE "partial", Fused))

\* What the process does by itself, and the timers it has set.
SearchRuns ==
    \/ DenseReadsManifest \/ DenseReadsChunks \/ DenseFindsNoDocument \/ DenseReadFails
    \/ SparseReadsFiles \/ CheckReadsManifest \/ CheckReadsChunks
    \/ SparseReadsManifest \/ SparseScores \/ SparseFailsSafely
    \/ DenseTimesOut
    \/ SearchFails \/ SearchAnswers

\* What others decide.
SearchMeets ==
    \/ SearchStarts
    \/ QueryEmbedded \/ QueryRetried \/ QueryAnswered \/ DenseCallFails
    \/ SearchCancelled

Init == KnowledgeInit /\ DenseInit /\ SearchInit

Next ==
    \/ KnowledgeNext /\ UNCHANGED <<dense, search>>
    \/ DenseNext /\ UNCHANGED search
    \/ (SearchRuns \/ SearchMeets) /\ UNCHANGED <<knowledge, dense>>

Spec ==
    /\ Init /\ [][Next]_vars
    /\ WF_vars(SearchRuns /\ UNCHANGED <<knowledge, dense>>)

(***************************************************************************)
(* Properties.                                                             *)
(***************************************************************************)

Outcomes == [status : {"waiting", "failed", "answered", "complete", "partial"},
             items : SUBSET Evidence]

\* Every variable keeps its type.
TypeOK ==
    /\ KnowledgeTypeOK /\ DenseTypeOK
    /\ search \in
         [at : {"ready", "dense_manifest", "dense_chunks", "sparse_files",
                "check_manifest", "check_chunks", "sparse_manifest", "sparse_chunks",
                "embed", "query", "join", "done"},
          role : Roles \cup {Absent}, names : BOOLEAN,
          named : SUBSET Chunks, broad : BOOLEAN, since : 0..MaxBuilds, fingerprint : 0..MaxBuilds,
          exact : SUBSET Chunks, sm : 0..MaxBuilds, m : 0..MaxBuilds,
          tries : 0..MaxRetries, dense : Outcomes, sparse : Outcomes,
          result : Outcomes]

(***************************************************************************)
(* Every piece of evidence is attributed to a build that was published     *)
(* at some moment of the search, although Pinecone keeps the records of    *)
(* old builds and the files are exchanged between the reads.               *)
(***************************************************************************)
EvidenceIsCurrent ==
    \A e \in search.result.items : e.label \in search.since..published

(***************************************************************************)
(* The principal may read every piece of evidence, by the access metadata  *)
(* of a build that was published at some moment of the search; a search    *)
(* whose filter asks for more than the role may read finds nothing, and    *)
(* one that names identifiers finds only chunks that mention them.         *)
(***************************************************************************)
EvidenceIsPermitted ==
    \A e \in search.result.items :
        /\ e.acl \in search.since..published
        /\ Authorized(search.role, e.acl, e.chunk)
        /\ ~search.broad
        /\ search.names => e.chunk \in search.named

(***************************************************************************)
(* Every search ends: a provider that does not answer meets a timeout, and *)
(* a read that finds no directory fails.                                   *)
(***************************************************************************)
EverySearchEnds == SearchAt("dense_manifest") ~> SearchAt("done")

=============================================================================

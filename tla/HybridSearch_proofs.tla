------------------------- MODULE HybridSearch_proofs -------------------------
(***************************************************************************)
(* Proofs about the processed directory, the dense index and a search that *)
(* reads both, for any corpus and any number of builds and failures.       *)
(*                                                                         *)
(* The argument: only one command runs, and the directory in place is      *)
(* always the published build (PublishInv); a command that was not killed  *)
(* between two renames knows what to restore (RestoreInv); and whatever a  *)
(* search has read and not yet used is of a build published since it began *)
(* (SearchInv).                                                            *)
(***************************************************************************)
EXTENDS HybridSearch, TLAPS

Expected == [managed |-> published, index |-> kept[1], manifest |-> kept[2]]

\* The commands and the build they handle.
PublishInv ==
    /\ job.kind = "none" => job.at = "idle"
    /\ job.kind = "ingest" =>
         job.at \in {"loading", "loaded", "parsed", "staged", "cleared", "moved", "swapped"}
    /\ job.kind = "sparse" => job.at \in {"staged", "index_replaced"}
    /\ job.kind = "index" => job.at \in {"bootstrapping", "upserting", "verifying"}
    /\ published <= source
    /\ job.kind # "none" => job.build \in Builds /\ job.build <= source
    /\ job.kind = "ingest" => published <= job.build
    /\ root # Absent => root.managed = published
    /\ job.kind = "ingest" /\ job.at \in {"staged", "cleared", "moved"} =>
         temp # Absent /\ temp.managed = job.build
    /\ job.kind = "ingest" /\ job.at = "moved" =>
         root = Absent /\ (backup # Absent => backup.managed = published)
    /\ job.kind = "sparse" => root # Absent /\ job.before # Absent

\* What a command that fails leaves, and one that succeeds, is what is
\* expected, unless one was killed between two renames.
RestoreInv ==
    ~torn =>
        /\ ~(job.kind = "ingest" /\ job.at = "moved") =>
             (job.kind = "sparse" /\ job.at = "index_replaced") \/ root = Expected
        /\ job.kind = "ingest" /\ job.at \in {"staged", "cleared", "moved"} =>
             temp = [Expected EXCEPT !.managed = job.build]
        /\ job.kind = "ingest" /\ job.at = "moved" => backup = Expected
        /\ job.kind = "sparse" => job.before = Expected
        /\ job.kind = "sparse" /\ job.at = "index_replaced" =>
             root = [Expected EXCEPT !.index = job.build]

\* An item found so far may be part of the result.
Sound(e) ==
    /\ e.label \in search.since..published
    /\ e.acl \in search.since..published
    /\ Authorized(search.role, e.acl, e.chunk)
    /\ ~search.broad
    /\ search.names => e.chunk \in search.named

\* What the search has read is of builds published since it began.
SearchInv ==
    /\ search.at # "ready" => search.since \in 1..published
    /\ search.at = "ready" => search = Ready
    /\ search.at \notin {"ready", "dense_manifest", "done"} /\ search.dense = Waiting =>
         search.fingerprint \in search.since..published
    /\ search.at = "sparse_chunks" => search.m \in search.since..published
    /\ search.at = "query" => ~search.broad
    /\ search.names => search.exact \subseteq search.named
    /\ search.at \in {"dense_manifest", "dense_chunks", "embed", "query"} =>
         search.dense = Waiting
    /\ \A e \in search.dense.items \cup search.sparse.items \cup search.result.items : Sound(e)

(***************************************************************************)
(* The commands.                                                           *)
(***************************************************************************)

Files == KnowledgeTypeOK /\ PublishInv /\ RestoreInv

\* The directory is never one of its records.
LEMMA DirectoryIsThere ==
    /\ Absent \notin Directory
    /\ 1 \in Builds /\ Builds \subseteq Nat /\ Builds \subseteq 0..MaxBuilds
    /\ 0 \in 0..MaxBuilds /\ 1 \in 0..MaxBuilds
  BY KnowledgeAssumption DEF Directory, Builds

\* The numbers are numbers, and a directory that is there has its fields.
LEMMA FilesFields ==
    ASSUME KnowledgeTypeOK
    PROVE  /\ source \in Nat /\ published \in Nat /\ job.build \in Nat
           /\ published \in Builds
           /\ root # Absent => root \in Directory
  <1>1. job.build \in 0..MaxBuilds BY DEF KnowledgeTypeOK
  <1>2. job.build \in Nat BY <1>1, KnowledgeAssumption
  <1> QED BY <1>2, DirectoryIsThere DEF KnowledgeTypeOK

\* The files of the repository are those of its first build.
LEMMA FilesInit == KnowledgeInit => Files
  <1> SUFFICES ASSUME KnowledgeInit PROVE Files OBVIOUS
  <1> USE DirectoryIsThere DEF KnowledgeInit, NoJob, Shipped
  <1>1. root \in Directory /\ root # Absent BY DEF Directory
  <1>2. job.kind = "none" /\ job.at = "idle" /\ job.build = 0 /\ root.managed = 1 OBVIOUS
  <1>3. KnowledgeTypeOK
    <2>1. kept \in (0..MaxBuilds) \X (0..MaxBuilds) OBVIOUS
    <2>2. job \in [kind : {"none", "ingest", "sparse", "index"},
                   at : {"idle", "loading", "loaded", "parsed", "staged", "cleared", "moved",
                         "swapped", "index_replaced", "bootstrapping", "upserting", "verifying"},
                   build : 0..MaxBuilds, before : Directory \cup {Absent}]
      OBVIOUS
    <2>3. faults \in 0..MaxFaults BY KnowledgeAssumption
    <2> QED BY <1>1, <2>1, <2>2, <2>3 DEF KnowledgeTypeOK
  <1>4. PublishInv BY <1>2 DEF PublishInv
  <1>5. RestoreInv BY <1>2 DEF RestoreInv, Expected
  <1> QED BY <1>3, <1>4, <1>5 DEF Files

\* Every step of a command keeps the types.
LEMMA FilesTyped ==
    ASSUME Files, KnowledgeNext
    PROVE  KnowledgeTypeOK'
  <1> USE DirectoryIsThere, KnowledgeAssumption
      DEF Files, KnowledgeTypeOK, PublishInv, Idle, At, Proceed, Finish, Fault, NoJob,
          files, past, Directory, Builds
  <1>1. CASE EditSources BY <1>1 DEF EditSources
  <1>2. CASE IngestStarts BY <1>2 DEF IngestStarts
  <1>3. CASE ManifestLoaded BY <1>3 DEF ManifestLoaded
  <1>4. CASE DocumentsParsed BY <1>4 DEF DocumentsParsed
  <1>5. CASE RecordsStaged BY <1>5 DEF RecordsStaged, StagedBeside, SparsePair
  <1>6. CASE ManifestRefused BY <1>6 DEF ManifestRefused
  <1>7. CASE DocumentRefused BY <1>7 DEF DocumentRefused
  <1>8. CASE RecordsRefused BY <1>8 DEF RecordsRefused
  <1>9. CASE IngestClearsBackup BY <1>9 DEF IngestClearsBackup
  <1>10. CASE IngestMovesRoot BY <1>10 DEF IngestMovesRoot
  <1>11. CASE IngestSwaps BY <1>11 DEF IngestSwaps
  <1>12. CASE IngestCleans BY <1>12 DEF IngestCleans
  <1>13. CASE IngestSwapFails BY <1>13 DEF IngestSwapFails
  <1>14. CASE IngestFails BY <1>14 DEF IngestFails
  <1>15. CASE SparseStages BY <1>15 DEF SparseStages, Loadable
  <1>16. CASE SparseReplacesIndex BY <1>16 DEF SparseReplacesIndex
  <1>17. CASE SparseReplacesManifest BY <1>17 DEF SparseReplacesManifest, SparsePair
  <1>18. CASE SparseFails
    <2>1. /\ root \in Directory /\ job.before \in Directory
          /\ root' = [root EXCEPT !.index = job.before.index, !.manifest = job.before.manifest]
      BY <1>18 DEF SparseFails
    <2>2. root' \in Directory BY <2>1
    <2>3. /\ job' = NoJob /\ faults' \in 0..MaxFaults
          /\ source' = source /\ backup' = backup /\ temp' = temp
          /\ published' = published /\ kept' = kept /\ torn' = torn
      BY <1>18 DEF SparseFails
    <2> QED BY <2>2, <2>3
  <1>19. CASE Crash BY <1>19 DEF Crash
  <1> QED
    BY <1>1, <1>2, <1>3, <1>4, <1>5, <1>6, <1>7, <1>8, <1>9, <1>10, <1>11, <1>12,
       <1>13, <1>14, <1>15, <1>16, <1>17, <1>18, <1>19 DEF KnowledgeNext

\* Whatever the command does, the directory in place is the published build.
LEMMA FilesPublished ==
    ASSUME Files, KnowledgeNext
    PROVE  PublishInv' /\ published <= published'
  <1> USE DirectoryIsThere, FilesFields
      DEF Files, KnowledgeTypeOK, PublishInv, Idle, At, Proceed, Finish, NoJob, files, past,
          Directory, Builds
  <1>1. CASE EditSources BY <1>1 DEF EditSources
  <1>2. CASE IngestStarts BY <1>2 DEF IngestStarts
  <1>3. CASE ManifestLoaded BY <1>3 DEF ManifestLoaded
  <1>4. CASE DocumentsParsed BY <1>4 DEF DocumentsParsed
  <1>5. CASE RecordsStaged BY <1>5 DEF RecordsStaged, StagedBeside, SparsePair
  <1>6. CASE ManifestRefused BY <1>6 DEF ManifestRefused
  <1>7. CASE DocumentRefused BY <1>7 DEF DocumentRefused
  <1>8. CASE RecordsRefused BY <1>8 DEF RecordsRefused
  <1>9. CASE IngestClearsBackup BY <1>9 DEF IngestClearsBackup
  <1>10. CASE IngestMovesRoot BY <1>10 DEF IngestMovesRoot
  <1>11. CASE IngestSwaps BY <1>11 DEF IngestSwaps
  <1>12. CASE IngestCleans BY <1>12 DEF IngestCleans
  <1>13. CASE IngestSwapFails BY <1>13 DEF IngestSwapFails
  <1>14. CASE IngestFails BY <1>14 DEF IngestFails
  <1>15. CASE SparseStages BY <1>15 DEF SparseStages, Loadable
  <1>16. CASE SparseReplacesIndex BY <1>16 DEF SparseReplacesIndex
  <1>17. CASE SparseReplacesManifest BY <1>17 DEF SparseReplacesManifest, SparsePair
  <1>18. CASE SparseFails BY <1>18 DEF SparseFails
  <1>19. CASE Crash BY <1>19 DEF Crash
  <1> QED
    BY <1>1, <1>2, <1>3, <1>4, <1>5, <1>6, <1>7, <1>8, <1>9, <1>10, <1>11, <1>12,
       <1>13, <1>14, <1>15, <1>16, <1>17, <1>18, <1>19 DEF KnowledgeNext

\* A command that was not killed between two renames knows what to restore.
LEMMA FilesRestored ==
    ASSUME Files, KnowledgeNext
    PROVE  RestoreInv'
  <1> USE DirectoryIsThere, FilesFields
      DEF Files, KnowledgeTypeOK, PublishInv, RestoreInv, Expected, Idle, At, Proceed, Finish,
          NoJob, files, past, Directory, Builds
  <1>1. CASE EditSources BY <1>1 DEF EditSources
  <1>2. CASE IngestStarts BY <1>2 DEF IngestStarts
  <1>3. CASE ManifestLoaded BY <1>3 DEF ManifestLoaded
  <1>4. CASE DocumentsParsed BY <1>4 DEF DocumentsParsed
  <1>5. CASE RecordsStaged BY <1>5 DEF RecordsStaged, StagedBeside, SparsePair
  <1>6. CASE ManifestRefused BY <1>6 DEF ManifestRefused
  <1>7. CASE DocumentRefused BY <1>7 DEF DocumentRefused
  <1>8. CASE RecordsRefused BY <1>8 DEF RecordsRefused
  <1>9. CASE IngestClearsBackup BY <1>9 DEF IngestClearsBackup
  <1>10. CASE IngestMovesRoot BY <1>10 DEF IngestMovesRoot
  <1>11. CASE IngestSwaps BY <1>11 DEF IngestSwaps
  <1>12. CASE IngestCleans BY <1>12 DEF IngestCleans
  <1>13. CASE IngestSwapFails BY <1>13 DEF IngestSwapFails
  <1>14. CASE IngestFails BY <1>14 DEF IngestFails
  <1>15. CASE SparseStages BY <1>15 DEF SparseStages, Loadable
  <1>16. CASE SparseReplacesIndex BY <1>16 DEF SparseReplacesIndex
  <1>17. CASE SparseReplacesManifest BY <1>17 DEF SparseReplacesManifest, SparsePair
  <1>18. CASE SparseFails BY <1>18 DEF SparseFails
  <1>19. CASE Crash BY <1>19 DEF Crash
  <1> QED
    BY <1>1, <1>2, <1>3, <1>4, <1>5, <1>6, <1>7, <1>8, <1>9, <1>10, <1>11, <1>12,
       <1>13, <1>14, <1>15, <1>16, <1>17, <1>18, <1>19 DEF KnowledgeNext

\* No step of a search or of the index touches what the commands wrote.
LEMMA FilesKept ==
    ASSUME Files, UNCHANGED knowledge
    PROVE  Files' /\ published' = published
  BY DEF Files, KnowledgeTypeOK, PublishInv, RestoreInv, Expected, knowledge, files, past

\* The index command changes nothing of the files but the job that runs.
LEMMA FilesIndexed ==
    ASSUME Files, DenseNext
    PROVE  Files' /\ published' = published
  <1> USE DirectoryIsThere, FilesFields
      DEF Files, KnowledgeTypeOK, PublishInv, RestoreInv, Expected, Idle, At, Proceed, Finish,
          NoJob, files, past, dense, Directory, Builds
  <1>1. CASE IndexLoads BY <1>1 DEF IndexLoads, Loadable
  <1>2. CASE IndexIsReady BY <1>2 DEF IndexIsReady
  <1>3. CASE UpsertAcknowledged BY <1>3 DEF UpsertAcknowledged
  <1>4. CASE UpsertRetried BY <1>4 DEF UpsertRetried, knowledge
  <1>5. CASE IndexFails BY <1>5 DEF IndexFails
  <1>6. CASE IndexVerifies BY <1>6 DEF IndexVerifies
  <1> QED BY <1>1, <1>2, <1>3, <1>4, <1>5, <1>6 DEF DenseNext

(***************************************************************************)
(* The index.                                                              *)
(***************************************************************************)

Index == DenseTypeOK /\ IndexedMeansStored

\* Nothing is indexed at first.
LEMMA IndexInit == DenseInit => Index
  BY RetriesAssumption, DirectoryIsThere
     DEF DenseInit, Index, DenseTypeOK, IndexedMeansStored

\* What is upserted is of the build the command loaded, and nothing is lost.
LEMMA UpsertGrows ==
    ASSUME DenseTypeOK, job.build \in Builds, Upsert
    PROVE  /\ written' \in [Chunks -> SUBSET Builds]
           /\ \A c \in Chunks : written[c] \subseteq written'[c]
  BY DEF DenseTypeOK, Upsert

\* The chunks of the builds are chunks.
LEMMA IdsAreChunks == \A b \in Builds : Ids(b) \subseteq Chunks
  BY DEF Chunks

\* A larger store keeps what was verified.
LEMMA StoredStays ==
    ASSUME Index, indexed' = indexed, \A c \in Chunks : written[c] \subseteq written'[c]
    PROVE  IndexedMeansStored'
  <1>1. indexed # 0 => indexed \in Builds
    BY KnowledgeAssumption DEF Index, DenseTypeOK, Builds
  <1> QED BY <1>1, IdsAreChunks DEF Index, IndexedMeansStored

\* Every step of the index command keeps what an earlier one stored.
LEMMA IndexSteps ==
    ASSUME Files, Index, DenseNext
    PROVE  Index'
  <1>1. job.kind = "index" => job.build \in Builds BY DEF Files, PublishInv
  <1>2. tries \in 0..MaxRetries /\ 0 \in 0..MaxRetries
    BY RetriesAssumption DEF Index, DenseTypeOK
  <1>3. CASE IndexLoads \/ IndexIsReady
    <2>1. UNCHANGED dense BY <1>3 DEF IndexLoads, IndexIsReady
    <2> QED BY <2>1 DEF dense, Index, DenseTypeOK, IndexedMeansStored
  <1>4. CASE UpsertAcknowledged
    <2>1. Upsert /\ tries' = 0 /\ indexed' = indexed /\ job.build \in Builds
      BY <1>1, <1>4 DEF UpsertAcknowledged, At
    <2> QED BY <1>2, <2>1, UpsertGrows, StoredStays DEF Index, DenseTypeOK
  <1>5. CASE UpsertRetried
    <2>1. /\ Upsert /\ tries' = tries + 1 /\ indexed' = indexed /\ job.build \in Builds
          /\ tries < MaxRetries
      BY <1>1, <1>5 DEF UpsertRetried, At
    <2>2. tries' \in 0..MaxRetries BY <1>2, <2>1, RetriesAssumption
    <2> QED BY <2>1, <2>2, UpsertGrows, StoredStays DEF Index, DenseTypeOK
  <1>6. CASE IndexFails
    <2>1. tries' = 0 /\ indexed' = indexed /\ job.build \in Builds
      BY <1>1, <1>6 DEF IndexFails
    <2>2. CASE written' = written
      BY <1>2, <2>1, <2>2, StoredStays DEF Index, DenseTypeOK
    <2>3. CASE Upsert
      BY <1>2, <2>1, <2>3, UpsertGrows, StoredStays DEF Index, DenseTypeOK
    <2> QED BY <1>6, <2>2, <2>3 DEF IndexFails
  <1>7. CASE IndexVerifies
    <2>1. /\ \A c \in Ids(job.build) : Verified(c, job.build)
          /\ indexed' = job.build /\ UNCHANGED <<written, tries>> /\ job.build \in Builds
      BY <1>1, <1>7 DEF IndexVerifies, At
    <2>2. IndexedMeansStored' BY <2>1 DEF IndexedMeansStored, Verified, Records
    <2> QED BY <2>1, <2>2, DirectoryIsThere DEF Index, DenseTypeOK
  <1> QED BY <1>3, <1>4, <1>5, <1>6, <1>7 DEF DenseNext

(***************************************************************************)
(* The search.                                                             *)
(***************************************************************************)

SearchTypeOK ==
    search \in
      [at : {"ready", "dense_manifest", "dense_chunks", "sparse_files", "check_manifest",
             "check_chunks", "sparse_manifest", "sparse_chunks", "embed", "query", "join", "done"},
       role : Roles \cup {Absent}, names : BOOLEAN, named : SUBSET Chunks, broad : BOOLEAN,
       since : 0..MaxBuilds, fingerprint : 0..MaxBuilds, exact : SUBSET Chunks,
       sm : 0..MaxBuilds, m : 0..MaxBuilds, tries : 0..MaxRetries,
       dense : Outcomes, sparse : Outcomes, result : Outcomes]

Searching == SearchTypeOK /\ SearchInv

\* A search that has not started has read nothing.
LEMMA SearchBegins == SearchInit /\ KnowledgeInit => Searching
  <1> SUFFICES ASSUME SearchInit, KnowledgeInit PROVE Searching OBVIOUS
  <1>1. Waiting \in Outcomes BY DEF Waiting, Outcomes
  <1>2. SearchTypeOK
    BY <1>1, RetriesAssumption, DirectoryIsThere DEF SearchTypeOK, SearchInit, Ready
  <1>3. SearchInv BY DEF SearchInv, SearchInit, Ready, Waiting
  <1> QED BY <1>2, <1>3 DEF Searching

\* What the commands do while a search runs takes nothing from it: a build
\* published since it began stays one.
LEMMA SearchUndisturbed ==
    ASSUME Searching, search' = search, published <= published',
           published \in Nat, published' \in Nat
    PROVE  Searching'
  <1>1. search.since \in 0..MaxBuilds BY DEF Searching, SearchTypeOK
  <1>2. search.since..published \subseteq search.since..published'
    BY <1>1, KnowledgeAssumption
  <1>3. 1..published \subseteq 1..published' OBVIOUS
  <1>4. SearchTypeOK' BY DEF Searching, SearchTypeOK
  <1>5. SearchInv' BY <1>2, <1>3 DEF Searching, SearchInv, Sound
  <1> QED BY <1>4, <1>5 DEF Searching

\* The directory in place is a build published since the search began.
LEMMA CurrentBuild ==
    ASSUME Files, Searching, search.at # "ready", Loadable
    PROVE  /\ root.managed = published
           /\ root.managed \in search.since..published /\ root.managed \in Builds
           /\ Ids(root.managed) \subseteq Chunks
           /\ root.index \in 0..MaxBuilds /\ root.manifest \in 0..MaxBuilds
  <1>1. root.managed = published /\ published \in Builds
    BY FilesFields DEF Files, PublishInv, Loadable
  <1>2. search.since \in 1..published BY DEF Searching, SearchInv
  <1>3. published \in search.since..published BY <1>1, <1>2, DirectoryIsThere
  <1>4. root \in Directory BY FilesFields DEF Files, Loadable
  <1> QED BY <1>1, <1>3, <1>4, IdsAreChunks DEF Directory

\* An outcome whose items are evidence.
LEMMA OutcomesTyped ==
    /\ Waiting \in Outcomes /\ Failed \in Outcomes
    /\ Waiting.items = {} /\ Failed.items = {} /\ Failed # Waiting
    /\ \A status \in {"answered", "complete", "partial"}, items \in SUBSET Evidence :
          /\ Answered(status, items) \in Outcomes /\ Answered(status, items).items = items
          /\ Answered(status, items) # Waiting
  BY DEF Waiting, Failed, Answered, Outcomes

\* The dense branch stops before it queried anything, the sparse one anywhere,
\* and the search itself with items that may be part of the result.
LEMMA DenseEndsKeeps ==
    ASSUME Searching, UNCHANGED published, search.at \in {"dense_manifest", "dense_chunks"},
           NEW out \in Outcomes, out # Waiting, out.items = {}, DenseEnds(out)
    PROVE  Searching'
  <1>1. SearchTypeOK' BY DEF Searching, SearchTypeOK, DenseEnds
  <1>2. SearchInv' BY DEF Searching, SearchTypeOK, SearchInv, Sound, DenseEnds
  <1> QED BY <1>1, <1>2 DEF Searching

\* The sparse branch stops, with items or in failure.
LEMMA SparseEndsKeeps ==
    ASSUME Searching, UNCHANGED published,
           search.at \in {"sparse_files", "check_manifest", "check_chunks",
                          "sparse_manifest", "sparse_chunks"},
           NEW out \in Outcomes, \A e \in out.items : Sound(e), SparseEnds(out)
    PROVE  Searching'
  <1>1. SearchTypeOK' BY DirectoryIsThere DEF Searching, SearchTypeOK, SparseEnds
  <1>2. SearchInv' BY DEF Searching, SearchTypeOK, SearchInv, Sound, SparseEnds
  <1> QED BY <1>1, <1>2 DEF Searching

\* The search returns items that may be part of the result, or raises.
LEMMA SearchEndsKeeps ==
    ASSUME Searching, UNCHANGED published, search.at # "ready",
           NEW out \in Outcomes, \A e \in out.items : Sound(e), SearchEnds(out)
    PROVE  Searching'
  <1>1. SearchTypeOK'
    <2>1. 0 \in 0..MaxRetries BY RetriesAssumption
    <2>2. /\ search.role \in Roles \cup {Absent} /\ search.names \in BOOLEAN
          /\ search.named \in SUBSET Chunks /\ search.broad \in BOOLEAN
          /\ search.since \in 0..MaxBuilds
      BY DEF Searching, SearchTypeOK
    <2>3. search' \in [at : {"done"}, role : Roles \cup {Absent}, names : BOOLEAN,
                       named : SUBSET Chunks, broad : BOOLEAN, since : 0..MaxBuilds,
                       fingerprint : {0}, exact : {{}}, sm : {0}, m : {0}, tries : {0},
                       dense : {Waiting}, sparse : {Waiting}, result : Outcomes]
      BY <2>2 DEF SearchEnds, Ready
    <2> QED BY <2>1, <2>3, DirectoryIsThere, OutcomesTyped DEF SearchTypeOK
  <1>2. SearchInv'
    BY OutcomesTyped DEF Searching, SearchTypeOK, SearchInv, Sound, SearchEnds, Ready
  <1> QED BY <1>1, <1>2 DEF Searching

\* The first reads of the dense branch.
LEMMA DenseReads ==
    ASSUME Files, Searching, UNCHANGED knowledge,
           SearchStarts \/ DenseReadsManifest \/ DenseReadsChunks \/ DenseFindsNoDocument
             \/ DenseReadFails
    PROVE  Searching'
  <1>1. UNCHANGED published BY DEF knowledge, past
  <1>2. published \in Builds BY FilesFields DEF Files
  <1>3. CASE SearchStarts
    <2>1. PICK role \in Roles, q \in Queries :
            search' = [Ready EXCEPT !.at = "dense_manifest", !.role = role,
                          !.names = q.names, !.named = q.named,
                          !.broad = q.broad, !.since = published]
      BY <1>3 DEF SearchStarts
    <2>2. q.names \in BOOLEAN /\ q.named \in SUBSET Chunks /\ q.broad \in BOOLEAN
      BY SearchAssumption
    <2>3. 0 \in 0..MaxRetries BY RetriesAssumption
    <2>4. SearchTypeOK'
      BY <1>2, <2>1, <2>2, <2>3, DirectoryIsThere, OutcomesTyped DEF SearchTypeOK, Ready
    <2>5. published \in 1..published BY <1>2 DEF Builds
    <2>6. SearchInv'
      BY <1>1, <2>1, <2>5, OutcomesTyped DEF SearchInv, Sound, Ready
    <2> QED BY <2>4, <2>6 DEF Searching
  <1>4. CASE DenseReadsManifest
    <2>1. /\ search.at = "dense_manifest" /\ Loadable
          /\ search' = [search EXCEPT !.at = "dense_chunks", !.fingerprint = root.managed]
      BY <1>4 DEF DenseReadsManifest, SearchAt
    <2>2. root.managed \in search.since..published /\ root.managed \in Builds
      BY <2>1, CurrentBuild
    <2>3. SearchTypeOK' BY <2>1, <2>2, DirectoryIsThere DEF Searching, SearchTypeOK
    <2>4. SearchInv' BY <1>1, <2>1, <2>2 DEF Searching, SearchTypeOK, SearchInv, Sound
    <2> QED BY <2>3, <2>4 DEF Searching
  <1>5. CASE DenseReadsChunks
    <2>1. /\ search.at = "dense_chunks" /\ Loadable
          /\ search' = [search EXCEPT !.at = "sparse_files", !.exact = Exact(root.managed)]
      BY <1>5 DEF DenseReadsChunks, SearchAt
    <2>2. /\ Exact(root.managed) \in SUBSET Chunks
          /\ search.names => Exact(root.managed) \subseteq search.named
      BY <2>1, CurrentBuild DEF Exact
    <2>3. SearchTypeOK' BY <2>1, <2>2 DEF Searching, SearchTypeOK
    <2>4. SearchInv' BY <1>1, <2>1, <2>2 DEF Searching, SearchTypeOK, SearchInv, Sound
    <2> QED BY <2>3, <2>4 DEF Searching
  <1>6. CASE DenseFindsNoDocument
    <2>1. search.at = "dense_chunks" /\ DenseEnds(Answered("answered", {}))
      BY <1>6 DEF DenseFindsNoDocument, SearchAt
    <2>2. {} \in SUBSET Evidence OBVIOUS
    <2> QED BY <1>1, <2>1, <2>2, OutcomesTyped, DenseEndsKeeps
  <1>7. CASE DenseReadFails
    BY <1>1, <1>7, OutcomesTyped, DenseEndsKeeps DEF DenseReadFails
  <1> QED BY <1>3, <1>4, <1>5, <1>6, <1>7

\* The reads of the sparse branch.
LEMMA SparseReads ==
    ASSUME Files, Searching, UNCHANGED knowledge,
           SparseReadsFiles \/ CheckReadsManifest \/ CheckReadsChunks \/ SparseReadsManifest
             \/ SparseScores \/ SparseFailsSafely
    PROVE  Searching'
  <1>1. UNCHANGED published BY DEF knowledge, past
  <1>2. CASE SparseReadsFiles
    <2>1. /\ search.at = "sparse_files" /\ Loadable
          /\ search' = [search EXCEPT !.at = "check_manifest", !.sm = root.manifest]
      BY <1>2 DEF SparseReadsFiles, SearchAt
    <2>2. root.manifest \in 0..MaxBuilds BY <2>1, CurrentBuild
    <2>3. SearchTypeOK' BY <2>1, <2>2 DEF Searching, SearchTypeOK
    <2>4. SearchInv' BY <1>1, <2>1 DEF Searching, SearchTypeOK, SearchInv, Sound
    <2> QED BY <2>3, <2>4 DEF Searching
  <1>3. CASE CheckReadsManifest
    <2>1. /\ search.at = "check_manifest" /\ Loadable
          /\ search' = [search EXCEPT !.at = "check_chunks", !.m = root.managed]
      BY <1>3 DEF CheckReadsManifest, SearchAt
    <2>2. root.managed \in Builds BY <2>1, CurrentBuild
    <2>3. SearchTypeOK' BY <2>1, <2>2, DirectoryIsThere DEF Searching, SearchTypeOK
    <2>4. SearchInv' BY <1>1, <2>1 DEF Searching, SearchTypeOK, SearchInv, Sound
    <2> QED BY <2>3, <2>4 DEF Searching
  <1>4. CASE CheckReadsChunks
    <2>1. search.at = "check_chunks" /\ search' = [search EXCEPT !.at = "sparse_manifest"]
      BY <1>4 DEF CheckReadsChunks, SearchAt
    <2>2. SearchTypeOK' BY <2>1 DEF Searching, SearchTypeOK
    <2>3. SearchInv' BY <1>1, <2>1 DEF Searching, SearchTypeOK, SearchInv, Sound
    <2> QED BY <2>2, <2>3 DEF Searching
  <1>5. CASE SparseReadsManifest
    <2>1. /\ search.at = "sparse_manifest" /\ Loadable
          /\ search' = [search EXCEPT !.at = "sparse_chunks", !.m = root.managed]
      BY <1>5 DEF SparseReadsManifest, SearchAt
    <2>2. root.managed \in search.since..published /\ root.managed \in Builds
      BY <2>1, CurrentBuild
    <2>3. SearchTypeOK' BY <2>1, <2>2, DirectoryIsThere DEF Searching, SearchTypeOK
    <2>4. SearchInv' BY <1>1, <2>1, <2>2 DEF Searching, SearchTypeOK, SearchInv, Sound
    <2> QED BY <2>3, <2>4 DEF Searching
  <1>6. CASE SparseScores
    <2>1. /\ search.at = "sparse_chunks" /\ Loadable /\ ~search.broad
          /\ \E found \in SUBSET Candidates(root.managed) :
               SparseEnds(Answered("answered",
                 {[chunk |-> c, label |-> search.m, acl |-> root.managed] : c \in found}))
      BY <1>6 DEF SparseScores, SearchAt
    <2>2. PICK found \in SUBSET Candidates(root.managed) :
            SparseEnds(Answered("answered",
              {[chunk |-> c, label |-> search.m, acl |-> root.managed] : c \in found}))
      BY <2>1
    <2> DEFINE items == {[chunk |-> c, label |-> search.m, acl |-> root.managed] : c \in found}
    <2>3. /\ root.managed \in search.since..published /\ root.managed \in Builds
          /\ Ids(root.managed) \subseteq Chunks
      BY <2>1, CurrentBuild
    <2>4. search.m \in search.since..published /\ search.m \in Builds
      <3>1. search.m \in search.since..published /\ search.since \in 1..published
        BY <2>1 DEF Searching, SearchInv
      <3>2. search.m \in 0..MaxBuilds BY DEF Searching, SearchTypeOK
      <3>3. published \in Nat BY FilesFields DEF Files
      <3> QED BY <3>1, <3>2, <3>3, KnowledgeAssumption DEF Builds
    <2>5. \A c \in found : /\ c \in Chunks /\ Authorized(search.role, root.managed, c)
                           /\ search.names => c \in search.named
      BY <2>3 DEF Candidates, Exact
    <2>6. items \in SUBSET Evidence BY <2>3, <2>4, <2>5 DEF Evidence
    <2>7. \A e \in items : Sound(e) BY <2>1, <2>3, <2>4, <2>5 DEF Sound
    <2> QED BY <1>1, <2>1, <2>2, <2>6, <2>7, OutcomesTyped, SparseEndsKeeps
  <1>7. CASE SparseFailsSafely
    BY <1>1, <1>7, OutcomesTyped, SparseEndsKeeps DEF SparseFailsSafely
  <1> QED BY <1>2, <1>3, <1>4, <1>5, <1>6, <1>7

\* The calls to the providers.
LEMMA DenseCalls ==
    ASSUME Files, Searching, UNCHANGED knowledge,
           QueryEmbedded \/ QueryRetried \/ QueryAnswered \/ DenseCallFails
             \/ DenseTimesOut \/ SearchCancelled
    PROVE  Searching'
  <1>1. UNCHANGED published BY DEF knowledge, past
  <1>2. 0 \in 0..MaxRetries BY RetriesAssumption
  <1>3. CASE QueryEmbedded
    <2>1. search.at = "embed" /\ ~search.broad /\ search' = [search EXCEPT !.at = "query"]
      BY <1>3 DEF QueryEmbedded, SearchAt
    <2>2. SearchTypeOK' BY <2>1 DEF Searching, SearchTypeOK
    <2>3. SearchInv' BY <1>1, <2>1 DEF Searching, SearchTypeOK, SearchInv, Sound
    <2> QED BY <2>2, <2>3 DEF Searching
  <1>4. CASE QueryRetried
    <2>1. /\ search.at = "query" /\ search.tries < MaxRetries
          /\ search' = [search EXCEPT !.tries = search.tries + 1]
      BY <1>4 DEF QueryRetried, SearchAt
    <2>2. search.tries + 1 \in 0..MaxRetries
      BY <2>1, RetriesAssumption DEF Searching, SearchTypeOK
    <2>3. SearchTypeOK' BY <2>1, <2>2 DEF Searching, SearchTypeOK
    <2>4. SearchInv' BY <1>1, <2>1 DEF Searching, SearchTypeOK, SearchInv, Sound
    <2> QED BY <2>3, <2>4 DEF Searching
  <1>5. CASE QueryAnswered
    <2>1. PICK matches \in SUBSET Records :
            search' = [search EXCEPT !.at = "join", !.tries = 0,
                         !.dense = Answered("answered",
                            {[chunk |-> r.chunk, label |-> r.build, acl |-> r.build] :
                               r \in Kept(matches)})]
      BY <1>5 DEF QueryAnswered
    <2> DEFINE items == {[chunk |-> r.chunk, label |-> r.build, acl |-> r.build] :
                           r \in Kept(matches)}
    <2>2. search.at = "query" BY <1>5 DEF QueryAnswered, SearchAt
    <2>3. ~search.broad /\ search.fingerprint \in search.since..published
      BY <2>2 DEF Searching, SearchInv
    <2>4. \A r \in Kept(matches) :
            /\ r.chunk \in Chunks /\ r.build \in Builds /\ r.build = search.fingerprint
            /\ Authorized(search.role, r.build, r.chunk)
            /\ search.names => r.chunk \in search.named
      BY <2>1 DEF Kept, Parsed, Records, Searching, SearchInv
    <2>5. items \in SUBSET Evidence BY <2>4 DEF Evidence
    <2>6. \A e \in items : Sound(e) BY <2>3, <2>4 DEF Sound
    <2>7. /\ search' = [search EXCEPT !.at = "join", !.tries = 0,
                                      !.dense = Answered("answered", items)]
          /\ Answered("answered", items) \in Outcomes
          /\ Answered("answered", items).items = items
          /\ Answered("answered", items) # Waiting
      BY <2>1, <2>5, OutcomesTyped
    <2> HIDE DEF items
    <2>8. SearchTypeOK' BY <1>2, <2>7 DEF Searching, SearchTypeOK
    <2>9. SearchInv'
      BY <1>1, <2>2, <2>6, <2>7 DEF Searching, SearchTypeOK, SearchInv, Sound
    <2> QED BY <2>8, <2>9 DEF Searching
  <1>6. CASE DenseCallFails \/ DenseTimesOut
    <2>1. /\ search.at \in {"embed", "query"}
          /\ search' = [search EXCEPT !.at = "join", !.tries = 0, !.dense = Failed]
      BY <1>6 DEF DenseCallFails, DenseTimesOut
    <2>2. SearchTypeOK' BY <1>2, <2>1, OutcomesTyped DEF Searching, SearchTypeOK
    <2>3. SearchInv'
      BY <1>1, <2>1, OutcomesTyped DEF Searching, SearchTypeOK, SearchInv, Sound
    <2> QED BY <2>2, <2>3 DEF Searching
  <1>7. CASE SearchCancelled
    BY <1>1, <1>7, OutcomesTyped, SearchEndsKeeps DEF SearchCancelled
  <1> QED BY <1>3, <1>4, <1>5, <1>6, <1>7

\* The join takes what the branches found and nothing else.
LEMMA SearchJoins ==
    ASSUME Files, Searching, UNCHANGED knowledge, SearchFails \/ SearchAnswers
    PROVE  Searching'
  <1>1. UNCHANGED published BY DEF knowledge, past
  <1>2. CASE SearchFails
    BY <1>1, <1>2, OutcomesTyped, SearchEndsKeeps DEF SearchFails, SearchAt
  <1>3. CASE SearchAnswers
    <2>1. Fused \in SUBSET Evidence
      BY DEF Fused, Searching, SearchTypeOK, Outcomes
    <2>2. \A e \in Fused : Sound(e) BY DEF Fused, Searching, SearchInv
    <2>3. PICK status \in {"complete", "partial"} : SearchEnds(Answered(status, Fused))
      BY <1>3 DEF SearchAnswers
    <2> QED BY <1>1, <1>3, <2>1, <2>2, <2>3, OutcomesTyped, SearchEndsKeeps
            DEF SearchAnswers, SearchAt
  <1> QED BY <1>2, <1>3

(***************************************************************************)
(* The theorems.                                                           *)
(***************************************************************************)

Safe == Files /\ Index /\ Searching

\* The invariant holds at first,
LEMMA SafeInit == Init => Safe
  BY FilesInit, IndexInit, SearchBegins DEF Init, Safe

\* every step keeps it,
LEMMA SafeSteps == Safe /\ [Next]_vars => Safe'
  <1> SUFFICES ASSUME Safe, [Next]_vars PROVE Safe' OBVIOUS
  <1>1. Files /\ Index /\ Searching BY DEF Safe
  <1>2. CASE KnowledgeNext /\ UNCHANGED <<dense, search>>
    <2>1. Files' /\ published <= published'
      BY <1>1, <1>2, FilesTyped, FilesPublished, FilesRestored DEF Files
    <2>2. Index' BY <1>1, <1>2 DEF Index, DenseTypeOK, IndexedMeansStored, dense
    <2>3. published \in Nat /\ published' \in Nat
      BY <1>1, <2>1, DirectoryIsThere DEF Files, KnowledgeTypeOK
    <2>4. Searching' BY <1>1, <1>2, <2>1, <2>3, SearchUndisturbed
    <2> QED BY <2>1, <2>2, <2>4 DEF Safe
  <1>3. CASE DenseNext /\ UNCHANGED search
    <2>1. Files' /\ published' = published BY <1>1, <1>3, FilesIndexed
    <2>2. Index' BY <1>1, <1>3, IndexSteps
    <2>3. published \in Nat /\ published <= published'
      BY <1>1, <2>1, DirectoryIsThere DEF Files, KnowledgeTypeOK
    <2>4. Searching' BY <1>1, <1>3, <2>1, <2>3, SearchUndisturbed
    <2> QED BY <2>1, <2>2, <2>4 DEF Safe
  <1>4. CASE (SearchRuns \/ SearchMeets) /\ UNCHANGED <<knowledge, dense>>
    <2>1. Files' BY <1>1, <1>4, FilesKept
    <2>2. Index' BY <1>1, <1>4 DEF Index, DenseTypeOK, IndexedMeansStored, dense
    <2>3. Searching'
      BY <1>1, <1>4, DenseReads, SparseReads, DenseCalls, SearchJoins
         DEF SearchRuns, SearchMeets
    <2> QED BY <2>1, <2>2, <2>3 DEF Safe
  <1>5. CASE UNCHANGED vars
    <2>1. UNCHANGED <<knowledge, dense, search>> BY <1>5 DEF vars
    <2>2. Files' /\ published' = published BY <1>1, <2>1, FilesKept
    <2>3. Index' BY <1>1, <2>1 DEF Index, DenseTypeOK, IndexedMeansStored, dense
    <2>4. published \in Nat /\ published <= published'
      BY <1>1, <2>2, DirectoryIsThere DEF Files, KnowledgeTypeOK
    <2>5. Searching' BY <1>1, <2>1, <2>2, <2>4, SearchUndisturbed
    <2> QED BY <2>2, <2>3, <2>5 DEF Safe
  <1> QED BY <1>2, <1>3, <1>4, <1>5 DEF Next

\* and so it always holds.
LEMMA AlwaysSafe == Spec => []Safe
  BY SafeInit, SafeSteps, PTL DEF Spec

(***************************************************************************)
(* Every variable keeps its type, whatever the corpus and the number of    *)
(* builds, retries and failures.                                           *)
(***************************************************************************)
THEOREM KnowledgeTypeCorrect == Spec => []TypeOK
  <1>1. Safe => TypeOK
    BY DEF Safe, Files, Index, Searching, TypeOK, SearchTypeOK
  <1> QED BY <1>1, AlwaysSafe, PTL

(***************************************************************************)
(* Between two commands the processed directory holds the last build       *)
(* published and the sparse files the last build-sparse left, whatever     *)
(* failed, unless a command was killed between two renames                 *)
(* (ingestion artifacts.py, sparse/artifacts.py).                          *)
(***************************************************************************)
THEOREM BuildsAlwaysSurvive == Spec => []BuildsSurvive
  <1>1. Safe => BuildsSurvive
    BY DEF Safe, Files, RestoreInv, BuildsSurvive, Expected, Idle
  <1> QED BY <1>1, AlwaysSafe, PTL

(***************************************************************************)
(* A successful index command has stored every chunk of its build          *)
(* (retrieval/indexer.py).                                                 *)
(***************************************************************************)
THEOREM IndexIsStored == Spec => []IndexedMeansStored
  <1>1. Safe => IndexedMeansStored BY DEF Safe, Index
  <1> QED BY <1>1, AlwaysSafe, PTL

(***************************************************************************)
(* Whatever a search returns is attributed to a build published while it   *)
(* ran (retrieval/hybrid/retriever.py and the branches it joins).          *)
(***************************************************************************)
THEOREM EvidenceStaysCurrent == Spec => []EvidenceIsCurrent
  <1>1. Safe => EvidenceIsCurrent
    BY DEF Safe, Searching, SearchInv, Sound, EvidenceIsCurrent
  <1> QED BY <1>1, AlwaysSafe, PTL

(***************************************************************************)
(* Whatever a search returns its principal may read, and it mentions the   *)
(* identifiers that were asked for.                                        *)
(***************************************************************************)
THEOREM EvidenceStaysPermitted == Spec => []EvidenceIsPermitted
  <1>1. Safe => EvidenceIsPermitted
    BY DEF Safe, Searching, SearchInv, Sound, EvidenceIsPermitted
  <1> QED BY <1>1, AlwaysSafe, PTL

=============================================================================

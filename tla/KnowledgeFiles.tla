--------------------------- MODULE KnowledgeFiles ---------------------------
(***************************************************************************)
(* The processed directory: what `enterprise_ai_ingestion build` and       *)
(* `retrieval.cli build-sparse` write, and what is left of it when they    *)
(* fail or are killed.  Both commands put new files beside the old ones    *)
(* and rename them into place, the ingestion a whole directory in two      *)
(* renames with a backup between them, the sparse index two files one      *)
(* after the other.                                                        *)
(*                                                                         *)
(* A file is the number of the build it belongs to, 0 when it is missing;  *)
(* the three files of the ingestion are written together in a directory    *)
(* nobody else sees and count as one.  The operator runs one command at a  *)
(* time: no lock enforces it.  The bundle hashes the source manifest in a  *)
(* second reading of it: no edit is taken between the two.                 *)
(***************************************************************************)
EXTENDS Naturals, FiniteSets

CONSTANTS
    Corpus,     \* per build: the chunks of its documents, and who may read each
    MaxBuilds,  \* BOUND: edits of the source documents
    MaxFaults,  \* BOUND: failed file operations and killed commands
    Absent      \* no directory

Builds == 1..MaxBuilds
Ids(b) == DOMAIN Corpus[b]
Chunks == UNION {Ids(b) : b \in Builds}
Roles == UNION {UNION {Corpus[b][c] : c \in Ids(b)} : b \in Builds}

ASSUME KnowledgeAssumption ==
    /\ MaxBuilds \in Nat \ {0} /\ MaxFaults \in Nat
    /\ DOMAIN Corpus = Builds
    /\ Absent \notin [managed : Builds, index : 0..MaxBuilds,
                      manifest : 0..MaxBuilds]

VARIABLES
    source,     \* the version of the documents
    root,       \* data/processed
    backup,     \* data/.processed-backup
    temp,       \* data/.processed-build-*
    job,        \* the command that runs
    published,  \* history: the build last renamed into place
    kept,       \* history: the pair of sparse files the last command meant to leave
    torn,       \* history: a command was stopped between two renames
    faults      \* history: failed operations so far

files == <<root, backup, temp>>
past == <<published, kept, torn>>
knowledge == <<source, root, backup, temp, job, published, kept, torn, faults>>

Directory == [managed : Builds, index : 0..MaxBuilds, manifest : 0..MaxBuilds]

\* The repository holds the artifacts of its own documents.
Shipped == [managed |-> 1, index |-> 1, manifest |-> 1]

SparsePair(d) == IF d = Absent THEN <<0, 0>> ELSE <<d.index, d.manifest>>

\* validate_artifacts: the directory is there, with all its files and hashes.
Loadable == root # Absent

\* What the ingestion stages: the new artifacts, and a copy of the files it
\* does not manage.
StagedBeside(d, b) ==
    [managed |-> b, index |-> SparsePair(d)[1], manifest |-> SparsePair(d)[2]]

NoJob == [kind |-> "none", at |-> "idle", build |-> 0, before |-> Absent]

KnowledgeInit ==
    /\ source = 1
    /\ root = Shipped
    /\ backup = Absent /\ temp = Absent
    /\ job = NoJob
    /\ published = 1 /\ kept = <<1, 1>>
    /\ torn = FALSE
    /\ faults = 0

Idle == job.at = "idle"

At(kind, step) == job.kind = kind /\ job.at = step

Proceed(step) == job' = [job EXCEPT !.at = step]

Finish == job' = NoJob

Fault == faults < MaxFaults /\ faults' = faults + 1

(***************************************************************************)
(* The documents and the ingestion.                                        *)
(***************************************************************************)

\* Somebody edits the documents under data/sample_documents and their
\* manifest, together; an ingestion may be reading them.
EditSources ==
    /\ Idle \/ (job.kind = "ingest" /\ job.at \in {"loading", "loaded"})
    /\ source < MaxBuilds
    /\ source' = source + 1
    /\ UNCHANGED <<files, job, past, faults>>

IngestStarts ==
    /\ Idle
    /\ job' = [kind |-> "ingest", at |-> "loading", build |-> source, before |-> Absent]
    /\ UNCHANGED <<source, files, past, faults>>

\* load_manifest: the manifest of the moment lists the documents, with
\* their metadata and hashes.
ManifestLoaded ==
    /\ At("ingest", "loading")
    /\ job' = [job EXCEPT !.at = "loaded", !.build = source]
    /\ UNCHANGED <<source, files, past, faults>>

\* Every document agrees with the manifest that was loaded, metadata and
\* hash: those read before an edit and those it leaves alone agree at one
\* moment, so they are read at once.
DocumentsParsed ==
    /\ At("ingest", "loaded") /\ source = job.build
    /\ Proceed("parsed")
    /\ UNCHANGED <<source, files, past, faults>>

\* The chunks and records pass validate_records, the bundle is made, and the
\* new directory is staged beside the old one.
RecordsStaged ==
    /\ At("ingest", "parsed")
    /\ temp' = StagedBeside(root, job.build)
    /\ Proceed("staged")
    /\ UNCHANGED <<source, root, backup, past, faults>>

\* A stage refuses what it reads, and the command ends before it wrote
\* anything: the manifest is malformed, repeats an entry or names an unsafe
\* path,
ManifestRefused == At("ingest", "loading") /\ Finish /\ UNCHANGED <<source, files, past, faults>>

\* a document is malformed or another than the manifest describes,
DocumentRefused == At("ingest", "loaded") /\ Finish /\ UNCHANGED <<source, files, past, faults>>

\* or a record contradicts its document.
RecordsRefused == At("ingest", "parsed") /\ Finish /\ UNCHANGED <<source, files, past, faults>>

\* A backup an earlier command left is removed.
IngestClearsBackup ==
    /\ At("ingest", "staged")
    /\ backup' = Absent
    /\ Proceed("cleared")
    /\ UNCHANGED <<source, root, temp, past, faults>>

IngestMovesRoot ==
    /\ At("ingest", "cleared")
    /\ backup' = root /\ root' = Absent
    /\ Proceed("moved")
    /\ UNCHANGED <<source, temp, past, faults>>

IngestSwaps ==
    /\ At("ingest", "moved")
    /\ root' = temp /\ temp' = Absent
    /\ published' = job.build
    /\ Proceed("swapped")
    /\ UNCHANGED <<source, backup, kept, torn, faults>>

IngestCleans ==
    /\ At("ingest", "swapped")
    /\ backup' = Absent
    /\ Finish
    /\ UNCHANGED <<source, root, temp, past, faults>>

\* Mutant: nothing renames the old directory back.
IngestSwapFailsForGood ==
    /\ At("ingest", "moved") /\ Fault
    /\ temp' = Absent
    /\ Finish
    /\ UNCHANGED <<source, root, backup, past>>

\* The second rename fails: the old directory is renamed back.
IngestSwapFails ==
    /\ At("ingest", "moved") /\ Fault
    /\ root' = backup /\ backup' = Absent
    /\ temp' = Absent
    /\ Finish
    /\ UNCHANGED <<source, past>>

\* Any other operation fails: before the renames the old directory stays,
\* after them the new one is in place although the command reports failure.
IngestFails ==
    /\ job.kind = "ingest" /\ job.at \in {"staged", "cleared", "swapped"} /\ Fault
    /\ temp' = Absent
    /\ Finish
    /\ UNCHANGED <<source, root, backup, past>>

(***************************************************************************)
(* The sparse index.                                                       *)
(***************************************************************************)

\* expected_artifacts reads the current build; the old files are remembered
\* and the new ones staged.
SparseStages ==
    /\ Idle /\ Loadable
    /\ job' = [kind |-> "sparse", at |-> "staged", build |-> root.managed,
               before |-> root]
    /\ UNCHANGED <<source, files, past, faults>>

SparseReplacesIndex ==
    /\ At("sparse", "staged")
    /\ root' = [root EXCEPT !.index = job.build]
    /\ Proceed("index_replaced")
    /\ UNCHANGED <<source, backup, temp, past, faults>>

\* The manifest follows, and validate_sparse finds the pair it expects.
SparseReplacesManifest ==
    /\ At("sparse", "index_replaced")
    /\ root' = [root EXCEPT !.manifest = job.build]
    /\ kept' = SparsePair(root')
    /\ Finish
    /\ UNCHANGED <<source, backup, temp, published, torn, faults>>

\* A rename fails: both files get the content they had.
SparseFails ==
    /\ job.kind = "sparse" /\ ~Idle /\ Fault
    /\ root' = [root EXCEPT !.index = job.before.index, !.manifest = job.before.manifest]
    /\ Finish
    /\ UNCHANGED <<source, backup, temp, past>>

\* The command is killed.  What it staged is never looked at again.
Crash ==
    /\ ~Idle /\ Fault
    /\ torn' = (torn \/ job.at \in {"moved", "index_replaced"})
    /\ temp' = Absent
    /\ Finish
    /\ UNCHANGED <<source, root, backup, published, kept>>

KnowledgeNext ==
    \/ EditSources
    \/ IngestStarts \/ ManifestLoaded \/ DocumentsParsed \/ RecordsStaged
    \/ ManifestRefused \/ DocumentRefused \/ RecordsRefused
    \/ IngestClearsBackup \/ IngestMovesRoot \/ IngestSwaps
    \/ IngestCleans \/ IngestSwapFails \/ IngestFails
    \/ SparseStages \/ SparseReplacesIndex \/ SparseReplacesManifest
    \/ SparseFails
    \/ Crash

(***************************************************************************)
(* Properties.                                                             *)
(***************************************************************************)

KnowledgeTypeOK ==
    /\ source \in Builds
    /\ root \in Directory \cup {Absent}
    /\ backup \in Directory \cup {Absent}
    /\ temp \in Directory \cup {Absent}
    /\ job \in [kind : {"none", "ingest", "sparse", "index"},
                at : {"idle", "loading", "loaded", "parsed", "staged", "cleared", "moved", "swapped",
                      "index_replaced", "bootstrapping", "upserting", "verifying"},
                build : 0..MaxBuilds, before : Directory \cup {Absent}]
    /\ published \in Builds
    /\ kept \in (0..MaxBuilds) \X (0..MaxBuilds)
    /\ torn \in BOOLEAN
    /\ faults \in 0..MaxFaults

(***************************************************************************)
(* Whatever failed on the way, between two commands the processed          *)
(* directory is there with the last build published and, beside it, the    *)
(* sparse files the last build-sparse left: a command that fails restores  *)
(* what it found, and an ingestion carries the files it does not manage    *)
(* over.  (A command killed between two renames is the exception the code  *)
(* does not handle; torn remembers it.)                                    *)
(***************************************************************************)
BuildsSurvive ==
    (Idle /\ ~torn) =>
        root = [managed |-> published, index |-> kept[1], manifest |-> kept[2]]

=============================================================================

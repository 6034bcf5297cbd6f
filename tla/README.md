# Formal model of the enterprise AI knowledge assistant

TLA+ modules that model the stateful core of this repository, from the page a
user types into to the files and the index an answer rests on, TLC
configurations that check them on small instances, and theorems about them that
TLAPS proves for every value of the constants.  `PROJECT.json` lists the runs,
the correspondence of every definition with the source lines it models, the
hazards and the theorems.

    tlc -workers 2 -config GraphTurns.cfg MCAssistantGraph.tla
    tlapm AssistantGraph_proofs.tla

## 1. Inventory

The backend is an asyncio program (`src/backend/src/enterprise_ai`).  One
process serves many requests; concurrency is that of tasks between `await`s.
Paths below are relative to that package unless they start with `src/`.

| component | state | operations | talks to |
|---|---|---|---|
| workflow graph and runtime (`graph/`) | per session: the latest LangGraph checkpoint (all channels) and the claim of its owner; per run: its copy of the channels | `ainvoke`, `astream`, 20 nodes, conditional edges, reducers | every other backend component, from its nodes |
| conversation memory (`memory/`) | sessions with owner, bounded turns, times of access and expiry, numbers of written requests | `load`, `upsert_turn`, `delete`, `cleanup_expired` | `load_memory` and `update_memory` nodes |
| rate limiter (`rate_limit/`) | a bucket per policy and principal; the time of the next cleanup | `evaluate` | a FastAPI dependency in front of both chat endpoints and the login |
| event streaming (`graph/events.py`, `graph/runtime.py`, `api/sse.py`) | event journal and numbering of a run, the filter of the runtime, the pending item of the adapter, the held terminal event | emit, filter, hold, ping, close | graph, tracer, HTTP client |
| tracing (`observability/`) | open spans; the current span of a task | start, finish, reset | opened around runs and nodes |
| research agent (`research/`) | plan, rounds of worker tasks, a ledger of budgets, results joined by a reducer | plan, dispatch, work, aggregate, assess coverage, derive children | retrieval, analysis tool |
| response service (`llm/`) | none between calls; within one: attempts left, draft, verdict | generate, validate, repair, fall back | model providers |
| retrieval (`retrieval/`) | per record the builds Pinecone holds; the sparse index and its manifest; within one search: what it read so far and what each branch found | index, build the sparse files, search (dense, sparse, join) | Pinecone, disk; called by the graph and by research workers |
| ingestion (`src/ingestion`) | the source documents, the processed directory, its backup, the directory being staged | parse, chunk, replace the directory | disk; retrieval reads what it leaves |
| enterprise tools (`mcp_tools/`), Python analysis (`tools/`) | none between calls | select, check, call within a deadline; plan, load, aggregate | called by two nodes of the graph |
| authentication, authorization, guardrails (`security/`) | none (signed tokens, static policy) | check | the supervisor, the tools, retrieval, the API |
| frontend (`src/frontend`) | Streamlit session: messages, session id, pending flag, last error; the controls as they are drawn | log in and out, submit, consume the stream, new conversation, rerun | the SSE endpoint |

What makes each of them hard, and what correctness means there:

* **Graph.**  A turn runs over the channels that *earlier turns of the
  conversation* left in the checkpoint; only some are reset.  Two requests of one
  conversation may run at once over one checkpoint.  Any node may raise, and the
  run may be cancelled between and inside supersteps.  Correct means: results
  never cross principals, a fault is never reported as an answer, what memory
  stores agrees with what the client was told, a generated answer carries its own
  citations and is never delivered with a bad verdict on them, and the step budget
  ends a run before LangGraph's limit does.
* **Conversation memory.**  Four limits (sessions, turns, characters, references)
  and expiry interact with retries of a write and with two principals.  Correct
  means: the limits hold, exactly the newest turns remain, in order, nobody reads
  another's or an expired session, room is not made at the expense of a session
  in use, and a remembered request is not stored twice.
* **Rate limiter.**  Refill is lazy and idle buckets are deleted.  Correct means:
  lazy refill cannot be observed, no interval grants more than the policy and the
  removals of the bucket allow, and `Retry-After` is sufficient.
* **Event streaming.**  Numbering restarts with every turn and must survive nodes
  that raise; the runtime silently drops what is out of sequence; the terminal
  event is held until the output is there; the client may leave at any moment.
  Correct means: one terminal message with the answer of *this* turn, nothing
  lost, and nothing left running.
* **Research.**  Parallel workers share one ledger and fail independently; gaps
  become tasks of further rounds.  Correct means: every call is paid for once, no
  search is repeated, the outcome does not depend on the order in which workers
  finish, and the rounds end.
* **Response service.**  Drafts are invalid, providers fail or answer late, the
  index changes in between, and planning, synthesis and repairs share an allowance
  of calls.  Correct means: what reaches the user is attributed to current evidence
  or claims nothing, and the allowance holds and is reported.
* **Ingestion, retrieval.**  Files are replaced one by one while others read them, a
  command may fail or be killed between two renames, uploads may have been applied although
  their answer was lost, and Pinecone keeps the records of every earlier build.  Correct
  means: the published build survives whatever fails, an indexing that reports success is
  stored, evidence is of a build published during the search and permitted to its reader,
  and every search ends.  Of a document, the chunks hold everything, in order.
* **Tools, routing.**  The router reads the text and the role, the tools check again, and
  some errors are not among those a tool reports.  Correct means: a route is permitted to
  the role that asks, identifiers in a question are not ignored, and what was executed had
  been checked.
* **Frontend.**  A stream that breaks off, an error after activity, a rerun of
  the script in the middle of a turn.  Correct means: the answers shown belong to one
  conversation, the one that continues; none is made up; every prompt is settled.

`PROJECT.json`, "hazards", has each of these at its line.

## 2. Plan

The modules, in the order in which they were written; "abstract" names the specification
that a component is shown to implement, "with" the modules it is composed with.

| | modules | with | abstract specification | state |
|---|---|---|---|---|
| 1 | `AssistantGraph` | `Routing`, `EnterpriseTools` in `MCAssistantGraph` | – (invariants) | checked, safety proved |
| 2 | `ConversationMemory` | | `ConversationLog` | checked, proved |
| 3 | `TokenBucket` | | `EagerBucket` | checked, proved |
| 4 | `EventStream` (nodes, runtime, adapter and client in one) | | `StreamContract` | checked, safety proved |
| 5 | `ResearchRun` | | `ResearchRounds` | checked, safety proved |
| 6 | `GroundedResponse` | | – (action property) | checked, safety proved |
| 7 | `ChatTurn` | extends `EventStream`; reads with `StreamContract` | one conversation, each prompt settled | checked, safety proved |
| 8 | `KnowledgeFiles`, `DenseIndex`, `HybridSearch` | each extends the one before | the builds published during the search | checked, safety proved |
| 9 | `Chunker` | | a partition of the blocks into runs | checked, proved |
| 10 | `Routing`, `EnterpriseTools` | `EnterpriseTools` extends `Routing` | – (theorems over all inputs) | proved |

What could still be added: a composition of `HybridSearch` with the `retrieve` node and
with `Reindex` of `GroundedResponse`, which today stand for each other's environment by a
choice; two searches at a time, over one SDK client (section 7); and a proof that
`ResearchRun` implements `ResearchRounds`, on the invariant of section 6.

## 3. Modules and code

`PROJECT.json`, "map", gives the lines of every definition.

### AssistantGraph (`graph/nodes.py`, `builder.py`, `routing.py`, `runtime.py`)

`channels[r]` is the record of graph channels a run works on, `ckpt[s]` what the
checkpointer keeps per session, `owner` the claims of `_session_owners`, `memory`
the remembered turns, `output[r]` the `GraphOutput`.  One action per node; each is
a superstep: `Enters` is the step budget of `guarded`, `Returns` the node's update
with its reducers, the step counter and the conditional edge (`Follows`), and the
write of the checkpoint.  `Start` claims the session, loads the checkpoint and
overwrites only the channels of `_initial_state`; what it leaves is what the hazards
are about.  `NodeRaises` is an exception in a node, `StepBudgetExceeded` a used-up
budget, `Cancel` a cancellation between supersteps and `CancelAfterStore` one after
the turn was stored and before the superstep was written; either drops the run's copy
of the channels.  What a channel holds is reduced to *whose* it is: an analysis, a
research result or an answer is the request that produced it.  An evidence item stands
for its chunk, so a set of them has no duplicates; `Acceptable` are the items that pass
the tests of `validate_evidence` which do not depend on the principal, `Readable` those
whose roles and access level admit a principal.  `TurnsOf` is the memory service's
`update`: it checks every item again and cuts the references at `MaxReferences`
(`References`), where the order of the search, and so which items stay, is left open.
`supersteps` and `fault` are history variables.

### ConversationLog, ConversationMemory (`memory/in_memory.py`, `models.py`)

`sessions` is the ordered dictionary; turns have a size in characters and a number
of references; `Lapsed`/`Batches` are the bounded scan of `cleanup_expired`, which
may take any of the equally old sessions; `MakeCapacity`, `EvictTurns` the two
evictions.  `upsert_turn` is split by its outcome (`UpsertFirst`, `UpsertNext`,
`UpsertAgain`, `UpsertTooLarge`, `UpsertRefused`), each the whole call including the
side effects it has before it refuses.  `reply` is what the caller received.
`ConversationLog` has no limits and no clock: sessions are claimed, turns appended,
old turns forgotten from the front, sessions dropped.

### EagerBucket, TokenBucket (`rate_limit/`)

`buckets` is the store's dictionary with lazily refilled buckets, `accesses` the
distance to the next cleanup, `Evaluate` the whole `consume` (refill, decision,
update, cleanup).  `granted`, `removed` and `since` observe an arbitrary interval, `due` a
client that waits for `Retry-After`; no guard mentions them.  Nothing relates the
settings: a time to live may be too short to fill a bucket, and a cost may exceed a
capacity.  In `EagerBucket` every bucket always exists, a tick adds a token, and a
request may come with others' buckets filled up, if they hold more than the time to
live refills.

### StreamContract, EventStream (`graph/events.py`, `graph/runtime.py`, `api/sse.py`)

Four actors: the nodes (`node`, `busy`, `journal`, `history`: what was emitted and
what an update recorded), the runtime's generator (`parts`, `expected`, `ended`:
events in order, the output only after a terminal event), the adapter (`pending`,
`asked`, `held`, `wire`: every item awaited in a task of its own, pings, the held
terminal event, closing) and the client.  `StreamContract` is the frontend's
`StreamContractValidator`: what it accepts, envelope by envelope.

### ChatTurn (`src/frontend/enterprise_ai_frontend/app.py`, `state.py`, `turns.py`, `api_client.py`)

The page of one user, turn after turn, over the streams of `EventStream`.  `messages`,
`session`, `waiting` and `error` are `MESSAGES`, `SESSION_ID`, `PENDING` and `LAST_ERROR`;
`page` says where the script is, `read` how many envelopes it took, `enabled` whether the
controls it drew can be used.  Each action is what the script does up to its next `await`
or its end: `Prompt` shows the question and starts a new stream (every variable of
`EventStream` is set anew, and a conversation that continues may have left an output in
the checkpoint); `Take` is one pass of the loop in `process_turn`, accepted by
`Validator`, which is `StreamContract` over the envelopes read; `TurnEnds` is the rerun
after the loop; `Breaks` a transport error, `TurnedAway` a status instead of a stream.
`NewConversation`, `LogOut` and `Rerun` may stop the script where it is: the controls
drawn before the turn are enabled while it runs.  `Backend(A)` is a step of the backend
while the page stands still, and `HangUp` is how it learns that the page left.

### KnowledgeFiles, DenseIndex, HybridSearch (`src/ingestion`, `retrieval/`)

One state in three modules, each extending the one before.  A build is a version of the
documents; `Corpus` gives its chunks and who may read each.

`KnowledgeFiles`: `root`, `backup` and `temp` are the processed directory, the fixed
backup beside it and what is being staged.  A file is the number of the build it belongs
to, 0 when it is missing.  `job` is the command that runs and where it is; each rename is
an action (`IngestMovesRoot`, `IngestSwaps`, `SparseReplacesIndex`,
`SparseReplacesManifest`), may fail (`IngestSwapFails`, `IngestFails`, `SparseFails`, each
with the recovery the code has) and may be the last thing a killed command did (`Crash`).
`EditSources` changes the documents, also under a running ingestion, which then refuses
what no longer agrees with its manifest. `published`, `kept` and `torn` are history.

`DenseIndex`: `written` is, per chunk, the set of builds whose record Pinecone has been
sent. An upsert may be applied in part, its answer lost, and be repeated; a read may
answer with any record ever written; only `IndexVerifies`, which reads every chunk back,
reports success.

`HybridSearch`: `search` is one search, read by read.  The two branches run under one
`gather` in one event loop: the dense branch runs to its first `await`, then the whole
sparse branch, which has none, then the rest of the dense one.  Between any two reads a
command, which is another process, may replace what is read; the guards are the
comparisons the code makes between what it read (`Consistent`, `CheckReadsChunks`,
`SparseScores`, `Parsed`). `Kept` authorizes matches again after the provider filtered
them; `SearchFails` and `SearchAnswers` are the join: both branches, one of them if
partial results are allowed, or a failure, also when the branches disagree about a chunk.

### Chunker (`src/ingestion/.../parser.py`, `chunker.py`)

A block is its number, its size and the headings it stands under.  `Heading` and `Body`
read a document, and split what is larger than a chunk (`Parts`); `Pack` is one pass of the packing loop, which closes a core
early at an incompatible path or a full target; `PackEnds` the merge of a small rest;
`Rebalance` one pass of the loop that moves the last group of headings from the core
before; `Draft` one chunk with the overlap it repeats; `Validate` the verdict.  Two chunks
of one shape may or may not say the same, so `Validate` may refuse them.

### Routing, EnterpriseTools (`graph/routing.py`, `security/policies.py`, `mcp_tools/`, `tools/`)

Operators, no state.  A question is what `classify` and the guardrails find in its text;
`SelectedRoute` is the supervisor node, `RoutesOf(role)` every route a role can reach.
`McpOutcome` and `AnalysisOutcome` are the ways one call of a tool ends: executed, denied,
needing input, failed, or an exception that leaves the node.  `MCAssistantGraph` takes its
`Permits` from `RoutesOf` and the tools among its `FaultyNodes` from `FaultyTools`, so the
routes and the failing tools that the graph is checked with are those the code can produce.

### ResearchRounds, ResearchRun (`research/`)

`plan` is what `compile_plan` made of one of `Proposals`; `pending` the tasks of the
round; `stage[id]` where the worker of a task is (waiting for the semaphore,
retrieving, analysing, returned); `usage` the `BudgetLedger`; `results` and
`processed` the two channels of the nested graph.  Every `await` at which workers
interleave separates two actions (`Search`, then `SearchFails`, `Found` or
`FoundAndAnalyses`, then `Analysed`); `consume` is atomic under its lock.
`Key` and `Equivalence` are the two notions of "the same search" in the code: the
compiler compares queries, `_equivalence` their words in any order.  `Aggregate` is the
whole node that joins a round and derives the gap tasks: `InOrder` sorts the answers,
`AddChildren` takes their proposals one after the other.  `Distinct` is the compiler's
removal of duplicates and its numbering.  `PlannerAssumption` is what `FakeResearchPlanner`
guarantees of a proposal: a task is for a required dimension or none, and no task of a plan
is itself a gap investigation.
`Finalize` builds the evidence ledger and the coverage.  `Ledger` goes through the
admissible items as `aggregate_evidence` does: an item is a passage as retrieval
attributes it, found by several tasks at several ranks (`Hit`); one that clashes with an
item met before is dropped (`Collected`); the rest is taken in the order of its best rank
as long as the limits of items and of characters leave room for it (`Accepted`).
`FinalRank` orders by the hybrid score and, where scores are equal, by the chunk's
identifier: the components of the score, which `fuse` compares in between, are left out.
`Deadline` is the total timeout, at any point.  `ResearchRounds` knows no workers: a round is answered in one
step, its budget is handed out in the order of the tasks, and the next round
consists of the first gaps there is room for.

### GroundedResponse (`llm/response_service.py`, `citation_validator.py`)

One call of `retrieval_response`, or of `research_response` when `ask` is not
`"retrieval"`.  `waiting` says which request the provider is working on: the first, a
retry of a call that failed in a way that is worth it, or a repair.  `Errors` are the
exceptions either provider makes of what its HTTP calls meet.  A draft is the evidence it
cites and two verdicts (`sound`: wording, identifiers, dimensions; `clean`: response
policy).  Identifiers are represented by the evidence about them. `Reindex` is the
ingestion command line replacing the manifest that `validate_citations` reads, at any
time; `Cancelled` the request being cancelled while the provider is waited for.

## 4. Runs

| run | asks | bounds |
|---|---|---|
| `GraphTurns` | two successive turns over every route the router gives, any of the fallible nodes failing, any cancellation: faults reported, memory agrees with the answer, citations are of the answer, answers supported | 2 requests: every hazard between turns is about what one turn leaves to the next; 3 evidence items, one that validation rejects and one that the principal may not read; 1 reference, so that memory must leave something out; `MaxSteps = 20` is above the longest path |
| `GraphOverlap` | two overlapping runs of one principal and one of a second principal: isolation, the step budget before the recursion limit, and again faults and memory | 3 requests, at most 2 at a time; routes that differ in what they write (evidence, own result, neither); `MaxSteps = 9` makes the budget bind on some routes and not on others |
| `MemoryTurns` | three sessions competing for a store of two, two principals, repeated writes of three sizes: limits, order, ownership, who makes room, refinement of the log | 2 turns, 4 characters, 3 references: each limit is the first to bind for some order; 3 request ids; 3 writes to a session, 3 ticks with a time to live of 2: a session expires and is claimed again, the least recently used of two is not the one that expires first, and with `ScanLimit = 1` the scan stops before the second of two expired sessions. States that differ only in the last reply, which nothing reads, are one (`MCView`) |
| `RateLimit` | every pattern of calls to three policies: what is granted, sufficient `Retry-After`, refinement of the eager bucket | 6 ticks, time to live 2, a cleanup of one bucket at every second call; capacity 1 is full before it may be removed, capacity 4 is not, and a cost of 2 exceeds its capacity of 1 |
| `Stream` | two prompts of one page, from the nodes to the validator of the page, with failing nodes, timeouts, refused requests, broken connections and a user at the controls: contract, nothing lost or skipped, one conversation, every stream and prompt ends | up to 2 nodes and 4 events: a gap, a repetition and a failure need no more; 2 prompts: the second meets all that the first can leave behind |
| `Research` | six plans, every collection of five items, failing workers, the deadline: the budget, new searches, a determined outcome, refinement of the rounds, termination | 3 initial tasks, 4 in all, 2 workers, 3 retrievals and 1 analysis: each of the limits is reached in some run and not in others; 2 items and 2 characters in the ledger: a large item may leave no room for the next and some for the one after; two items clash, one is not admissible, and scores tie within a query and between queries |
| `Response` | one answer of either provider for every context of two items, every set of identifiers, every allowance up to 3, two repairs, a new index and a cancellation at any time | 2 repairs is the maximum the settings allow; 2 items distinguish some, all and none, and exceed a citation limit of 1 |
| `Knowledge` | the three commands over two versions of the documents, and one search while they run: builds survive, an index that reports success is stored, evidence is current and permitted, the search ends | 2 builds: every hazard is about two that are mixed; 1 failed operation, crash or killed command, 1 retry; 3 queries (plain, with an identifier only the new build has, with a filter too broad) by the role that gains one chunk and loses another |
| `Chunking` | every document of up to 6 blocks, 3 titles on 2 levels, one of them longer than a chunk: the chunks hold it in order, and only a single block, perhaps under headings, is ever too large | minimum 2, target 6, maximum 8, overlap 2; sizes 1, 2, 3, 7 and 10 lie on both sides of each; at most 3 chunks, so that the limit is exceeded |

Three runs show a disagreement with the documentation (section 7):
`GraphFailuresAreOwn`, `GraphRejectedEvidenceIsDropped`,
`StreamAnsweredTraceCompletes`.

`CHECK_DEADLOCK FALSE` is said where the system really stops: a research run and an
answer end, the page has used up its prompts, the documents their versions (`Stream`,
`Research`, `Response`, `Knowledge`).  The other specifications go on or stutter explicitly
when all is done.

Every property of a passing run has a mutant of the code in `PROJECT.json` (a
dropped guard, a missing reset, a refund, a limit off by one) under which TLC finds it
violated; the mutants stand next to the definition they change, marked "Mutant".

Sets of requests, owners and session ids are symmetric where a run checks no
liveness property.

## 5. Fairness

* `ChatTurn` (`FairChat`): weak fairness of the nodes, the generator, the adapter and its
  ping, one each, and of the script, which takes what has arrived and reruns at the end.
  The user, refusals, timeouts, exceptions and broken connections are not fair.
  `EventStream` by itself, in `StreamAnsweredTraceCompletes`, runs under a specification
  without fairness: the property is an invariant.
* `ResearchRun`: weak fairness of every worker (a search runs under `wait_for`, the
  analysis tool has its own timeout) and of the two coordinator steps.  None for
  `Deadline`: a run ends even if the total timeout never fires.
* `HybridSearch`: weak fairness of what the process does by itself and of the timers it has
  set (`SearchRuns`).  Providers, commands and the client are not fair: a search ends
  although Pinecone never answers.

The other specifications have no liveness properties.  The graph of nodes has no cycle and
the repairs of an answer are counted, so that a run or an answer ends follows from each
node's and each call's ending; the hazard is what bounds them, which `RecursionLimitNotReached`
and `SpendsWithinAllowance` state.  Nothing in the code calls `cleanup_expired`, decisions
of the limiter are synchronous, a command may be killed, and a document is finite.

## 6. Proofs

Each `_proofs` module proves its theorems for every value of the constants that
satisfies the assumptions named in them.

* `AssistantGraph_proofs`.  `TypeCorrect`; `Isolation` from `IsolationInv` (what a
  checkpoint holds was produced by the owner of its session, and a run under way belongs
  to the owner: without the second part a run that started before a claim could write
  results into it); `BudgetEndsFirst` from `BudgetInv` (the counter in the channels and
  the supersteps run together as long as no failure occurred, and after it at most two
  supersteps follow); `FailuresReported` from `FailureInv` (where the failure is, node by
  node); `CitationsBelongToAnswer` and `SupportIsRequired` from `AnswerInv` (for each place a
  run can be at, what its status, answer, citations and verdict can be there, so that the
  output, when it is built, has it); `MemoryIsTheAnswer` from `MemoryInv` (a run whose turn
  is stored has passed `update_memory`, and carries what was stored until the output is
  built).  The assumptions are the typing of the requests, the evidence and the bounds.
* `ConversationMemory_proofs`.  `MemoryTypeCorrect`, `NewestKept` and `LimitsHold`
  from `LimitsInv`, and from it `LiveSessionsStay` (if a live session is evicted, the scan
  found nothing lapsed and the store was full); `ReadersReadTheirOwn` from `OwnedInv` (every
  turn in a session was written by its owner); and `Implements`: every step is one of
  `ConversationLog` or changes nothing of the log.  Eviction from the front is a lemma about
  sequences.
* `TokenBucket_proofs`, for all settings.  `LimiterTypeCorrect`; `NeverOvergrants` from
  `GrantInv` (what was granted and what is still available together are bounded by the
  capacity, the refill and what removals gained; between two removals a bucket was used and
  then left alone for a time to live); `WaitingIsEnough` from `WaitInv` (what is missing is
  there when the wait is over, or the bucket is full); `ImplementsEagerBucket`.  All rest on
  `EvaluateLevels`: a decision changes the tokens of other buckets only by removing some,
  and `IdleHolds`: one that may be removed is full or holds more than the time to live
  refills.  With a time to live that fills the bucket, a removal gains nothing (`Gain`), and
  the bound is the usual one.
* `GroundedResponse_proofs`.  `ResponseTypeCorrect`, `WithinAllowance` and `ReportsCalls`
  from `CallsInv` (while the provider is waited for, calls are one more than repairs and
  within the allowance), and `AlwaysAttributed`, step by step.
* `ChatTurn_proofs`, about the page and the streams below it.  `StreamTypeCorrect`,
  `NoAnswerIsLost`, `NothingIsSkipped` and `ContractIsKept` from `StreamInv`, in three
  parts: `RunInv` (the numbers in the journal, the channel and the parts in flight are one
  unbroken sequence), `WireInv` (what was sent, is held and is pending continue each
  other) and `DoneInv` (a run that is over has its terminal event and its output on the
  way). `ConversationIsOne` from `PageInv` (every answer follows its question, has a
  prompt of its own, and is of the conversation in `SESSION_ID`).
* `HybridSearch_proofs`.  `KnowledgeTypeCorrect`; `BuildsAlwaysSurvive` from `PublishInv`
  (the directory, at each step of each command) and `RestoreInv` (what a command that
  fails would put back is what it found); `IndexIsStored`; `EvidenceStaysCurrent` and
  `EvidenceStaysPermitted` from `SearchInv` (each number the search has read is of a build
  published since it began, and each branch holds only what passed its checks).  The
  assumptions are the typing of the corpus and of the queries.
* `Chunker_proofs`.  `DocumentIsCovered` from `ChunkInv`: the cores and the core being
  packed partition the blocks packed so far into runs of consecutive numbers; closing,
  growing, merging and splitting runs gives runs; that the places at which `Before` and
  `Draft` split exist is the least-number principle.  `TooLargeIsStructural` from `SizeInv`:
  whatever `Pack`, `Rebalance` and `Draft` put together fits into the maximum, unless it is
  one block, perhaps under headings.  The size of a chunk is a sum over its blocks; the
  lemmas say what one more block and two chunks in one make of it.
* `ResearchRun_proofs`, for any plans, collections and limits, and any number of workers.
  `ResearchInv` has seven parts, of which four carry the argument.  `RoundInv`: a round is
  in the order of its identifiers, and is of the plan or, after the first, of gaps only.
  `DispatchInv`: no two tasks ever dispatched ask for the same; each is planned, or is a
  search for a gap that finds nothing, since it repeats a query that found nothing; and of
  the plan nothing is left out that the budget allows.  `AnswerInv`: a task is answered once,
  by a worker that has come to its end.  `CountInv`: what the ledger says is the number of
  answers that were paid for and of the workers that are running.  `LedgerIsExact` is
  `CountInv`, `NothingIsSearchedTwice` follows from `DispatchInv` and `AnswerInv`, and
  `OutcomeFollowsThePlan` from all of them: with budget left and no failure every planned
  task is answered with what it matches, and the searches for gaps add nothing.  None of the
  three properties is inductive by itself: that `Aggregate` adds only new tasks rests on the
  order of the round and on the numbering by the compiler, and the count of tasks on the
  identifiers of a round being different.  The assumptions are `ResearchAssumption`, the
  typing of the limits, and `PlannerAssumption` (section 3).
* In `AssistantGraph_proofs` also three theorems about `EnterpriseTools`, over every question,
  role, request and session: `RoutingIsPermitted`, `RoutingKeepsIdentifiers` and
  `ToolsAcceptRoutedCalls`.

`Chunker` and `ResearchRun` compute over sequences with recursive functions (`Distinct`,
`AddChildren`, the sizes of chunks).  The library's induction over numbers cannot be
instantiated here, so `UpTo` and the lemmas next to it derive what is needed from the
least-number principle: that the function exists, and that a step of it keeps what its
invariant says.

Only model-checked: liveness (`EveryStreamCloses`, `EveryPromptIsSettled`,
`EveryResearchEnds`, `EverySearchEnds`; fairness and ENABLED are beyond TLAPS) and `RunsRounds`, that `ResearchRun` implements `ResearchRounds`: it
needs, on top of `ResearchInv`, which searches of a round a budget that runs out refuses,
and what `AddChildren` adds related to the set of follow-ups of `ResearchRounds`.

## 7. Where the code and the documentation disagree

Shown by runs:

1. `GraphFailuresAreOwn`.  `_base_state` leaves the failure channel of the checkpoint
   alone and `initialize` writes back what it finds: after one failed turn every later
   turn of the conversation fails in `validate_request`.  The same omission of the
   analysis and research channels makes `generate_response` render an *earlier* turn's
   analysis as the answer to a new question, makes `ValidateCitations` judge by an earlier
   turn's verdict, and lets a tool answer or a denial carry earlier citations.
2. `GraphRejectedEvidenceIsDropped`.  `validate_evidence` returns the valid items, but the
   channel's reducer only adds: rejected items stay.
3. `StreamAnsweredTraceCompletes`.  Under SSE the generator is advanced in one task per
   item and closed in another, where the token of the span's context variable is invalid:
   the span of an answered turn ends as "running".

Seen in the code while modelling, and without a run:

* `update_memory` stores the turn before `finalize_execution` has produced an output, so a
  run cancelled between the two has stored a turn (`CancelAfterStore`), while
  `docs/fastapi-chat-sse-design.md:44-45` says cancellation prevents that.
* A node that returns an empty tuple of warnings or evidence resets the channel
  (`graph/reducers.py`), so the warning of a degraded search is lost when validation finds
  nothing to reject.
* The timeout of a streamed run applies to the first item only (`graph/runtime.py:207`).
* A failed citation repair falls back whatever `llm_allow_deterministic_fallback` says,
  and any invalid draft is repaired, also where `docs/error-handling-design.md:24-29` says
  it is not.
* A comparison's fallback cites its whole context without validating it.
* Coverage is computed on what workers returned, not on the ledger, which may have dropped
  it: a dimension may be covered, and the run sufficient, with nothing about it in the
  ledger.  `OutcomeIsDetermined` states the verdict as the code computes it.
* A gap task repeats the query that found nothing, so in the shipped worker a second round
  finds nothing new and a third is always a duplicate.
* `research_response` reports one call although an empty context asked for none.
* The ingestion reads the source manifest twice (`pipeline.py:155`): an edit between the two
  puts the hash of one version into the bundle of another.  The model takes no edit there.
* A command killed between the two renames leaves only the backup, which the next ingestion
  deletes: the sparse files are lost (`torn` excepts this from `BuildsSurvive`).
* The heading pattern of the normalizer also matches inside code fences
  (`normalizer.py:24`), while `docs/ingestion-design.md:19` says fences "remain intact".
* The chunker refuses some documents it could have chunked: a small paragraph followed by
  a block that fills a chunk, a heading directly followed by another top-level heading, a
  heading and a block near the maximum.  The merge of a small rest does not ask whether
  the headings are compatible, and a sentence split by words may exceed the maximum in
  tokens.
* `load_current_chunks` validates the directory, reads the manifest and reads the chunks
  in three steps (`indexer.py:35`); the comparisons that follow catch what differs in
  number or fingerprint.  `_data_index` checks for an index handle before an `await` and
  sets it after (`pinecone_client.py:71`), so two searches may both create one; the
  dimension of the embeddings is cached before the probe that confirms it
  (`embeddings.py:102`), so after a failed probe the next call takes it as confirmed.
* The timeout of the sparse branch never fires, because the branch has no `await`.
  `RetrievalAuthorizationError` is raised nowhere: a filter that is too broad is an
  ordinary failure of the branch.  Asked for together with identifiers that no document
  has, the dense branch answers with nothing before it looks at the filter, and the result
  is partial, while `docs/sparse-and-hybrid-retrieval-design.md:41` says "Authorization
  failures never become partial fallback".  It contains no evidence
  (`EvidenceIsPermitted`).
* The "denied" outcome of the MCP node cannot be reached in this build
  (`ToolsAcceptRoutedCalls`); the graph's handler of it is modelled all the same.  An
  invalid date range, and an aggregate the planner does not know, end the run as failed
  (`docs/python-analysis-tool-design.md:53` agrees for the second).
* A time to live too short to fill a bucket makes removal grant tokens, and a cost above
  its capacity is never granted (`core/config.py:55`): `NoOvergrant` and `RetryIsEnough`
  say by how much, and no validator refuses such settings.
* A rerun in the middle of a turn leaves `PENDING` set, and with it the input, the new
  conversation and the logout disabled (`app.py:54-56,79,88`) until the page is loaded anew.
  `EveryPromptIsSettled` takes such a prompt, which is visibly waiting, for settled.  A connection that breaks after the terminal envelope leaves the
  answer and shows an error.  A first turn that ends in a stream error leaves no
  `SESSION_ID`, so the next prompt starts another conversation.

Hazards of the code that no property covers:

* A request repeated after its turn was evicted is stored again, under a new number
  (`memory/in_memory.py:126`).
* The locks of sessions are never removed (`memory/in_memory.py:57`), and nothing calls
  `cleanup_expired` (`memory/in_memory.py:187`).

## 8. What is not modelled

* Floating-point tokens (`EPSILON`) and the disabled mode of the rate limiter; tables of
  locks; counters that only feed metrics.
* Text: what makes a question fall into a class, sanitizing, follow-up resolution, line
  normalisation and front matter, prompts, passage selection.  Where a result matters it
  is a choice over what the code can produce.
* Numbers: retrieval scores and thresholds, rank fusion, aggregation of tables, conflict
  detection.  Of the candidates a search may keep, it keeps any.
* The HTTP providers, Pinecone, LangGraph and Streamlit, beyond how the code uses them;
  the SDK gateway and the caches of the embedding provider.
* Tasks with several queries and repair of plans, which `FakeResearchPlanner` never has.
* Hashing and signing of tokens; the spans of nodes and the sanitizing of trace metadata,
  which change nothing outside the trace.
* Scripts, the evaluation and the command lines: data generation, reports and argument
  parsing without state of their own.

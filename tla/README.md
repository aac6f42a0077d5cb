# Verification project: Mirae Asset disclosure agent

The repository answers questions about Korean corporate disclosures (DART
filings). An offline part loads filings into SQLite, orders their corrections,
extracts financial facts and builds search and vector indexes. An online part
(FastAPI) takes a question, lets an LLM provider (HyperCLOVA X, "HCX") choose one
read-only tool, checks what the tool found, lets the provider write, checks the
claims it wrote against the evidence, and answers or refuses. The system's promise
is that nothing is shown that evidence with a receipt number does not support.

This directory holds the TLA+ models of that system, their TLC runs and the TLAPS
proofs. `PROJECT.json` maps every definition to the source lines it models.

## 1. Inventory

Paths are relative to `src/src/disclosure_db/`. "Hard" lists what is difficult to
test; every item is in `PROJECT.json` under `hazards` with its line.

### Online

**Public request limiter** (`public_limits.py`, middleware `api.py:289-309`).
State: per address a deque of admission times and a count of requests being
served; a global count. Operations: `try_acquire` (prune every address, then rate,
per-address and global limits in this order), `release` (in the middleware's
`finally`). Hard: pruning while leases are held, entries created by a call that is
then refused, window and Retry-After boundaries.
Correct when: no lease leaks or is given back twice, the caps hold, at most
`PerMinute` admissions fall in any window, Retry-After is true, the table does not
grow with addresses that left.

**Function-calling pipeline** (`hcx_function_calling.py`, with
`tool_registry.py`, `bounded_analysis.py`, `evidence_sufficiency.py`). State: one
call's local state: route, tool response, generated answer, what was already
asked of the provider. Operations: validation, injection screening, bounded
analysis, deterministic route, tool selection by the provider, tool dispatch,
evidence gate, deterministic answers, generation, verification, replacement of
rejected answers. Hard: more than twenty exits in one method, each with its own
status; provider errors at two places; several server-written answers, only some
of which are verified. Correct when: refused or gated questions cause no (further)
provider call, shown claims rest on cited and admitted evidence, shown sources
have receipts, a correction is shown with both filings, a judgment is shown only
within the bounds of its plan, and every call ends.

**Claim verification** (`claim_verification.py`). No state: `build_claim_admission`
computes the admitted facts, calculations and slots of a response,
`verify_generated_claims` accepts or rejects the generated claims. Correct when:
each claim's numbers, facts, calculations and slots are admitted and their
evidence is cited by that very claim.

**Official endpoint** (`api.py:469-527`, `agent.py`). State: a health snapshot from
start-up. Operations: validate, check readiness, call the pipeline, fall back to
the deterministic agent. Hard: which failures fall back, swallowed exceptions,
`as_of`. Correct when: a deliberate refusal stands, the reply agrees with the
pipeline, each request is replied to once.

**Retrieval** (`evidence_service.py`, `hybrid_retrieval.py`,
`freeform_retrieval.py`, `reranker.py`, `dense_client.py`). State: lazily loaded
index, caches of dense filings; the corpus is immutable while the service runs.
Operations: `search` (facts, sparse index, dense service, fall-back to the corpus,
reranker), corpus-wide questions, `search_analysis` for the slots of a judgment,
hydration. Hard: six readers write the version rule in SQL of their own, silent
degradation when the dense process fails, limits shared between slots. Correct when: no evidence of a superseded, unsafe or foreign filing reaches an
answer, and a judgment is complete only when every slot is.

**Dense runtime** (`dense_runtime.py`). A separate process: checks hashes at start,
then serves vector search. State: offset file and its manifest. Hard: kill between
the two renames; files checked and opened again. Correct when: a hit names the filing
of its own vector.

**Planning** (`query_planner.py`, `analysis_planner.py`, `analysis_contracts.py`,
`financial_accounts.py`): functions of the question. Hard: overlapping names of
accounts, several years or companies in one question, words that set a policy for
the whole plan. Correct when: filters (company, scope, period, `as_of`) are kept and
an account is resolved only when the text names no other.

**Tools** (`disclosure_tools.py`, `tool_registry.py`, `evidence_sufficiency.py`):
five read-only tools over the retrieval, and the dispatch that validates a call and
lowers its result to what the evidence allows. Hard: several tables of one report
with different numbers, units or scopes. Correct when: a response is `sufficient`
only if it answers its own request.

**Agent and verifier** (`agent.py`, `answer_verifier.py`, `generation.py`,
`calculator.py`): plan, retrieve, attach a calculation, draft, verify. Correct when:
numbers shown follow from facts whose evidence is cited.

**QA lab** (`qa_lab.py`, `gold_workbench.py`, `gold_validation.py`). State: SQLite
rows of questions, reviews, gold candidates with a revision and a status.
Operations: create, update, decide. Hard: `update` and `decide` read on one
connection and write unconditionally on another. Correct when: an approved
candidate is not changed and was approved as its reviewer saw it, by someone else.

**QA cases and runs** (`qa_evaluation.py`). State: a JSONL file, one result file
per run. Hard: read-modify-write without a lock.

### Offline

**FAISS build** (`bge_m3_faiss.py`). State: index, metadata, failures, checkpoint
and manifest files; an index in memory. Operations: fresh start, resume (drop
vectors beyond the checkpoint, truncate both JSONL files), one batch, publish,
complete. Hard: a kill between any two file operations and inside an append, the
order of the writes, the limit, malformed lines. Correct when: the checkpoint can
always be resumed, each line is embedded or failed once, a manifest is always true.

**Chunk build** (`embedding_chunks.py`). The same kind of checkpoint over three
files and two phases, with groups that may fail half-way. Correct when: resumed after
any kill, no group is lost, repeated or torn, and each chunk is within its limit.

**Corpus pipeline** (`pipeline.py`, `parsers.py`, `schema.py`, `quality.py`,
`migration.py`, `attestation.py`), **lineage** (`lineage.py`), **search index**
(`search_index.py`), **financial facts** (`financial_*.py`): scripts an operator runs
over SQLite. Hard: promoting finished files under their served names, a promoted file
that is written to once more, derived files beside a corpus that is replaced, corrections that arrive out of order, statements
that disagree. Correct when: a kill never loses the corpus, what is derived is served
only beside the database it was derived from, on every date one version of an event
is in force, and a fact stands in the database it is served beside.

**Evaluation and release gates** (`release_gate.py`, `*_evaluation.py`, `stress_*`,
`judge_stress_*`, `model_review.py`), **wiring** (`runtime.py`, `cli.py`), the
**web pages**, **team-qa** (a Next.js page with a local JSON store), scripts,
deployment files, data and documents.

### Interactions

```
client -> middleware (limiter) -> GET /answer -> pipeline -> provider (choose)
                                     |              |-> tools -> evidence service -> SQLite, dense runtime
                                     |              |-> provider (write) -> claim verification
                                     |-> deterministic agent (fallback)
filings -> pipeline.py -> SQLite -> lineage, facts, search index, chunks -> FAISS build -> dense runtime
```

## 2. Modules

| module | models | state and actions |
|---|---|---|
| `AdmissionControl` | abstract: what admission promises | requests in flight and every grant ever made; no table, no counters |
| `PublicRequestLimiter` | `public_limits.py` and the middleware | `clients`, `globalActive` are `_clients`, `_global_active`; `ReadClock`, then one of `Admit`, `RateLimited`, `IpBusy`, `ServerBusy` (the returns of `try_acquire`), `Release` |
| `ClaimVerification` | `claim_verification.py` | operators: `Admission(response)`, `Verified(response, answer)` |
| `AnswerFlow` | `HcxFunctionCallingService.answer` | `pc` is the place in the method; one action per branch with its early return; `calls` and `broken` remember provider calls and failed round trips |
| `AnswerCases` | the values the runs use | routes, tool responses, analyses, generations |
| `OfficialAnswer` | `GET /answer`, composing `AnswerFlow` through `INSTANCE` | `stage` around the pipeline's state; `PipelineStep` is a step of `AnswerFlow`; `AgentReplies` is the fallback |
| `EmbeddingLedger` | abstract: a build that never dies | outcomes of lines in order, published or not |
| `FaissBuild` | `build_bge_m3_faiss` | five files, the builder's `pc` and memory; `Crash` at any file operation |
| `GoldRecord` | `gold_workbench.py`, `gold_validation.py` | operators: the packet, the record, its automatic checks, the rules of the release gate |
| `GoldWorkflow` | reviews, candidates and decisions of `qa_lab.py` | each handler is `Begin…` (its reads, on one connection) and `Commit…` (its write, on another); `Redeploy` replaces the corpus in between |
| `EvalVerdict`, `EvalCases` | `qa_evaluation.py` | the verdict on a traced answer, layer by layer; edits and runs over one JSONL file as separate reads and writes |
| `Lineage` | `lineage.py`, version filters, `identifiers.py` | `Versions(filings)`, `InForce`, `Effective` |
| `TableGrid` | `parse_markup` of `parsers.py` | the positions of spanning cells |
| `CorpusDatabase` | `pipeline.py`, `quality.py`, `migration.py` | the files `served`, `previous` and `temp`; `build_database` step by step, promotion, the size recorded in the promoted file, migration of a copy, `KillBuild` |
| `SearchIndex` | `search_index.py`, extends `CorpusDatabase` | the builder's hash, open, copy and promotion while the corpus may be replaced; what a start accepts; the filters of a search |
| `FinancialOverlay` | `financial_overlay.py`, extends `CorpusDatabase` | build and import of the overlay beside a rebuilt corpus; what a fetch accepts |
| `FinancialFacts` | `financial_universe.py`, `financial_extraction.py`, `financial_validation.py` | operators from statement tables to candidates, reviewed seed, event facts and coverage |
| `Chunker`, `ChunkBuild` | `embedding_chunks.py` | cutting a group; three files in two phases with failing groups, checkpoints, `Killed`, `--resume`, `--overwrite` |
| `DenseArtifacts` | `dense_runtime.py` | released and derived files, a start's checks, replaced releases, the lookup of a hit |
| `EvidencePolicy` | the version rule of seven readers | one operator per SQL filter, `ReadersAgree` between them |
| `QueryPlanning` | `query_planner.py` | `plan_query` over the words, years and account of a question |
| `AnalysisPlanning` | `analysis_planner.py`, `analysis_contracts.py` | `plan_analysis`: refusals, dimension, slots of issuers and periods |
| `AccountResolution` | `financial_accounts.py` | matches of surfaces in a text, shadowing, the resolution and its reason |
| `EvidenceRetrieval` | `EvidenceService.search` and its providers | from a plan and a setting to the bundles it may return |
| `AnalysisRetrieval` | `search_analysis`, `bounded_analysis.py` | slots filled in order within shared limits; sufficiency |
| `DisclosureTools` | `disclosure_tools.py`, `tool_registry.py`, `evidence_sufficiency.py` | the five tools on statement tables and retrieval, validation and dispatch |
| `AgentAnswer` | `agent.py`, `answer_verifier.py`, `generation.py`, composing `EvidenceRetrieval` | `Ask`, retrieval, calculation, draft of the provider or the generator, verification |
| `AccountQuestions`, `CorpusSamples` | no code: the texts and inputs that the pure algorithms are asked about, and what is stated of their results | a constant input, any of a set |
| `PublicRequestLimiterProofs`, `AnswerFlowProofs`, `OfficialAnswerProofs`, `FaissBuildProofs` | theorems about the module of that name | |
| `QaWorkspaceProofs` | theorems about `GoldRecord`, `GoldWorkflow`, `EvalVerdict` and `EvalCases` | |
| `AlgorithmProofs` | theorems about `AccountResolution`, `TableGrid`, `FinancialFacts` and `Chunker`: functions of their input | |
| `CorpusProofs` | theorems about `Lineage`, `CorpusDatabase`, `SearchIndex`, `FinancialOverlay`, `ChunkBuild`, `DenseArtifacts` and `CorpusSamples` | |
| `AgentAnswerProofs` | theorems about `EvidencePolicy`, `EvidenceRetrieval`, `AgentAnswer`, `AnalysisRetrieval` and `DisclosureTools` | |
| `MC*` | instances for TLC | `MCQaWorkspace`, `MCCorpusBuild` and `MCAgentAnswer` hold several components; `part` says which one a behaviour follows |

Definitions commented as "Faulty variant of D" are the bugs that the mutants in
`PROJECT.json` put in place of `D`: each property of a passing run is shown to
fail for at least one of them.

### How they compose

`OfficialAnswer` runs `AnswerFlow` inside it. `SearchIndex` and `FinancialOverlay`
extend `CorpusDatabase`, so a corpus is rebuilt while they work on it;
`CorpusDatabase` computes its versions with `Lineage`. `EvidencePolicy` reads those
versions, `EvidenceRetrieval` puts the policy between a plan of `QueryPlanning` and
the corpus, and `AgentAnswer`, `AnalysisRetrieval` and `DisclosureTools` are its three
users.

### Abstractions

* Numbers written in Korean text are the set of numbers a claim mentions; a
  citation, fact, slot or evidence item is a small value. Message wording is left
  out, except that a text passes the policy checks or does not (`clean`).
* In `AnswerFlow`, what a tool, the router, the bounded analysis and the provider
  return is any value of the sets in `AnswerCases`; each may also fail wherever the
  code catches an exception.
* A question of the planner is the marker words, years, company and account found in
  it; the regular expressions that find them are left out. `AccountResolution`, where
  the position of a name in the text matters, has texts of a few characters.
* Rankings and scores are left out: a search returns any rows it may return up to its
  limit, the dense service any ids, the reranker any order of what it got.
* The digest of a database is a number: odd for the file that a build promotes, the next
  even one once its size is written into it. A file is what its rows mean. Renames are atomic, appends arrive in order and may be cut short
  anywhere. A crash is a killed process; data lost with the machine (missing fsync of
  the index) is not modelled, and the code detects it only on resume.
* A date is a number; years, quarters and months of `QueryPlanning` and
  `DisclosureTools` are numbers of one scale. Amounts are integers and the samples
  make quotients exact.

## 3. Runs

| run | question | bounds |
|---|---|---|
| `public_request_limiter` | leases, caps, window, Retry-After, and refinement of `AdmissionControl` | six requests, four of one address and two of another: more than `PerMinute` = 2 in a window, the caps of an address (2) and of the server (3) different and both reachable, six ticks against a window of four, so timestamps expire while a lease is held; two ticks to a second, so rounding up matters |
| `answer_flow` | grounding, receipts, gated provider calls, bounded judgments, termination | one question; the values of `AnswerCases` hold one case for each rule of the verifier and each branch of the pipeline; one citation at most, so truncation happens |
| `official_answer` | refusals stand, the two paths agree, each request is answered | the same values, requests with and without `as_of` and service |
| `faiss_build` | recovery, published manifest, refinement of `EmbeddingLedger`, completion | six lines of which the limit takes five, batches of two (two full, one short), a malformed line inside a batch, three kills: one may hit the build, one its resume, one the end |
| `qa_workspace` | `ExportedWasReviewed`, `ApprovalsValidate`, `CasesUnique`, `PassMeansExpected` | two threads, so that two handlers overlap in every way; two people, so that a reviewer may be the annotator; three annotations (valid on both corpora, on the first, on none) and two corpora, the second with a correction that makes a filing stale; two revisions and decisions; two cases edited and run by two editors |
| `corpus_build` | `NeverLost`, `MigrationWhole`, `IndexOfBase`, `ChunksDurable`, `HitsAttributed` (files); `ServedLineageSound`, `OneVersionPerEvent`, `PiecesSound`, `SeedSound` (results) | two builds over four corpora (a correction chain, a correction without its original, a corpus that fails its count), so that a corpus is replaced under a running index or import; chunk builds of five groups, two that break, three starts; three dense releases, one with the stamp of another, kills at each write. Samples: every set of up to four of nine filings, cuts with targets 1 to 4, tables of three rows with spans, statements that agree or disagree and that changed since their extraction |
| `agent_answer` | `EvidenceAdmissible`, `NumbersCited`, `AnalysisComplete`, `AccountsCertain`, `ToolEvidenceSufficient` | seven filings of two companies with corrections of each kind, thirteen evidence items, facts of three years, one of another scope; three settings (every service there, none and a broken index, an overlay of another database); twenty-eight questions and thirteen judgments (of years, days and several dates, on accounts of the catalog and on labels that no account has), two asked in turn, so that the second meets what the first cached; limits of two and three so that slots compete; statement tables that disagree in scope, number and unit |
| `server_answers_grounded`, `official_as_of`, `approved_immutable`, `asked_periods_used`, `originals_are_original` | documented promises the code does not keep; TLC must find the counterexample | as the passing run of the same module |

Sizes: `public_request_limiter` 204,000 distinct states, `corpus_build` 508,000,
`qa_workspace` 294,000, `agent_answer` 67,000. The bounds are constants of the specifications (`MaxTime`, `MaxCrashes`,
`MaxBuilds`, `MaxStarts`, `MaxDeploys`, `MaxQuestions`, `MaxRevision`, `MaxDecisions`,
`MaxCases`, `MaxRuns`) or sizes of the sets; nothing else limits the search.
Deadlock is not checked: a question, a request, a build and a sample end, in the
limiter time stops at `MaxTime`, and the QA workspace stops at its bounds. Symmetry is used for
the threads and the people of `qa_workspace` and for the requests of one address of
`public_request_limiter`, which have no liveness property.

Some properties of the large runs say more than their name:

* `EvidenceAdmissible`: whichever reader delivered it, the evidence of a bundle is
  parsed text of the company asked for, of a version the policy and the date admit and
  without injected text; and every fact is shown with evidence of the bundle.
  `ReadersAgree`, on the versions of the whole corpus, is an assumption of that run, and
  a theorem (section 5).
* `ToolEvidenceSufficient`: for each tool, what a `sufficient` response is of: text of the
  company, filing, days and version asked for; facts of the account, scope and period;
  an unbroken lineage from the original to the version in force; the latest filings of
  a trend; a figure in the row of the account, under a header that fits the year and quarter, that
  no other statement of its scope and kind contradicts in value or unit. What a header
  says of its column is believed; whether it is true nobody checks.
* `IndexOfBase`: an index that the service accepts beside a database was computed
  from it, including when a build read two databases under one name or a database whose
  size was recorded meanwhile. `SeedSound` says
  the same of the overlay, and that each imported fact stands in the database.
* `PiecesSound` also checks the lineage of every sampled set of filings.

### Fairness

* `AnswerFlow`: the handler runs on a worker thread and every provider call has a
  timeout (`HyperClovaFunctionClient._chat`), so the method always takes its next
  step. `Returns` uses weak fairness of the whole step and of nothing else.
* `OfficialAnswer`: the same, around the pipeline.
* `FaissBuild`: a running builder takes its next step, and after a kill the
  operator runs the command again with `--resume`; the number of kills is finite.
* The limiter, the QA workspace, the corpus side and the agent have no liveness
  property and no fairness: they never wait for one another, and whether an operator
  repeats a command is not the code's.

## 4. Findings

Five documented statements the code does not keep, each with a run that shows it
(details and quotations in `PROJECT.json`):

1. An answer the server writes in place of rejected claims is not verified again
   and cites at most five evidence ids, although it shows all rows
   (`server_answers_grounded`).
2. `GET /answer` does not pass `as_of` to the pipeline (`official_as_of`).
3. An edit of a gold candidate that began before an approval and is written after it
   replaces the approved candidate and withdraws the approval (`approved_immutable`).
4. A question with several years is answered for the first one it names; the growth
   from one year to the next can be the growth up to the earlier year
   (`asked_periods_used`).
5. The word for a correction sets one policy for all slots of a judgment, so its
   original side can be text of the correction (`originals_are_original`).

Met while modelling and not given a run of their own:

* A claim may rest on evidence without a receipt; only its source is omitted.
* The policy checks of the pipeline read the provider's answer field, not the claim
  texts that are shown (`hcx_function_calling.py:2655`).
* A bounded analysis that fails closed is retried on the deterministic agent
  (`api.py:503`).
* A ranking of the lowest is answered with the highest (`query_planner.py:156`).
* Corpus-wide questions ignore `as_of`, the policy and a company they name
  (`evidence_service.py:1032`), and `BoundedAnalysisExecutor` ignores `as_of` (245).
* The grain of an attached calculation leaves out scale and unit (`agent.py:146`).
* A column headed by a current term matches whatever fiscal year the question names
  when the latest one is asked for (`disclosure_tools.py:407`), and a summary with an
  account that is not on a statement is never sufficient.
* `failed_only` after a run without failures selects every case (`api.py:845`).

Further hazards that no property covers, beyond those listed in `PROJECT.json`: the health
snapshot of start-up (`api.py:370`), the dense identity checked only once
(`dense_client.py:265`) and a requested company stamped on its hits (413), caches never
invalidated (`evidence_service.py:175`), a file checked and reopened by its path
(`dense_runtime.py:374`), the index replaced without fsync (`bge_m3_faiss.py:502`),
the read-modify-write of the team site (`team-qa/lib/store.ts:132`). Most of them need
a file or a process that changes under a running server, or a failure of the machine;
the models take the files of a running service as fixed.

The two places where a property stops short of what one might expect:

* After a kill of the FAISS build before its first checkpoint, `--resume` refuses
  (no checkpoint) and a fresh start refuses (outputs exist): only an operator's
  deletion helps. `Recoverable` starts from the first checkpoint.
* `--overwrite` of the chunk build deletes the outputs one by one: killed in between, it
  leaves neither the old build nor a resumable new one. `ChunksDurable` leaves that state
  out; a further `--overwrite` leads out of it.

## 5. Proofs

Eight modules prove what follows for every value of the constants; the runs of
section 3 check the same definitions on small instances, and each inductive invariant
was checked on such an instance before it was proved. Besides the named assumptions on
constants, the hypotheses are `EventLoop` (of the limiter),
`ForeignKeys` (of the gold workflow), `WellFormed` (of the QA cases), `CorpusSound`,
`OverlaySound`, `QuestionsSound`, `JudgmentsSound` and `ToolsSound` (of the agent, its
analyses and the tools); TLC evaluates them all on the instances of the runs.

**The limiter.** `PublicRequestLimiterProofs` proves, for every finite set of requests,
every set of addresses, every limit and window, and for callers on one event loop as
well as on threads (`EventLoop` is either):

| theorem | property |
|---|---|
| `TypeCorrect` | `Spec => []TypeOK` |
| `LeasesAccounted` | `Spec => []LeaseAccounting` |
| `CapsRespected` | `Spec => []ConcurrencyCaps` |
| `TableBounded` | `Spec => []NoIdleEntries` |

from `RequestsAssumption`, `LimitsAssumption` (what `from_env` enforces) and
`BoundAssumption`. The inductive invariant is the conjunction of the four. They
need each other: that a cap on counters is a cap on requests needs the accounting;
the accounting after pruning needs that a pruned entry has no lease, which is what
the deletion condition `Idle` says; that `release` finds its entry needs that an
address with a request being served has one. Lemmas on the table operators
(pruning keeps active counts, an entry that survives is not idle) and on
cardinalities carry the steps; the proof has one step per action.

From that invariant the module goes on to:

| theorem | property |
|---|---|
| `WaitingIsEnough` | `Spec => RetryAfterHonoured`, threads included |
| `WindowKept` | `EventLoop /\ Spec => []SlidingWindow` |
| `LimiterImplementsAdmission` | `EventLoop /\ Spec => ImplementsAdmissionControl` |

The limiter sees only its pruned deque; the properties speak of every admission ever
made. `CoveredAt` ties the two together: the deque is the end of the address's
admissions, and what is missing has left the window of any clock value still to be
decided on. That needs clock values to be decided on in the order they were read
(`WindowInv`), which one event loop gives and threads do not: there a late, smaller
clock value comes after a newer one, and TLC shows the window exceeded. `api.py`
calls the limiter from an async middleware without an await in between, so `EventLoop`
is the code's case and the run's, and threads are no hazard of it. The
refinement then replaces counters by requests being served and deques by admissions
within the window, step by step. `RetryAfterHonoured` needs none of this, only that a full
deque's oldest timestamp is at least as old as when the refused address was told to return
(`RetryInv`), and that rounding up to whole seconds never tells too little.

**The pipeline.** `AnswerFlowProofs`, with no assumption on the tool responses, the
analyses, the routes and what the provider writes:

| theorem | property |
|---|---|
| `TypeCorrect` | `Spec => []TypeOK` |
| `NumbersRestOnCitedEvidence` | `Spec => []AnswersGrounded` |
| `AnswersShowReceipts` | `Spec => []ReceiptsShown` |
| `ProviderAskedAsGated` | `Spec => []ProviderCallsGated` |
| `JudgmentsAllowed` | `Spec => []JudgmentsBounded` |

The invariant says at each stage which calls have been made, that who needs the key has
it, that an analysis has no conclusion before its answer is accepted, and that a
returned result is `Sound` for the response it was made from. `ClaimGrounded` is the
lemma behind the first property: what `Verified` accepts of one claim (its references
are admitted, their evidence is cited, its numbers are theirs) grounds every number
in the claim's own citations; `GroundedMonotone` carries that to the whole answer.
The same properties for a server answer given in place of a rejected one are what
the code does not keep (finding 1), and `AnswersGrounded` leaves that case out.

**The endpoint.** `OfficialAnswerProofs`: `TypeCorrect`, `RefusalsAreFinal`
(`RefusalsStand`) and `RoutesAgree` (`AnswersAgree`), from `OfficialAssumption`: evidence
with a receipt is of a filing, which has its date. `FlowInv` restates what the pipeline
returned in the terms of the handler, `HandlerInv` where the pipeline is while the
handler waits for it.

**The FAISS build.** `FaissBuildProofs`, for every number of lines, malformed lines,
limit, batch size and number of kills (`FaissAssumption`):

| theorem | property |
|---|---|
| `TypeCorrect` | `Spec => []TypeOK` |
| `CheckpointsRecoverable` | `Spec => []Recoverable` |
| `ManifestsValid` | `Spec => []PublishedValid` |
| `BuildImplementsLedger` | `Spec => ImplementsEmbeddingLedger` |

None of the three properties is inductive. The invariant says that the committed part
of the files is a build of the lines the checkpoint counts, whatever follows it
(`CheckpointInv`); that the memory is that build extended by at most one batch
(`BatchInv`), so that torn appends lie behind what is committed; how far a resumed build
has cut the files (`RepairInv`); and that under a manifest nothing is left to read
(`ManifestInv`). `BuildGrows` is the core lemma: a build of the first lines and a
batch of the next ones are a build of both. The refinement maps the checkpoint to
the ledger: a checkpoint is the ledger's commit, a manifest its publication,
everything else, crashes included, a stutter.

**Lineage, the corpus and its index.** `CorpusProofs`, for every set of manifests whose
filings have distinct ids and a date (`CorporaAssumption`: `filing_id` is a primary key,
`filed_at` is not null):

| theorem | property |
|---|---|
| `VersionsAreSound` | `LineageSound` of `Versions(filings)` on every date |
| `ServedCorpusSound` | `Spec => []ServedLineageSound` |
| `DatabaseNeverLost` | `Spec => NeverLost` |
| `MigrationRecordedWhole` | `Spec => []MigrationWhole` |
| `AcceptedIndexIsOfItsBase` | `IndexedSpec => []IndexOfBase` |
| `SearchesOneVersion` | `IndexedSpec => []OneVersionPerEvent` |
| `OverlayServedBesideItsBase` | `OverlaidSpec => []OverlayOfBase` |
| `HitsOfTheirFilings` | `DenseSpec => []HitsAttributed` |
| `ChunksAreDurable` | `ChunkSpec => []ChunksDurable` |
| `ServedFactsStand` | `OverlaidSpec /\ SampleSpec => []SeedSound` |
| `PiecesKept` | `SampleSpec => []PiecesSound` |

`VersionsAreSound` is about `build_lineage` itself. The sort key (date, then id) is a strict
total order, so the number of earlier members is a bijection onto the places of the chain
(`PlacesTaken`, by counting) and the filings made by a date are the first ones
(`FiledByThen`); from this `ChainIsSound` has one version in force on each date. That the
three passes of `build_lineage` put each filing into one chain, and no two chains
into one event, is `EveryFilingInAPiece`, `PiecesDisjoint` and `PiecesDiffer`: two
corrections that share a member of their chains declare the same original. That the versions of an
event are numbered in the order of filing, each after its parent (`Numbered`), is what the
tools rely on. The state machines then need only that what has a name is `Finished` (`PromotionInv`), that what a migration
has written since its last start is in the open transaction (`MigrationInv`), and, for the
index, that a digest is met under one name only and the two digests of a running build
(before and after its size is recorded) are newer than that of any index (`DigestInv`): so an index whose base is still the served one at the
second look was projected from it (`ProjectInv`), although the file was opened by name
in between. `OverlayInv` is the same argument for the overlay, which keeps the digest of
its database through build and import. `LoadedInv` says of the dense runtime what its
start established about the files in memory, and that the hashes it checked bind the
offsets, the ids and the vectors to one release: a hit is then looked up in the table of
its own vector, over every sequence of deployments and starts.

**The chunk build.** `ChunksAreDurable` holds for every list of groups, every valid
configuration and every number of starts (`ChunkAssumption`: the counts of tokens are
numbers, a unit has finitely many evidence ids). `ChunksDurable` speaks of the checkpoint
and of what the three files hold up to its offsets, and is not inductive: a checkpoint
is written from the files as they are, and a resumed build goes on from a cursor. So
`ChunkInvariant` adds what the running process knows: while it writes, each file holds
exactly the rows of the groups before its own cursor (`BuildRunning`), the checkpoint's
cursor is that of rows which are still there (`BuildSaved`, `UpTo`), the manifest was
written from the files that the last checkpoint will name (`BuildFinal`), between
creation and the first checkpoint all files are empty (`BuildFresh`), and a half-done
`--overwrite` has deleted a file that `--resume` would miss (`BuildHalf`), which is why
`--resume` refuses what a killed `--overwrite` leaves. A kill cuts each file by itself to
any length at or above its offset (`LoseEnds`), and `--resume` then brings all three back
to one cursor (`CutBack`). The rows of the first groups are `ExpectedRows`, a function
from the number of groups; that it exists and is the concatenation of the groups' rows
is `RowsExpected`.

**The algorithms.** `AlgorithmProofs` is about functions of their input:

| theorem | of every |
|---|---|
| `ResolutionIsSound`, `AccountsAreCertain` (`ResolveSpec => []AccountsCertain`) | catalog the constructor accepts, and text |
| `ChunksCoverTheText` (`BodiesSound`) | valid configuration, prefix and list of units |
| `CellsHaveTheirPlaces` (`GridSound`) | table whose spans are positive |
| `ImportedFactsStand` (`ImportSound`) | two databases and decisions |
| `AcceptedCoverageIsTrue` (`CoverageSound`) | seed over finitely many companies |
| `EventFactsSupported` (`EventsSound`) | finite set of candidates |

`PiecesKept` and `ServedFactsStand` state them, with the theorems on lineage and on the
overlay, of any sample of `SamplesAssumption`; `CatalogAssumption` and `TextsAssumption`
are those of the account names. TLC evaluates the assumptions and the same definitions on
the samples of its runs.

These results need induction over data, and the library's induction theorems take the
statement as an operator. Here it is a set: `LeastNumber` is the library's theorem on
well-founded relations, whose parameters are sets; `Counting` says that a set with 0 and
with the successor of each of its members has every number up to a bound; and `Recursion`,
that a function defined from its value one place before exists. The argument over a text
or a table is then about the set of the lengths up to which a named invariant holds.
Account names: each occurrence of a surface that is left out lies within a longer one that
is kept (`WithinUnshadowed`), and only occurrences of one account are kept. Cutting:
`AddSound` is the induction over what remains of a unit, `CutSound` the one over the
units; the invariant says up to which place of the text the chunks are out (`OutSound`) and
from where the chunk in progress repeats it (`Seam`). The states of the loop (`CutStates`)
include no failed one: a valid configuration always makes room for a token after the
overlap, so the failure `chunk_overlap_exhausted_token_budget` cannot occur
(`embedding_chunks.py:282`). Tables: the walk of a row
over columns taken by spans from above always ends on a free position (`PositionFree`),
and a placed cell stays in place (`PlaceKeeps`).

**The gold workflow.** `QaWorkspaceProofs` proves, for every set of threads, people,
reviews and annotations and every sequence of corpora with their foreign keys
(`ForeignKeys`, the schema's references from evidence to its source):

| theorem | property |
|---|---|
| `ExportsReviewed` | `ForeignKeys /\ Spec => []ExportedWasReviewed` |
| `ApprovalsPass` | `ForeignKeys /\ Spec => []ApprovalsValidate` |

Neither property is inductive: a commit writes what was checked several steps before,
when other calls had not yet been committed. `WorkflowInv` therefore says of every
call in progress what has been checked (`CallChecked`), and that this depends on
nothing another call may change: a decision carries the record and the corpus it was made
on. `AutomaticChecksImplyGate` is the lemma behind `ApprovalsPass`: a record computed
on a corpus has only rows of it, so of the gate's rules those remain that the
automatic checks contain.

**The QA cases.** `QaWorkspaceProofs` also, for every number of cases, editors and answers:

| theorem | property |
|---|---|
| `NoCaseTwice` | `EvalSpec => []CasesUnique` |
| `PassedRowsAreRight` | `WellFormed /\ EvalSpec => []PassMeansExpected` |

An editor writes what it read before any number of other editors wrote, so an edit may be
lost; a repeated id cannot be saved, because the list is checked again where it is
written. `RunInv` says that each row of a run is the verdict on
its own case and answer; `NoLayerFails` turns a verdict of pass into the absence of a
failure in each of the ten layers, because the first failing layer has a name.
`WellFormed` is about the shapes in a case and an answer: a limit of calls is a
number, citations and the tools that ran are lists.

**The evidence of the agent.** `AgentAnswerProofs`:

| theorem | property |
|---|---|
| `ReadersNeverExceedHydration` | `ReadersAgree` of all versions, policies and dates |
| `EvidenceIsAdmissible` | `CorpusSound /\ QuestionsSound /\ AgentSpec => []EvidenceAdmissible` |
| `AnswersCiteTheirNumbers` | `CorpusSound /\ OverlaySound /\ QuestionsSound /\ AgentSpec => []NumbersCited` |
| `JudgmentsRestOnEvidence` | `CorpusSound /\ JudgmentsSound /\ JudgeSpec => [](AnalysisComplete /\ EvidenceAdmissible)` |
| `ToolAnswersAreSufficient` | `CorpusSound /\ ToolsSound /\ ToolSpec => []ToolEvidenceSufficient` |

The first says that none of the six readers with a version rule of its own admits what
hydration refuses. The second rests on it: `RetrievalInv` says at each place of `search`
that the evidence found so far is admissible for the plan in hand, that the facts
found so far are rows of the overlay with evidence of their own, and that each entry of
the cache of dense filings was computed for the query under which it is stored
(`CacheSound`): so a second question may meet what the first one cached. What the dense
service and the reranker return is not restricted. The lemmas follow the readers: what
is kept of a sequence of rows (`HydratedRows`, `FinalRows`), which rows the sorts of
`fetch_overlay_facts` and `fetch_event_facts` return (`SortedFacts`, from a total order).
`CorpusSound` is what `_base_evidence` of the overlay's import enforces (a fact's evidence
is of the fact's filing) and what its keys make unique; `QuestionsSound`, that a question
names finitely many years and that what it names in several dates are days or months.

The third carries the numbers from the overlay to the verified answer (`AnswerInv`). The
facts found are what is left, after hydration and the cut, of distinct overlay facts of the
company and the account asked for (`FromOverlay`): that makes the operands of a
calculation, which share statement and scope, facts of different periods, because the import
refuses a second fact of an issuer, account, year and scope (`OverlaySound`), and a sum of a
single operand is the value of that fact. `CalculationSound` and `DraftSound` hold what the
verifier then compares: it accepts no answer with a number that is neither. For a count over all
companies `CountRight` shows that the facts are listed one per issuer, the newest of the
preferred scope (`NewestIsBest`), before the limit cuts: a list as long as there are
companies misses none, and only then is the count computed. `OverlaySound` assumes of
the corpus that no two issuers share a name, and of the seed that its rows carry the
columns of the grain, without which the import does not look for a second one.
The prover unfolds the sum for one operand only; that the sum of more is right is what
`SumFunction` says of itself, and TLC computes it.

The fourth theorem is about a judgment, which makes many searches and takes what each found
before the next begins. `AnalysisComplete` says nothing until the verdict, so `JudgeInv`
keeps, besides `RetrievalInv`: of each slot already filled, that its items fit it and its
facts are rows of the overlay with evidence among them (`SlotFilled`), that the items
admitted so far are within the limit of the analysis, and of the slot in hand, that the
plan is the one of its own lookup and what was found so far fits it (`SlotInv`). The
executor then only removes: `Owned` must leave every item of a mandatory slot, and
`PeriodsCovered` counts the periods of the overlay's rows against those of what
hydration left of them. `JudgmentsSound` says that the numbers of the catalog's slots are
numbers, that a question names finitely many years and dates, and that the evidence is
finite.

The last theorem takes the five tools in turn, each with a lemma of its own about what its
reply says when the checker calls it sufficient, although the checker looks at much less
(the checker compares companies, accounts and days; it knows no version, no period of a
fact and no cell). `ToolInv` carries `RetrievalInv` and `FactsOfOverlay` through the lookup
that `get_financial_facts` shares with the agent, and says that this lookup is the one of the
request in hand (`FactPlanned`). For a lineage, `ChainListed` has the versions sorted by
number in the places their numbers say, by counting; for a trend, a filing newer than
one shown has fewer ahead of it (`NewestFirst`); for a statement, cells with one
value and unit among finitely many agree (`UnanimousAgree`), and the column that was taken
fits the request (`CellOfReport`). `ToolsSound` is what the tools take for granted, and each
part is enforced elsewhere: a request passed the schema of its tool (`RequestsSound`); the
versions are those of `build_lineage` (`ChainsSound`: the days are those of the filings, and
the numbering is `Numbered`, which `VersionsAreSound` proves of every set of filings, so
also that no correction comes before what it corrects); a table is finite
(`FilingsSound`); and the import refuses an instant with a period (`InstantsSound`,
`_period_ok`). Nothing is assumed of the headers of a statement. The theorem says that the
number stands under a header that fits the year and quarter asked for (`ColumnFits`, what
`disclosure_tools.py:408-416` compares); whether that header is true of its column, the
code cannot know, and the theorem does not say.

What stays with TLC, and why:

* Liveness (`Returns`, `Replies`, `EventuallyComplete`): fairness and ENABLED are out
  of the prover's reach.
* What the planner, the generator and the calculator compute where no theorem needs it: a
  sum of more than one operand, the draft's wording, the order of a ranking.
* The refutations: a counterexample of section 4 is a behaviour, which TLC prints.
* `SetToSortSeq` and `SelectSeq` rest on definitions of which the prover knows nothing;
  `Lineage` therefore orders by counting (`Sorted`, `Ordered`), and `EvidenceRetrieval`
  and `DisclosureTools` select rows the same way (`Kept`).

A `CASE` whose guards overlap may be any of the values they allow, although TLC takes the
first. The proofs about plans met this: the planner takes the first word that fits, so
`QueryPlanning` and the others say it with `IF` and `ELSE`, and every `CASE` left has
guards of which one holds.

## 6. Plan

Done: the models of every component of section 2; a theorem for every safety and action
property and both refinements that the passing runs check.

Left, in this order:

1. The tool responses of `AnswerFlow` taken from `DisclosureTools` instead of
   `AnswerCases`, so that the pipeline is checked on what the tools really return.
2. The periods of the trend tool; the dense adoption artifact.

### Not modelled

* Routing (`question_routing.py`, `input_hardening.py`): regular expressions over
  Korean text; `AnswerFlow` takes any verdict of the router.
* Reading archives, markup and PDF text; text normalisation; rendering of Korean
  prose and amounts: data transformations with no state. What they yield is input.
* Scores, embeddings and rankings: numeric and external.
* Release and evaluation gates, staging, stress and judge scripts: sums and
  thresholds over fixed datasets, run offline, one process, no state that survives.
* Wiring (`runtime.py`, `cli.py`), prompts, HTTP plumbing, web pages, deployment.
* Catalogue, page and health routes, QA milestones and performance rows: reads and
  plain inserts.

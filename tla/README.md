# Formal model of artwork-agent

artwork-agent takes a print order with an uploaded artwork, checks the artwork
with deterministic rules, lets a language model choose between three bounded
actions (ask one question, request a repair, escalate), repairs what can be
repaired, and prepares a proof for the customer to approve. Its state lives in
Postgres; stateless workers move it; customers interfere at any time. This
directory holds TLA+ modules of that system, TLC configurations that check
them, and TLAPS proofs about them.

Paths below are relative to `src/`; `api-go/` stands for
`services/api-go/internal/` and `image/` for `services/image-python/app/`.

## 1. Inventory

| Component | Code | State | Operations |
|---|---|---|---|
| Job queue | `api-go/store/jobs.go`, `db/migrations/0001`, `0006`, `0007` | `jobs` rows: type, status, worker, lease, bound asset and case_version | CreateJob, ensureJobEnqueued, ClaimNextJob, Complete*, FailJob |
| Case | `api-go/store/{orders,assets,clarifications,agent_decision,repairs,proof}.go` | `orders` row (statuses, case_version, artwork_version, current asset, trim), `assets`, `findings`, `clarifications`, `repairs` | one transaction per file and operation |
| Worker | `api-go/worker/worker.go` | the claimed job and what was read for it, in memory | tick, runInspect, runRepair, runAgentDecision, runPrepareProof, fail |
| Customer API | `api-go/graph/resolvers.go`, `repair_idempotency.go` | what one request has read | startResolution, requestRepair, confirmTrim, answerClarification, escalateCase, createOrder, createUpload |
| Upload | `api-go/upload/upload.go` | none (a signed ticket carries order and expiry) | CreateTicket, POST /uploads/{token} |
| Server | `cmd/server/main.go`, `api-go/graph/resolver.go` | order cap, read-only switch, backend, fixed at start | guarded |
| Agent provider | `api-go/agent/` | none; the budget is on the order | Decide, with retries by decideWithBoundedRetries |
| Artifact storage | `api-go/storage/` | content-addressed blobs | Put, Get |
| Image service | `image/main.py`, `checks/`, `repair/`, `proof/` | none | /inspect, /repair, /proof |
| Image service client | `api-go/pyclient/client.go` | none | Inspect, Repair, PrepareProof |
| Web client, evaluation harness, infrastructure | `web/`, `evals/`, `infra/` | none of the system's | |

**How they interact.** A customer's request writes a row or enqueues a job. A
worker polls `ClaimNextJob` every two seconds, reads the order, calls storage,
the image service or the provider *outside* any transaction, and commits in one
transaction that is guarded twice: the job row must still be RUNNING under this
worker with an unexpired lease, and the order's `case_version` must be the one
the job is bound to. The same transaction enqueues the next job. A refused
commit makes the worker mark the job FAILED.

**What is hard.**
- *Concurrency.* Nothing holds a lock across an outside call. Two workers can
  work on one job (30 s leases, no renewal). startResolution and requestRepair
  read several times and then insert, without a transaction around it; createOrder
  counts and then inserts. Transactions run under READ COMMITTED and take the rows
  of the order, the questions and the jobs in different orders. Several processes
  store the same bytes under the same name.
- *Failure.* Workers die; commits fail with an error that is only logged;
  storage and the image service fail.
- *Ordering.* Uploads, confirmations and answers reopen the case while jobs
  for its older version are queued or running.
- *Staleness.* Jobs freeze an asset and a version; the order moves on. A ticket
  outlives the server that signed it.
- *Numbers.* One margin, computed from an unrounded PPI of the tighter side, is
  checked against a rounded PPI, on both sides, by the service that has to read its
  own output again. Thresholds compare floats.

**What makes each part correct.**
- *Queue:* at most one active job of a type per order; a terminal job never
  changes; only the lease holder commits; superseding always replaces; every
  job ends.
- *Case:* RESOLVED is earned by the artwork that is current; a continuation is
  never lost; a proof that awaits approval shows the current artwork; versions
  name states.
- *Questions:* an answer only reaches the artwork it was asked about; the case
  never waits for an answer nobody can give.
- *Repairs:* one repair per idempotency key; an automatic repair only with a
  confirmed trim; the current asset is never a repair of replaced artwork.
- *Status rule:* incomplete or malformed reports never resolve a case; the
  order of the findings does not matter.
- *Budget:* never more than five calls and two retries on the budget of one
  upload, no call without a reservation of its own, none outside the lease.
- *Transactions:* each happens as if at one instant, and each one ends.
- *Storage:* a key that was returned names complete bytes from then on; a Put
  fails only if a service failed.
- *Intake:* a row never names bytes that are not there; the cap holds up to the
  requests under way; a read-only server takes nothing new.
- *Arithmetic:* a repaired canvas passes its own recheck, on every side, and the
  reports are those the case depends on.

The full list of hazards, each at its line and with the properties that watch
it, is in `PROJECT.json` under `hazards`.

## 2. Modules

| Module | Models | Kind |
|---|---|---|
| `Jobs` | the statements of `jobs.go` as operators on a table | operators |
| `JobQueue` | what the table and the worker processes promise, whatever the jobs are about | abstract specification |
| `JobQueueProofs` | theorems about `JobQueue` | proofs |
| `Checks` | the checks, the status rule, the agent's gates, the decision of requestRepair, the reading of a reply | operators |
| `StatusRule` | the loop of decideArtworkStatus over an arbitrary report | small state machine |
| `StatusRuleProofs` | theorems about `StatusRule` | proofs |
| `AgentBudget` | reservations, transient retries, the common deadline and the lease, with time | detailed specification |
| `AgentBudgetProofs` | theorems about `AgentBudget` | proofs |
| `ArtworkCase` | one order: store transactions, workers, customers | detailed specification |
| `ArtworkCaseQueue` | the refinement mapping from `ArtworkCase` to `JobQueue` | refinement |
| `ArtworkCaseTypes` | type correctness of `ArtworkCase`, what a step may do to each table, the version stamps, the refinement of `JobQueue` | proofs |
| `ArtworkCaseProofs` | the safety theorems about `ArtworkCase` | proofs |
| `OrderAtomic` | what each store transaction promises: all of it at one instant | abstract specification |
| `OrderTransactions` | the same transactions statement by statement, with row locks | detailed specification, refines `OrderAtomic` |
| `OrderTransactionsProofs` | the refinement of `OrderAtomic`, and that answers meet their upload | proofs |
| `Artifacts` | what `storage/interface.go` promises | abstract specification |
| `ArtifactStore` | Put of both backends, call by call | detailed specification, refines `Artifacts` |
| `Intake` | orders, tickets, uploads and workers' artifacts over `ArtifactStore` | composition |
| `IntakeProofs` | the refinement of `Artifacts`, and the theorems about `Intake` | proofs |
| `ImageService` | the rules and the repair with their arithmetic, and the client's view of the replies | detailed specification, implements the operators of `Checks` |
| `ImageServiceProofs` | theorems about `ImageService` | proofs |
| `MCJobQueue`, `MCArtworkCase`, `MCImageService` | instances for TLC | model checking |

`ArtworkCase` uses `Jobs` and `Checks` and implements `JobQueue`. The three modules
below it justify what it takes for granted: `OrderTransactions` that a transaction
may be one action, `ImageService` that `Checks` is what the service reports, `Intake`
that an asset row names bytes.

### How ArtworkCase corresponds to the code

*State.* `order` is the orders row reduced to what steers the case: `intent`,
artwork_status (`status`), proof_status (`proof`), case_version (`cv`),
artwork_version (`av`), current_asset_id (`cur`), artwork_is_trim_only
(`trim`), and whether the trim coordinates are set (`known`). `asset`, `job`,
`finding`, `clar` and `repair` are the tables of those names, ids handed out in
creation order. `proof` collects the rendered proofs with what their caption
says. `worker` and `client` are the local variables of a running
handler: they are what a crash loses and what can be stale.

*Grain.* A transaction is one action; a single statement outside a transaction
is one action. What lies between them is not atomic: a worker's job is
`Claim`, `Load` (GetOrder), for the agent `Decide`, and one `Commit...` or
`Refuse` followed by `FailWork`. A start is `StartRead`, `StartInsert`; a repair
request is `RepairReadOrder`, `RepairReadDone`, `RepairReadActive`,
`RepairReadOriginal`, `RepairInsert`. Rows that are never updated (assets and
findings of a finished job) are read where they are used.

*Mutual reads inside a transaction.* Under READ COMMITTED the statements of one
transaction see other commits. Each worker transaction first updates its job row
and then the order row with the version guard; each of these holds its row until
commit, so the transaction takes effect where the order row is updated, and the
single action is faithful. For RecordArtworkUpload, which counts prior originals
before it locks anything, for AnswerClarificationAndConfirmTrim, which reads
artwork_version first, and for the crossings of all of them, `OrderTransactions`
checks it. One difference remains: two first uploads may both count none, so that
artwork_version names two artworks; `OrderAtomic` allows that, `ArtworkCase` does
not, and what could go wrong by it is checked in `OrderTransactions`
(`AnswerMeetsItsUpload`). `ArtworkCase` also takes creation order for commit order.

*Faults.* `Lose` is a worker that dies, or that logs an error and lets go
(runAgentDecision on a database error; every commit that returns an error).
`OutrunLease` is a lease that runs out under a working process;
`LeaseRunsOut` is one nobody works under any more. `FailWork` without a refused
commit is an error of storage or of the image service (`ServicesFail`).

*Data.* An artwork is three facts: its PPI is enough at its trim or not, what the
colour check says, and whether the repair can extend it. A canvas that comes out
of a repair has its bleed, which `ImageService` checks and `ImageServiceProofs`
proves. The agent
may choose any action that the code's validation lets through, which covers every
model, every prompt and every budget.

### How AgentBudget corresponds to the code

`used` is the pair agent_tool_calls_used and agent_retries_used of the orders row;
`job` and `version` are the agent_decide rows and case_version, as in `Jobs`;
`lease` is what is left until lease_expires_at. A worker's record holds where
runAgentDecision is (`pc`), the reservation it was just granted (`token`), and three
clocks: until the deadline of decideWithBoundedRetries (`left`), until the adapter's
timeout of this attempt (`http`), and what the database may still take (`db`).
ReserveAgentToolCall, the call of provider.Decide, its return, ReserveAgentRetry, the
way out of the loop and the commit are actions of their own, because a second worker,
an upload or a crash may come between any two of them. `spent` is history: the
reservations provider calls were made on.

Time advances by `Tick`, for every clock at once and only as long as nobody exceeds a
limit of its own: an attempt ends by its timeout and by the deadline, the
rest of a handler takes at most `DbTime`. That a handler's share of database time and
the deadline fit into the lease is `MarginAssumption`, which is what "comfortably
below leaseDuration" (`api-go/worker/worker.go:34`) says; a process that stalls for
longer is outside this module and inside the two others (`OutrunLease`). Escalations
before the first reservation (no provider, no findings) are `ArtworkCase`'s.

### How OrderTransactions corresponds to the code

One row of orders, its uploads, clarifications and at most one active job of the
types inspect and agent_decide. A process is at a statement (`pc`) with what it has
read; `lock` says which transaction holds which row. A statement runs when nobody it
waits for (`WaitsFor`) is in its way, and its WHERE clause is evaluated then: that is
how Postgres looks again at a row it had to wait for. A row cannot change while it is
held, so the writes of a transaction are applied by the action of its last
statement and COMMIT, where others begin to see them. The foreign keys matter:
inserting an asset, a finding or a job shares the order's row with every holder but
one that selected it FOR UPDATE. A circle of waiting transactions is broken by
`BreakDeadlock`, which rolls one of them back, whichever; `RollBack` is a lost
connection or process.

created_at is now(), the time the transaction began: asset ids are handed out at
`BeginUpload`. startResolution reads and inserts in two transactions. Of the worker's
handlers only the transactions are kept; what it computes in between changes no
row. CompleteRepair and CompleteProofPreparation are left out: they take their job,
the order and the next job, as CompleteInspection does. In CompleteInspection the
UPDATE of the asset comes first; nothing else updates an asset.

### How ArtifactStore and Intake correspond to the code

On the local disk a name leads to an inode, and a caller writes to the inode it
opened: that is what makes the shared `.tmp` name matter. `Stat`, `OpenTemp` (create or
truncate), two `WritePart`s and `Rename` are the system calls of LocalDisk.Put; on
Cloud Storage `Probe`, `ConditionalWrite` and `ProbeAgain` are the requests of GCS.Put,
any of which may fail, the write also after it took effect. Which backend it is, all
processes agree on (`storage/factory.go`). `Lost` ends a caller between any two calls.

`Intake` runs these Puts for upload handlers and for workers (`memo` is the row they
will write), beside createOrder and createUpload. A ticket is the order and the last
second it is good for; the handler checks nothing else, and no row remembers tickets.
`Restart` is a new server process, with READ_ONLY_DEMO on or off.

The passing run lets two Puts of the *same* bytes overlap on Cloud Storage but not on
the local disk (`Overlap = FALSE`): there the promise does not hold, and
`Intake_local_disk` shows how. On either backend callers with different bytes overlap,
and a Put of bytes that a lost caller left half written follows later.

### How ImageService corresponds to the code

One order row, as far as the service is told, and one picture, as the facts the rules
ask for: its size, its mode, whether it is opaque and has a uniform edge, and whether
its extended canvas still fits the byte limit as a PNG. A PPI is a fraction; declared
sizes are decimal numbers of a given grain, so inches and millimetres are both
integers. The service divides floats, and it compares them: 76.2 mm are
3.0000000000000004 inches to it, so 900 px have 299.99999999999994 PPI and are reported
as too few (`resolution.py:26`); 306 by 300 px for a square miss the tolerance of 2 % by
an ulp (`geometry.py:29`). Floats are not modelled bit by bit. `LeastPPI` is the exact
PPI, `EffectivePPI` what the service computes, which is off by a relative error, and
`AspectMatches` has an error in its tolerance. The errors (`order.err`) are any multiples
of `1/Scale` up to `MaxError/Scale`, chosen once for a picture and its size, as the same
quotient always comes out alike; by the IEEE standard they are below 2^-49 as long as
nothing over- or underflows. The margin is a product with a power of two and adds no
error, `round(x, 2)` may be either neighbour at a tie, and the slack of 1e-9 in the bleed
check is in `BleedSuffices`.

The actions are the calls a job makes: an inspection of the upload, a repair with
its guard on intent and confirmed trim, the reply and what the client can decode of
it, and the inspection of the canvas with its explicit coordinates, at once or later.
Between them the customer may confirm the trim. In the code a confirmation during the
repair job makes its commit be refused, which is `ArtworkCase`'s.

*In the test variants* (`Bug_...`) a definition is stated as a plausible mistake
would make it. Nothing refers to them; each property is known to fail when one of
them takes the place of the definition beside it.

## 3. Runs

| Run | Shows | Bounds | Distinct states |
|---|---|---|---|
| `JobQueue` | unique active jobs, final outcomes, lease holders only, superseding replaces; every job finishes | 2 workers, 3 jobs, 2 versions, 2 faults | 718,369 |
| `StatusRule` | the loop is the rule; RESOLVED needs every check | every report up to 4 findings | 336,842 |
| `AgentBudget` | every provider call has a reservation of its own within the cap and is made under the lease; every decision job ends | 2 workers, 2 jobs, 2 calls and 1 retry per upload, 1 upload, 1 fault, ticks of 6 s | 351,167 |
| `ArtworkCase_pipeline` | RESOLVED is earned; proofs show the current artwork; the proof job is never lost; versions stamp changes; the case implements `JobQueue`; a resolved case gets its proof; every job finishes | 3 artworks, 2 intents, a worker with and one without provider, failing services, 3 requests, 1 fault | 75,893 |
| `ArtworkCase_races` | one repair per idempotency key; latest upload is current; trim coordinates match; questions can be answered; automatic repairs are confirmed; inspections lead on; commits rest on current reads | full bleed, 2 workers, 2 sessions that share a key, the agent's own keys, a good and a busy artwork, 4 requests, 1 fault | 2,672,377 |
| `OrderTransactions` | statement by statement the transactions implement the atomic ones; answers meet their upload; every transaction ends | 2 customers, 2 workers, 4 requests, 1 fault | 258,667 |
| `Intake` | rows name complete bytes; the store keeps its promise; a Put fails only by a fault; the cap; read-only dries up | 2 handlers, 1 worker, 2 contents, both backends, a cap of 1, 5 requests, 2 faults, clock to 3 | 1,739,445 |
| `ImageService` | a repaired canvas has its bleed on both sides and can be read again; reports are those of `Checks` | 90 pictures at the edges of the rules, 48 orders, 9 pairs of float errors, the code's limit of 25,000,000 pixels | 214,110 |

*Why these bounds.* Only two bounds cut behaviour off: the number of requests
customers make and the number of faults. The rows of jobs, assets and
clarifications are dimensioned so that none of them runs out (raising them leaves the
number of states unchanged), and case_version is bounded by them: it counts requests
and jobs that succeeded (`CaseVersion`). Three requests suffice for
upload, start and one interference; four add a second interference, which is what
upload-start-upload-start, upload-start-confirm-restart and two repair requests
with one key need. One fault is one lease outrun or one lost worker, and every later
guard sees the same two workers on the same job; two faults are covered by
`JobQueue`. Four findings are one more than the longest honest report, so
repetitions and strangers occur together with a complete one. In `AgentBudget` the lease, the deadline and the
attempt have the proportions of the code (30, 20 rounded down to 18, and 12 seconds)
and the caps are small, so that they are reached by two jobs, or by one job that two
workers take in turn; one upload renews them. The kinds of artwork
vary in `ArtworkCase_pipeline`, where they decide the outcome; the races turn on who
reads and writes when, so they use one artwork whose repair succeeds and one whose
repair is rejected, which is what lets an idempotency key come up again. The workers
are treated as symmetric in `ArtworkCase_races` only: both have a provider there, and
no liveness is checked.

Two customers and two workers give `OrderTransactions` every pair of transactions at
once and both orders in which two rows are taken, beside a third transaction that ends
one of them; four requests are two uploads, a start and an answer, or two answers to
questions that an inspection in between led to. In `Intake` two contents are enough
for a Put that must not disturb another's, three callers for a winner, a loser and one
that is lost; a cap of one is overshot as a larger one is; the clock passes the end of
a ticket after a restart. The pictures of `ImageService` lie on both sides of every
threshold: 300 PPI, 2 % of the aspect, the limit of pixels before and after the
extension, a sixteenth of an inch that is and is not a whole number of pixels, a PPI
that rounds to 0.00; what lies between them is the theorems' part. Its floats are off by
one part in a thousand, either way or not at all, so that 300 PPI and 2 % are met
exactly, just missed and just reached.

*Deadlock.* All configurations switch deadlock checking off, because requests are bounded: when
they are used up and all jobs are finished, nothing is left to do. `StatusRule` stops
at the end of the report, `ImageService` when a job is rejected or fails. That
*transactions* do not wait for each other forever is `EveryTransactionEnds`.

*Fairness.* Every worker process polls (`Run`, a ticker that only ends with the
process) and every step of a handler returns, because the HTTP clients have
timeouts: weak fairness of `Claim(w)` and of a worker's own steps. Time passes:
weak fairness of `LeaseRunsOut(i)` for a job nobody works on, and of `Tick` in
`AgentBudget`, which makes attempts time out and leases expire. In
`OrderTransactions` it is the database that works: while some statement can run or a
deadlock can be broken, one is (weak fairness of their disjunction, nothing about any
single session). Customers and faults owe nothing. A handler may always end in failure; therefore `ResolvedGetsProof`
allows a proof job that its worker failed. That is what the code does: after an
error of the image service the job is FAILED and nobody retries it.

### What the documentation says and the code does not do

Each of these runs checks one sentence of a comment or document and finds a
counterexample.

- `ArtworkCase_review_proof`: "a NEEDS_REVIEW/escalated order ... `proof_status`
  staying `NOT_PREPARED`" (`docs/architecture.md:115`). A repair requested for a
  resolved border design is rejected; the rejected branch of CompleteRepair
  (`api-go/store/repairs.go:228`) does not reset proof_status, so the order is
  under review with a proof awaiting approval.
- `OrderTransactions_latest`: "LatestAssetByKind finds the most recent asset of a
  given kind for an order, e.g. the current original artwork"
  (`api-go/store/assets.go:129-130`). created_at is when a transaction began, the
  current asset the one that committed last; of two concurrent uploads these are
  different ones, and requestRepair and the agent enqueue a repair of the asset that
  is not current. `CurrentIsLatestUpload` of `ArtworkCase` is about uploads one after
  the other.
- `Intake_local_disk`: "Storing the same bytes twice returns the same key without
  rewriting - this is what makes a retried write after a crash a safe no-op"
  (`api-go/storage/interface.go:10-12`). Two writers share a temporary name; the
  second truncates the file the first is about to rename, and if it is lost then, an
  incomplete file stays under a returned key and every retry is indeed a no-op.
- `ImageService_grayscale`: "Only RGB and grayscale (L) are supported"
  (`image/repair/eligibility.py:7-9`). The service answers with edge_color as a
  bare number for L; the client's EdgeColor is a `[]int`
  (`api-go/pyclient/client.go:111`), so the reply cannot be decoded and the job fails.

Also noticed while modelling, without a run of their own; the model does what the
code does in each case:

- The agent derives its idempotency key from order and asset (`worker.go:672`), so
  after a rejected repair it can enqueue the same key again; the conflict "should be
  unreachable in practice" (`repairs.go:185-187`).
- startResolution answers with an inspection in flight whatever it is bound to,
  where `graph/resolvers.go:191-193` says that the job freezes the asset of "right
  now".
- FailJob does not ask for an unexpired lease, so a worker that outran it may end a
  job that `worker.go:36-38` says is handed on.
- A check reported twice resolves as well, where `worker.go:784-785` says "exactly
  once".

## 4. Proofs

`tlapm` checks these for every value of the constants: any number of workers, jobs,
customers, sessions, assets, questions, versions, keys, contents and faults, reports of
any length, pictures and declared sizes of any dimensions. Every property of a passing
run that is not a liveness property is a theorem.

| Theorem | States |
|---|---|
| `JobQueueProofs!TypeCorrect` | `Spec => []TypeOK` |
| `JobQueueProofs!ActiveIsUnique` | `Spec => []OneActivePerType` |
| `JobQueueProofs!Finality` | `Spec => TerminalIsFinal` |
| `JobQueueProofs!Replacement` | `Spec => SupersededIsReplaced` |
| `JobQueueProofs!LeaseProtects` | `Spec => OnlyHolderCommits` |
| `ArtworkCaseTypes!TypeCorrect` | `Spec => []TypeOK` |
| `ArtworkCaseTypes!VersionStampsEveryChange` | `Spec => VersionStampsChanges` |
| `ArtworkCaseTypes!CaseImplementsQueue` | `Spec => QueueSpec`: the case refines `JobQueue` |
| `ArtworkCaseProofs!AutoRepairStaysConfirmed` | `Spec => []AutoRepairIsConfirmed` |
| `ArtworkCaseProofs!CommitsHold` | `Spec => CommitsWhatStillHolds` |
| `ArtworkCaseProofs!CurrentStaysLatest` | `Spec => []CurrentIsLatestUpload` |
| `ArtworkCaseProofs!TrimStaysDescribed` | `Spec => []TrimDescribesCurrent` |
| `ArtworkCaseProofs!ResolvedStaysEarned` | `Spec => []ResolvedIsEarned` |
| `ArtworkCaseProofs!ProofStaysCurrent` | `Spec => []ProofShowsCurrentArtwork` |
| `ArtworkCaseProofs!ResolvedKeepsProofJob` | `Spec => []ResolvedHasProofJob` |
| `ArtworkCaseProofs!QuestionStaysAnswerable` | `Spec => []QuestionCanBeAnswered` |
| `ArtworkCaseProofs!KeysAreSpentOnce` | `Spec => []OneRepairPerKey` |
| `ArtworkCaseProofs!InspectionAlwaysLeadsOn` | `Spec => []InspectionLeadsOn` |
| `OrderTransactionsProofs!TransactionsAreAtomic` | `Spec => AtomicSpec`: the statements refine `OrderAtomic` |
| `OrderTransactionsProofs!AnswersMeetTheirUpload` | `Spec => AnswerMeetsItsUpload` |
| `IntakeProofs!StoreKeepsItsPromise` | `Spec /\ Undisturbed => StoreSpec`: the store refines `Artifacts` |
| `IntakeProofs!RowsAlwaysNameTheirBytes` | `Spec /\ Undisturbed => []RowsNameTheirBytes` |
| `IntakeProofs!PutsFailOnlyByFault` | `Spec /\ Undisturbed => []PutFailsOnlyByFault` |
| `IntakeProofs!CapAlwaysHolds` | `Spec => []CapHolds` |
| `IntakeProofs!ReadOnlyAlwaysDriesUp` | `Spec => ReadOnlyDriesUp` |
| `AgentBudgetProofs!TypeCorrect` | `Spec => []TypeOK`, with the caps |
| `AgentBudgetProofs!PaidCalls` | `Spec => CallsArePaid` |
| `AgentBudgetProofs!LeaseCoversCalls` | `Spec => []CallsUnderLease` |
| `StatusRuleProofs!PassIsTheRule` | `Spec => []PassComputesRule` |
| `StatusRuleProofs!ResolvedNeedsAll` | `Spec => []ResolvedIsComplete` |
| `StatusRuleProofs!BlockersAreFinal` | `Spec => BlockersStick` |
| `ImageServiceProofs!TypeCorrect` | `Spec => []TypeOK` |
| `ImageServiceProofs!RepairClearsBleed` | `Spec => []RepairedHasItsBleed` |
| `ImageServiceProofs!SidesAreCovered` | `Spec => []BothSidesAreCovered` |
| `ImageServiceProofs!CanvasIsReadable` | `Spec => RecheckSucceeds` |
| `ImageServiceProofs!ChecksAreFaithful` | `Spec => ReportsAreTheRules` |
| `ImageServiceProofs!FloatsDecideAtTheEdge` | the float and the exact PPI disagree about 300 only within one error of it |

*Queue.* The inductive invariant is `TypeOK /\ OneActivePerType /\ NoGaps /\
ActiveNotSuperseded`. `OneActivePerType` is not inductive alone: an INSERT puts its
row under the first vacant id, and only `NoGaps` (ids are handed out in order) says
that such a row is newer than every other, which `SupersededIsReplaced` needs;
`ActiveNotSuperseded` says that a row marked superseded is FAILED, so a step that
marks an active row really is a supersede. The operators of `Jobs` come first, as
lemmas that say what each does to a well-formed table; the step lemma has one case
per action and cites them.

*Case.* `Typed` is inductive alone and comes first: the rows, hands and sessions are of
their kinds and have what they need (a job's asset exists, nothing is bound to a
case_version yet to come), with lemmas that say what each statement does to a
well-formed table and, for every kind of step, which tables it leaves alone. The safety
argument is about case_version. A job row, a worker's memory and a customer's session
each carry a version, and `Bound` says that as long as it is the order's, what they were
made from is still so: the job's asset is the current one, or the latest original for a
repair, and no job but a decision has succeeded (`RowBound`); what the worker read is
what the order says, and what the agent decided still follows (`HandBound`); the asset a
customer read is still the one (`SessionBound`). `Bound` is inductive for a simple reason and a
subtle one. The simple one: every change of the order raises the version, so that
everything made before is out of date at once. The subtle one is the repair the agent
enqueues without changing the version, whose row must be true of the order as it is.
The ten theorems of `ArtworkCaseProofs` rest on it; type correctness, the version stamps
and the refinement of the queue need only `Typed`.

`Lineage` adds where the artwork comes from: assets without gaps, the current asset the
latest original or made from it, trim coordinates known exactly for a repaired canvas;
`CurrentIsLatestUpload` and `TrimDescribesCurrent` are parts of it. Each remaining
theorem adds what it needs. `ResolvedHasProofJob` (`ProofComes`) holds from step to step
because the proof job can neither succeed nor be superseded while the version stays:
`Bound` says that no such job of the current version has succeeded, and the only commit
that keeps the version inserts a repair, not a proof. `QuestionCanBeAnswered`
needs questions to be without gaps, so that the newest question is the newest open one;
`OneRepairPerKey` needs `RepairRows`: a repairs row belongs to the job that committed it,
and a job that succeeded has spent its key in a row, which is what the database's unique
index is asked about; `InspectionLeadsOn` follows the inspection to what its commit
enqueued, and that to its own end, with `Typed` and `Bound` alone.

*The case implements the queue.* Every action maps to the action of `JobQueue` it stands
for, or to none. With `Typed`, all that has to be known is that the versions of the
queue's rows never run out: `VersionsCounted` says that case_version is at most one
more than the requests made and the jobs that ended, so that `CaseVersion`, of which the
queue's rows are, has all of them. What `JobQueueProofs` proves holds of the case then.

*Transactions.* The invariant of `OrderTransactionsProofs` says three things of a
process. `Held`: whoever is past the statement that takes the order's row has it alone,
with the version it compared. `OwnJob`: a job that still has this worker is the one it
claimed, and from `TakeOwnJob` on the row stays its own. `CustomerKnows`: what a customer's
transaction read before it held anything is still so, *or the order has another
version*: case_version never comes back, so that `AnswerClarificationAndConfirmTrim`,
which reads artwork_version and marks the question before it takes the order, is saved by
the comparison at its end. One lemma (`OthersKeep`) shows that a step of one process
disturbs none of the others, from how far any step goes (`Frame`); each action is left
with its own process, and each commit with the guards of the atomic action it maps to.
The locks on the questions are not used: they decide who waits, not what is written.
`AnswerMeetsItsUpload` follows from `OpenIsCurrent`, as an upload takes every open
question with it.

*Store and intake.* On a disk a file under its final name must never be written again.
`Alone` says that no two Puts of one content are at work, `Apart` that different names
lead to different inodes, `Writing` that a Put that has the temporary file open writes
the inode its name leads to, `Complete` that an inode under a final name has both parts.
On Cloud Storage the conditional write is what makes it true and no such argument is
needed. `Told` relates the keys that were returned to what is stored, `Blamed` failures to
faults. There is always an inode to create (`InodeLeft`), by counting: two for each
content, one for each caller. `CapHolds` is an induction over the requests between their
count and their insert: each that counted below the cap leaves one less to do so, and
both sides are cardinalities. `ReadOnlyDriesUp` needs `Expiring`: no ticket of the time
before is good for longer than its life from the moment the server became read-only.

*Status rule.* The invariant relates the pass to the report read so far: `seen` is
the set of recognised checks, and the three flags are the existence of a
malformed finding, a NEEDS_REVIEW and a NEEDS_INPUT. Appending one finding changes
both sides alike.

*Budget.* `CallsArePaid` needs `Reservations`: a token that is held and not yet spent
was handed out by nobody else, and no token of the current upload lies beyond the
counters, so the next one is new even when the upload that reset them came between
a reservation and its call. `CallsUnderLease` needs `InTime`: at every point of
the handler, what remains of database time and deadline is less than what remains of
the lease, provided the worker still holds the job. The invariant is where the margin
is used, at the claim; `Tick` takes from both sides alike. The one way to lose
the job while time is left is an inspection that supersedes it.

*Image service.* The invariant is `TypeOK /\ CanvasIsExtended /\ NoneBefore`: the
properties are about a canvas, and only `CanvasIsExtended` says that it is what the
repair made of this picture for this order, whatever the customer has said since.
That the bleed survives the rounding is integer arithmetic: a margin `m` of at least
`PPI / 16` means `1600 m >= 100 PPI`, and as `1600 m` is an integer it is also at
least the *nearest* integer of `100 PPI`, which is what the check compares with
(`MarginCovers`, `Rounding`, `MarginSurvivesRounding`); the float PPI is some fraction,
and which one does not matter. For the other side,
`OtherSide` carries the 2 % of `AspectMatches` and the errors of both float results over
to the two exact PPIs; 49 of 50 is 98 %, less two errors (`AspectBounds`).
`ChecksAreFaithful` has one lemma per rule: whether a canvas passes does not depend on
which way a tie was rounded, and the PPI of the canvas is that of its trim, so that the
float decides the threshold alike every time. `Kind` is therefore the service's own
result; `FloatsDecideAtTheEdge` says how far that can be from 300 PPI. It is the
refinement of the data: it lets `ArtworkCase` use `Checks`, which knows no numbers.

*Assumptions.* The bounds are naturals, the placeholder "no worker" is not a
worker, customers are not workers, for the budget the margin above, for the image service
that declared sizes and pictures are positive and a float error is at most a half, for
the store that callers and contents are finitely many; TLC evaluates them on every run. Three theorems of `IntakeProofs` have
the hypothesis `Undisturbed`: on a local disk, no two Puts of one content at once. The code
does not see to that; without it they are false, which is what `Intake_local_disk`
shows. On Cloud Storage, which the deployment uses, they hold without it.

*Only model-checked.* Liveness (`JobsFinish`, `EveryJobFinishes`, `ResolvedGetsProof`,
`DecisionsEnd`, `EveryTransactionEnds`) is out of the prover's reach: it needs ENABLED and
well-founded arguments over behaviours. The reading of replies and the rest of `Checks`
are evaluated by the runs; the proofs about the case use of `Checks` only which results
its operators may have, and what RESOLVED asks for.

## 5. Plan

1. *Done:* `Jobs`, `JobQueue`, `Checks`, `StatusRule`, `ArtworkCase`,
   `ArtworkCaseQueue`, `AgentBudget`, `OrderAtomic`, `OrderTransactions`, `Artifacts`,
   `ArtifactStore`, `Intake`, `ImageService`, and the proofs about the queue, the case,
   the transactions, the intake, the status rule, the budget and the image service.
2. Extending the model:
   - what requestRepair answers, including the fallback after a lost insert;
   - the order of claims over several orders with a job that always crashes;
   - the status diagram of `db/migrations/0001_init.sql` as an abstract
     specification that `ArtworkCase` implements;
   - CompleteRepair and CompleteProofPreparation in `OrderTransactions`.
   The project keeps to twelve runs, so that all of them are run together in a few
   minutes: a further question replaces one or shares a run.
3. Proving: done for every safety property and refinement the runs check. What the
   extensions above add is proved with them, from the invariants of section 4:
   CompleteRepair and CompleteProofPreparation by `Held` and `OwnJob`, the status diagram
   by `Bound`. The theorems about the queue can then be stated of the jobs of the case.

## 6. Not modelled

GraphQL field mapping and queries, the HTTP servers' routing, the web client, the
evaluation harness and the infrastructure keep no state of the case. The signature
of a ticket is cryptography; only tickets that were issued exist in the model. Pixels, PNG
encoding and the caption's drawing are data no rule distinguishes. The multipart
encoding of requests and the identity token of the image service client change
nothing the case sees. tool_events is written and never read by a decision.
`PROJECT.json` lists these parts with their reasons.

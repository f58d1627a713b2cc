---------------------------- MODULE ArtworkCase ----------------------------
(***************************************************************************)
(* One order of the artwork agent, as its rows in Postgres, with the       *)
(* workers and the customers that move it.                                 *)
(*                                                                         *)
(* A transaction of internal/store is one action: it commits or it does    *)
(* not.  Everything the code does OUTSIDE a transaction is an action of    *)
(* its own: a worker claims, then reads the order, then (for the agent)    *)
(* decides, then commits; startResolution reads the order and only later   *)
(* inserts its job; requestRepair takes four reads and an insert.  Between *)
(* any two of them every other process may run.                            *)
(***************************************************************************)
EXTENDS Jobs, Checks, FiniteSets

CONSTANTS Worker,       \* slots for worker processes
          Agentic,      \* those started with a provider key
          Client,       \* customers' sessions
          ClientKey,    \* idempotency keys the customers choose
          Intents,      \* the intents an order may be created with
          Artworks,     \* the artworks that may be uploaded
          ServicesFail, \* whether storage and the image service may fail
          MaxJobs,      \* bound: rows of jobs
          MaxAssets,    \* bound: rows of assets of kind original or repaired
          MaxClars,     \* bound: rows of clarifications
          MaxRequests,  \* bound: requests the customers make
          MaxFaults     \* bound: lost processes and leases outrun by their worker

ASSUME IntentsAssumption  == Intents \subseteq Intent
ASSUME ArtworksAssumption == Artworks \subseteq ArtworkKind
ASSUME ServicesAssumption == ServicesFail \in BOOLEAN
ASSUME BoundsAssumption   == /\ MaxJobs \in Nat /\ MaxAssets \in Nat /\ MaxClars \in Nat
                             /\ MaxRequests \in Nat /\ MaxFaults \in Nat
ASSUME WorkersAssumption  == Agentic \subseteq Worker /\ NoWorker \notin Worker

VARIABLES order,     \* the orders row
          asset,     \* assets: originals and repaired canvases
          job,       \* jobs
          finding,   \* findings, by the job that reported them
          clar,      \* clarifications
          repair,    \* repairs
          proof,     \* assets of kind proof, with what is printed on them
          worker,    \* what each worker process holds in memory
          client,    \* what each customer's request holds in memory
          requests,  \* requests made so far
          faults     \* faults so far

vars == <<order, asset, job, finding, clar, repair, proof, worker, client, requests, faults>>

JobId   == 1 .. MaxJobs
AssetId == 1 .. MaxAssets
ClarId  == 1 .. MaxClars

None    == 0
NoAsset == [kind |-> "absent"]
NoClar  == [state |-> "absent"]
Idle    == [pc |-> "idle", job |-> None]

Keys == ({"client"} \X ClientKey) \cup ({"auto"} \X AssetId)
Bug_AutoKeyMissing(a) == NoKey
AutoKey(a) == <<"auto", a>>

Init ==
    /\ order \in [intent : Intents, status : {"BLOCKED"}, proof : {"NOT_PREPARED"},
                  cv : {1}, av : {1}, cur : {None}, trim : {"unknown"}, known : {FALSE}]
    /\ asset    = [a \in AssetId |-> NoAsset]
    /\ job      = [j \in JobId |-> NoJob]
    /\ finding  = [j \in JobId |-> <<>>]
    /\ clar     = [c \in ClarId |-> NoClar]
    /\ repair   = {}
    /\ proof    = {}
    /\ worker   = [w \in Worker |-> Idle]
    /\ client   = [c \in Client |-> [pc |-> "idle"]]
    /\ requests = 0
    /\ faults   = 0

Originals == {a \in AssetId : asset[a].kind = "original"}

(* LatestAssetByKind(order, 'original') *)
IsLatestOriginal(a) == a \in Originals /\ \A b \in Originals : b <= a

(* The columns a worker reads before it starts to work (GetOrder). *)
View == [cur |-> order.cur, trim |-> order.trim, known |-> order.known, av |-> order.av]

NewRequest == requests < MaxRequests /\ requests' = requests + 1
-----------------------------------------------------------------------------
(* Customers' requests that are one transaction. *)

(* RecordArtworkUpload: a new original reopens the case whatever its state *)
(* and voids the questions still open.                                     *)
Bug_UploadedKeepsTrim(o, a) ==
    [o EXCEPT !.av = @ + (IF Originals = {} THEN 0 ELSE 1), !.cv = @ + 1,
              !.status = "BLOCKED", !.proof = "NOT_PREPARED", !.cur = a]
Bug_UploadedKeepsProof(o, a) ==
    [o EXCEPT !.av = @ + (IF Originals = {} THEN 0 ELSE 1), !.cv = @ + 1,
              !.status = "BLOCKED", !.cur = a, !.trim = "unknown", !.known = FALSE]
Bug_UploadedKeepsVersion(o, a) ==
    [o EXCEPT !.av = @ + (IF Originals = {} THEN 0 ELSE 1),
              !.status = "BLOCKED", !.proof = "NOT_PREPARED",
              !.cur = a, !.trim = "unknown", !.known = FALSE]
Uploaded(o, a) ==
    [o EXCEPT !.av = @ + (IF Originals = {} THEN 0 ELSE 1), !.cv = @ + 1,
              !.status = "BLOCKED", !.proof = "NOT_PREPARED",
              !.cur = a, !.trim = "unknown", !.known = FALSE]

Upload(art) ==
    /\ NewRequest
    /\ \E a \in AssetId :
         /\ NextRow(asset, NoAsset, a)
         /\ asset' = [asset EXCEPT ![a] = [kind |-> "original", art |-> art, from |-> a]]
         /\ order' = Uploaded(order, a)
    /\ clar' = [c \in ClarId |-> IF clar[c].state = "open"
                                 THEN [clar[c] EXCEPT !.state = "invalidated"]
                                 ELSE clar[c]]
    /\ UNCHANGED <<job, finding, repair, proof, worker, client, faults>>

(* The reopening ConfirmTrim and AnswerClarificationAndConfirmTrim share. *)
Reopened(o, t) ==
    [o EXCEPT !.trim = t, !.cv = @ + 1, !.status = "BLOCKED", !.proof = "NOT_PREPARED"]

ConfirmTrim(t, v) ==
    /\ NewRequest
    /\ v = order.cv
    /\ order' = Reopened(order, t)
    /\ UNCHANGED <<asset, job, finding, clar, repair, proof, worker, client, faults>>

EscalateCase(v) ==
    /\ NewRequest
    /\ v = order.cv
    /\ order.status # "RESOLVED"
    /\ order' = [order EXCEPT !.status = "NEEDS_REVIEW", !.cv = @ + 1]
    /\ UNCHANGED <<asset, job, finding, clar, repair, proof, worker, client, faults>>

(* What a customer may write, as words. *)
Replies == {<<"yes", "it", "is">>, <<"no">>, <<"not", "sure">>}

(* The currently active question: open, about the current artwork_version  *)
(* and the most recent open one.                                           *)
Answerable(c) ==
    /\ clar[c].state = "open"
    /\ clar[c].av = order.av
    /\ \A d \in ClarId : clar[d].state = "open" => d <= c

(* AnswerClarificationAndConfirmTrim: answers, reopens and enqueues the    *)
(* inspection that continues the case, all or nothing.                     *)
AnswerClarification(c, reply, v) ==
    /\ NewRequest
    /\ Answerable(c)
    /\ InterpretYesNo(reply) # "refused"
    /\ v = order.cv
    /\ clar'  = [clar EXCEPT ![c].state = "answered"]
    /\ order' = Reopened(order, InterpretYesNo(reply))
    /\ IF order.cur = None THEN UNCHANGED job
       ELSE \E i \in JobId :
              /\ NextId(job, i)
              /\ job' = EnsureJobEnqueued(job, i,
                            NewJob("inspect", order.cur, order.cv + 1, NoKey, None))
    /\ UNCHANGED <<asset, finding, repair, proof, worker, client, faults>>
-----------------------------------------------------------------------------
(* startResolution: one read of the order, then CreateJob on its own. *)

StartRead(c) ==
    /\ client[c].pc = "idle"
    /\ NewRequest
    /\ order.cur # None
    /\ client' = [client EXCEPT ![c] = [pc |-> "start", asset |-> order.cur, cv |-> order.cv]]
    /\ UNCHANGED <<order, asset, job, finding, clar, repair, proof, worker, faults>>

StartInsert(c) ==
    /\ client[c].pc = "start"
    /\ \E i \in JobId :
         /\ NextId(job, i)
         /\ job' = CreateJob(job, i, NewJob("inspect", client[c].asset, client[c].cv, NoKey, None))
    /\ client' = [client EXCEPT ![c] = [pc |-> "idle"]]
    /\ UNCHANGED <<order, asset, finding, clar, repair, proof, worker, requests, faults>>

(* requestRepair: the order, a repair completed with this key, the repair  *)
(* job in flight, the latest original, and then CreateJob.  The request    *)
(* carries the case_version the order has when it is read: any other one   *)
(* is answered without a write (DecideRepairRequestAction).                *)
RepairReadOrder(c, k) ==
    /\ client[c].pc = "idle"
    /\ NewRequest
    /\ client' = [client EXCEPT ![c] = [pc |-> "repair order read", key |-> <<"client", k>>,
                                        cv |-> order.cv, cur |-> order.cur]]
    /\ UNCHANGED <<order, asset, job, finding, clar, repair, proof, worker, faults>>

KeyTaken(k) == \E r \in repair : r.key = k

RepairReadDone(c) ==
    LET k    == client[c].key
        done == IF KeyTaken(k) THEN job[(CHOOSE r \in repair : r.key = k).job].cv ELSE 0
    IN  /\ client[c].pc = "repair order read"
        /\ client' = [client EXCEPT ![c] = [pc |-> "repair done read", key |-> k,
                            cv |-> client[c].cv, cur |-> client[c].cur, done |-> done]]
        /\ UNCHANGED <<order, asset, job, finding, clar, repair, proof, worker, requests, faults>>

ActiveRepair ==
    IF ActiveJobs(job, "repair") = {} THEN [key |-> NoRequest, cv |-> 0]
    ELSE LET i == CHOOSE i \in ActiveJobs(job, "repair") : TRUE
         IN  [key |-> job[i].key, cv |-> job[i].cv]

RepairReadActive(c) ==
    LET q      == client[c]
        action == DecideRepairRequestAction(q.done, ActiveRepair, q.cv, q.key, q.cv)
    IN  /\ q.pc = "repair done read"
        /\ client' = [client EXCEPT ![c] =
                        IF action = "create new" /\ q.cur # None
                        THEN [pc |-> "repair decided", key |-> q.key, cv |-> q.cv]
                        ELSE [pc |-> "idle"]]
        /\ UNCHANGED <<order, asset, job, finding, clar, repair, proof, worker, requests, faults>>

RepairReadOriginal(c) ==
    /\ client[c].pc = "repair decided"
    /\ \E a \in AssetId :
         /\ IsLatestOriginal(a)
         /\ client' = [client EXCEPT ![c] = [pc |-> "repair insert", key |-> client[c].key,
                                             cv |-> client[c].cv, asset |-> a]]
    /\ UNCHANGED <<order, asset, job, finding, clar, repair, proof, worker, requests, faults>>

RepairInsert(c) ==
    /\ client[c].pc = "repair insert"
    /\ \E i \in JobId :
         /\ NextId(job, i)
         /\ job' = CreateJob(job, i,
                       NewJob("repair", client[c].asset, client[c].cv, client[c].key, None))
    /\ client' = [client EXCEPT ![c] = [pc |-> "idle"]]
    /\ UNCHANGED <<order, asset, finding, clar, repair, proof, worker, requests, faults>>
-----------------------------------------------------------------------------
(* Workers, up to the point where they commit. *)

Claim(w) ==
    /\ worker[w] = Idle
    /\ \E i \in JobId :
         /\ IsNextToClaim(job, i)
         /\ job'    = Claimed(job, i, w)
         /\ worker' = [worker EXCEPT ![w] = [pc |-> "claimed", job |-> i]]
    /\ UNCHANGED <<order, asset, finding, clar, repair, proof, client, requests, faults>>

(* GetOrder.  The bound asset and the source findings never change, so     *)
(* reading them, and what the image service computes of them, is not a     *)
(* step of its own.                                                        *)
Load(w) ==
    /\ worker[w].pc = "claimed"
    /\ worker' = [worker EXCEPT ![w] = [pc |-> "loaded", job |-> worker[w].job, seen |-> View]]
    /\ UNCHANGED <<order, asset, job, finding, clar, repair, proof, client, requests, faults>>

(* What runAgentDecision lets the model do.  Escalation is always open: no *)
(* provider, no budget, a provider error, an unknown or invalid action.    *)
Decision(w, action, a) ==
    LET fs == finding[job[worker[w].job].src]
    IN  \/ action = "escalate" /\ a = None
        \/ /\ action = "ask_clarification" /\ a = None
           /\ w \in Agentic
           /\ HasUnconfirmedTrimFinding(fs)
        \/ /\ action = "request_repair"
           /\ w \in Agentic
           /\ HasConfirmedInsufficientBleedFinding(fs)
           /\ worker[w].seen.cur # None
           /\ IsLatestOriginal(a)

Decide(w) ==
    /\ worker[w].pc = "loaded"
    /\ job[worker[w].job].type = "agent_decide"
    /\ \E action \in {"ask_clarification", "request_repair", "escalate"},
          a \in AssetId \cup {None} :
         /\ Decision(w, action, a)
         /\ worker' = [worker EXCEPT ![w] = [pc |-> "decided", job |-> worker[w].job,
                                             action |-> action, asset |-> a]]
    /\ UNCHANGED <<order, asset, job, finding, clar, repair, proof, client, requests, faults>>
-----------------------------------------------------------------------------
(* Workers' transactions.  Each is guarded twice: by the lease on the job  *)
(* row and by the case_version the job is bound to.                        *)

WorksOn(w, t) == worker[w].pc = "loaded" /\ job[worker[w].job].type = t
Decided(w, action) == worker[w].pc = "decided" /\ worker[w].action = action

Bug_CommitsWithoutVersion(w) == HoldsLease(job, worker[w].job, w)
Bug_CommitsWithoutLease(w) == order.cv = job[worker[w].job].cv
Commits(w) ==
    LET j == worker[w].job IN HoldsLease(job, j, w) /\ order.cv = job[j].cv

(* The job row SUCCEEDED, and its follow-up in the same transaction. *)
Done(w) == Succeeded(job, worker[w].job)
Continue(w, row) == \E i \in JobId : NextId(job, i) /\ job' = EnsureJobEnqueued(Done(w), i, row)

Release(w) == worker' = [worker EXCEPT ![w] = Idle]

(* runInspect passes the order's trim coordinates only for the asset they  *)
(* describe.                                                               *)
InspectedWith(w) ==
    LET seen == worker[w].seen
        a    == job[worker[w].job].asset
    IN  Inspect(order.intent, seen.trim, seen.cur = a /\ seen.known, asset[a].art)

(* CompleteInspection, with the follow-up runInspect asked for. *)
CommitInspection(w) ==
    LET j      == worker[w].job
        fs     == InspectedWith(w)
        status == DecideArtworkStatus(fs, order.intent)
        v      == order.cv + 1
    IN  /\ WorksOn(w, "inspect")
        /\ Commits(w)
        /\ finding' = [finding EXCEPT ![j] = fs]
        /\ order'   = [order EXCEPT !.status = status, !.proof = "NOT_PREPARED", !.cv = v]
        /\ CASE status = "RESOLVED" ->
                    Continue(w, NewJob("prepare_proof", job[j].asset, v, NoKey, None))
             [] status # "RESOLVED" /\ w \in Agentic ->
                    Continue(w, NewJob("agent_decide", job[j].asset, v, NoKey, j))
             [] OTHER -> job' = Done(w)
        /\ Release(w)
        /\ UNCHANGED <<asset, clar, repair, proof, client, requests, faults>>

(* runRepair: its own precondition and then the image service's verdict.   *)
Repairable(w) ==
    /\ order.intent = "full_bleed" /\ worker[w].seen.trim = "yes"
    /\ RepairImage(asset[job[worker[w].job].asset].art) = "repaired"

(* The recheck of the new canvas, whose trim is known. *)
RecheckedWith(w) ==
    Inspect(order.intent, worker[w].seen.trim, TRUE, asset[job[worker[w].job].asset].art)

RepairRow(w, status, d) ==
    LET j == worker[w].job
    IN  [key |-> job[j].key, status |-> status, job |-> j, from |-> job[j].asset, derived |-> d]

Bug_RepairCommitsRepeatedKey(w) == WorksOn(w, "repair") /\ Commits(w)
RepairCommits(w) ==
    WorksOn(w, "repair") /\ Commits(w) /\ ~KeyTaken(job[worker[w].job].key)

(* CompleteRepair of a verified repair: the canvas becomes current, its    *)
(* trim coordinates known, and the recheck on them decides the status.     *)
(* This path enqueues a proof but never the agent.                         *)
CommitRepaired(w) ==
    LET j      == worker[w].job
        art    == asset[job[j].asset].art
        fs     == RecheckedWith(w)
        status == DecideArtworkStatus(fs, order.intent)
        v      == order.cv + 1
    IN  /\ RepairCommits(w)
        /\ Repairable(w)
        /\ finding' = [finding EXCEPT ![j] = fs]
        /\ \E d \in AssetId :
             /\ NextRow(asset, NoAsset, d)
             /\ asset'  = [asset EXCEPT ![d] = [kind |-> "repaired", art |-> art,
                                                from |-> job[j].asset]]
             /\ repair' = repair \cup {RepairRow(w, "REPAIRED", d)}
             /\ order'  = [order EXCEPT !.status = status, !.proof = "NOT_PREPARED", !.cv = v,
                                        !.cur = d, !.known = TRUE]
             /\ IF status = "RESOLVED"
                THEN Continue(w, NewJob("prepare_proof", d, v, NoKey, None))
                ELSE job' = Done(w)
        /\ Release(w)
        /\ UNCHANGED <<clar, proof, client, requests, faults>>

(* completeRejectedRepair: proof_status is not among the columns set. *)
CommitRejected(w) ==
    /\ RepairCommits(w)
    /\ ~Repairable(w)
    /\ repair' = repair \cup {RepairRow(w, "REJECTED", None)}
    /\ order'  = [order EXCEPT !.status = "NEEDS_REVIEW", !.cv = @ + 1]
    /\ job'    = Done(w)
    /\ Release(w)
    /\ UNCHANGED <<asset, finding, clar, proof, client, requests, faults>>

(* runPrepareProof renders the job's asset; the caption carries the        *)
(* artwork_version read before rendering and the job's case_version.       *)
Rendered(w) ==
    LET j == worker[w].job
    IN  [of |-> job[j].asset, av |-> worker[w].seen.av, cv |-> job[j].cv]

(* CompleteProofPreparation. *)
CommitProof(w) ==
    /\ WorksOn(w, "prepare_proof")
    /\ Commits(w)
    /\ proof' = proof \cup {Rendered(w)}
    /\ order' = [order EXCEPT !.proof = "AWAITING_CUSTOMER_APPROVAL", !.cv = @ + 1]
    /\ job'   = Done(w)
    /\ Release(w)
    /\ UNCHANGED <<asset, finding, clar, repair, client, requests, faults>>

(* CompleteAgentDecision, one action per decision.  about is not a column: *)
(* it remembers the artwork the question was asked about.                  *)
CommitQuestion(w) ==
    /\ Decided(w, "ask_clarification")
    /\ Commits(w)
    /\ \E c \in ClarId :
         /\ NextRow(clar, NoClar, c)
         /\ clar' = [clar EXCEPT ![c] = [state |-> "open", av |-> order.av, about |-> order.cur]]
    /\ order' = [order EXCEPT !.status = "AWAITING_CLARIFICATION", !.cv = @ + 1]
    /\ job'   = Done(w)
    /\ Release(w)
    /\ UNCHANGED <<asset, finding, repair, proof, client, requests, faults>>

CommitAutoRepair(w) ==
    LET a == worker[w].asset
    IN  /\ Decided(w, "request_repair")
        /\ Commits(w)
        /\ Continue(w, NewJob("repair", a, order.cv, AutoKey(a), None))
        /\ Release(w)
        /\ UNCHANGED <<order, asset, finding, clar, repair, proof, client, requests, faults>>

CommitEscalation(w) ==
    /\ Decided(w, "escalate")
    /\ Commits(w)
    /\ order' = [order EXCEPT !.status = "NEEDS_REVIEW", !.cv = @ + 1]
    /\ job'   = Done(w)
    /\ Release(w)
    /\ UNCHANGED <<asset, finding, clar, repair, proof, client, requests, faults>>

(* The transaction rolls back with ok = false. *)
ReadyToCommit(w) ==
    \/ worker[w].pc = "decided"
    \/ worker[w].pc = "loaded" /\ job[worker[w].job].type # "agent_decide"

Refuse(w) ==
    /\ ReadyToCommit(w)
    /\ ~Commits(w) \/ (job[worker[w].job].type = "repair" /\ ~RepairCommits(w))
    /\ worker' = [worker EXCEPT ![w] = [pc |-> "void", job |-> worker[w].job]]
    /\ UNCHANGED <<order, asset, job, finding, clar, repair, proof, client, requests, faults>>

(* w.fail: after a refused commit, or when storage or the image service    *)
(* returned an error (runAgentDecision never fails a job for that).        *)
FailWork(w) ==
    /\ \/ worker[w].pc = "void"
       \/ /\ ServicesFail
          /\ worker[w].pc \in {"claimed", "loaded"}
          /\ job[worker[w].job].type # "agent_decide"
    /\ job' = FailJob(job, worker[w].job, w, "failed")
    /\ Release(w)
    /\ UNCHANGED <<order, asset, finding, clar, repair, proof, client, requests, faults>>

(* The process dies, or an error that is only logged makes it let go. *)
Lose(w) ==
    /\ worker[w] # Idle
    /\ faults < MaxFaults
    /\ faults' = faults + 1
    /\ Release(w)
    /\ UNCHANGED <<order, asset, job, finding, clar, repair, proof, client, requests>>

InHand(i) == \E w \in Worker : worker[w].job = i

LeaseRunsOut(i) ==
    /\ job[i].status = "RUNNING" /\ job[i].live
    /\ ~InHand(i)
    /\ job' = LeaseExpired(job, i)
    /\ UNCHANGED <<order, asset, finding, clar, repair, proof, worker, client, requests, faults>>

OutrunLease(i) ==
    /\ job[i].status = "RUNNING" /\ job[i].live
    /\ InHand(i)
    /\ faults < MaxFaults
    /\ faults' = faults + 1
    /\ job'    = LeaseExpired(job, i)
    /\ UNCHANGED <<order, asset, finding, clar, repair, proof, worker, client, requests>>
-----------------------------------------------------------------------------
Customers ==
    \/ \E art \in Artworks : Upload(art)
    \/ \E v \in 1 .. order.cv :
         \/ \E t \in {"yes", "no"} : ConfirmTrim(t, v)
         \/ EscalateCase(v)
         \/ \E c \in ClarId, reply \in Replies : AnswerClarification(c, reply, v)
    \/ \E c \in Client :
         \/ StartRead(c)
         \/ StartInsert(c)
         \/ \E k \in ClientKey : RepairReadOrder(c, k)
         \/ RepairReadDone(c)
         \/ RepairReadActive(c)
         \/ RepairReadOriginal(c)
         \/ RepairInsert(c)

CommitStep(w) ==
    \/ CommitInspection(w)
    \/ CommitRepaired(w)
    \/ CommitRejected(w)
    \/ CommitProof(w)
    \/ CommitQuestion(w)
    \/ CommitAutoRepair(w)
    \/ CommitEscalation(w)

WorkStep(w) == Load(w) \/ Decide(w) \/ CommitStep(w) \/ Refuse(w) \/ FailWork(w)

Next ==
    \/ Customers
    \/ \E w \in Worker : Claim(w) \/ WorkStep(w) \/ Lose(w)
    \/ \E i \in JobId : LeaseRunsOut(i) \/ OutrunLease(i)

(* As in JobQueue: every process polls, every call it makes returns, and   *)
(* time passes for the lease of a job nobody holds.  Customers owe nothing. *)
Fairness == /\ \A w \in Worker : WF_vars(Claim(w)) /\ WF_vars(WorkStep(w))
            /\ \A i \in JobId : WF_vars(LeaseRunsOut(i))

Spec     == Init /\ [][Next]_vars
FairSpec == Spec /\ Fairness
-----------------------------------------------------------------------------
Order == [intent : Intent, status : {"BLOCKED", "AWAITING_CLARIFICATION", "RESOLVED", "NEEDS_REVIEW"},
          proof : {"NOT_PREPARED", "AWAITING_CUSTOMER_APPROVAL"},
          cv : Nat \ {0}, av : Nat \ {0}, cur : AssetId \cup {None}, trim : Trim, known : BOOLEAN]

Seen == [cur : AssetId \cup {None}, trim : Trim, known : BOOLEAN, av : Nat \ {0}]

JobRow == [type : JobType, status : {"QUEUED", "RUNNING", "SUCCEEDED", "FAILED"},
           worker : Worker \cup {NoWorker}, live : BOOLEAN,
           note : {"none", "superseded", "failed"}, asset : AssetId, cv : Nat \ {0},
           key : Keys \cup {NoKey}, src : JobId \cup {None}]

AssetRow == [kind : {"original", "repaired"}, art : ArtworkKind, from : AssetId]

(* What a worker holds: nothing, or a job it claimed and, further on, what *)
(* it read for it or what it decided about it.                             *)
InMemory == {Idle}
    \cup [pc : {"claimed", "void"}, job : JobId]
    \cup [pc : {"loaded"}, job : JobId, seen : Seen]
    \cup [pc : {"decided"}, job : JobId,
          action : {"ask_clarification", "request_repair", "escalate"},
          asset : AssetId \cup {None}]

(* Rows are well formed, nothing points at a row that does not exist, and  *)
(* a repair job always carries an idempotency key (runRepair).             *)
TypeOK ==
    /\ order \in Order
    /\ asset \in [AssetId -> AssetRow \cup {NoAsset}]
    /\ job \in [JobId -> JobRow \cup {NoJob}]
    /\ finding \in [JobId -> Seq(Finding)]
    /\ clar \in [ClarId -> [state : {"open", "answered", "invalidated"}, av : Nat \ {0},
                            about : AssetId] \cup {NoClar}]
    /\ repair \subseteq [key : Keys, status : {"REPAIRED", "REJECTED"}, job : JobId,
                         from : AssetId, derived : AssetId \cup {None}]
    /\ proof \subseteq [of : AssetId, av : Nat \ {0}, cv : Nat \ {0}]
    /\ worker \in [Worker -> InMemory]
    /\ requests \in 0 .. MaxRequests
    /\ faults \in 0 .. MaxFaults
    /\ order.cur # None => asset[order.cur] # NoAsset
    /\ \A j \in JobId : job[j] # NoJob =>
         /\ asset[job[j].asset] # NoAsset
         /\ job[j].type = "repair" => job[j].key # NoKey
    /\ \A w \in Worker : worker[w] # Idle => job[worker[w].job].status \notin {"absent", "QUEUED"}
    /\ \A r \in repair : job[r.job].status = "SUCCEEDED"

(* RESOLVED is earned by the artwork the case has NOW: it passes the       *)
(* resolution and colour rules and, for full bleed, carries the margin of  *)
(* a repair.  No stale inspection, upload in between, late worker or       *)
(* borrowed trim coordinates may leave an unchecked artwork RESOLVED.      *)
ResolvedIsEarned ==
    order.status = "RESOLVED" =>
        /\ order.cur # None
        /\ asset[order.cur].art.ppi = "ok"
        /\ asset[order.cur].art.color # "NEEDS_REVIEW"
        /\ order.intent = "full_bleed" => asset[order.cur].kind = "repaired"

(* proof_status says AWAITING_CUSTOMER_APPROVAL only while a proof exists  *)
(* that was rendered from the current artwork and says so in its caption.  *)
ProofShowsCurrentArtwork ==
    order.proof = "AWAITING_CUSTOMER_APPROVAL" =>
        \E p \in proof : p.of = order.cur /\ p.av = order.av

(* "A case stuck at RESOLVED with proof_status stuck at NOT_PREPARED"      *)
(* (runPrepareProof): as long as the proof is missing, a job for exactly   *)
(* this asset and version is active, or was failed by its own worker; it   *)
(* was never skipped or superseded.                                        *)
ResolvedHasProofJob ==
    (order.status = "RESOLVED" /\ order.proof = "NOT_PREPARED") =>
        \E j \in JobId : /\ job[j] # NoJob
                         /\ job[j].type = "prepare_proof"
                         /\ job[j].asset = order.cur /\ job[j].cv = order.cv
                         /\ IsActive(job[j]) \/ job[j].note = "failed"

(* current_asset_id is the latest upload or a repair of it, never of an    *)
(* artwork that was replaced while its repair ran.                         *)
CurrentIsLatestUpload ==
    order.cur # None => IsLatestOriginal(asset[order.cur].from)

(* The order's trim coordinates describe its current asset: they are known *)
(* exactly when that asset is a repaired canvas (runInspect relies on it). *)
TrimDescribesCurrent ==
    order.known <=> (order.cur # None /\ asset[order.cur].kind = "repaired")

(* AWAITING_CLARIFICATION means there is something to answer: an open,     *)
(* active question about the current artwork, and the customer has not     *)
(* said yes or no about this artwork before.                               *)
QuestionCanBeAnswered ==
    order.status = "AWAITING_CLARIFICATION" =>
        /\ order.trim = "unknown"
        /\ \E c \in ClarId : Answerable(c) /\ clar[c].about = order.cur

(* An idempotency key is spent at most once, over retries, replays and     *)
(* worker restarts: one row, one successful job.                           *)
OneRepairPerKey ==
    /\ \A r, s \in repair : r.key = s.key => r = s
    /\ \A i, j \in JobId :
         (/\ job[i].status = "SUCCEEDED" /\ job[j].status = "SUCCEEDED"
          /\ job[i].type = "repair" /\ job[j].type = "repair" /\ job[i].key = job[j].key)
         => i = j

(* A repair the agent enqueued and that can still commit repairs the       *)
(* latest upload of a full-bleed case whose trim the customer confirmed.   *)
AutoRepairIsConfirmed ==
    \A j \in JobId :
        (/\ IsActive(job[j]) /\ job[j].type = "repair" /\ job[j].key[1] = "auto"
         /\ job[j].cv = order.cv)
        => /\ order.intent = "full_bleed" /\ order.trim = "yes"
           /\ IsLatestOriginal(job[j].asset)

(* Whatever a worker commits was computed from what is still in the order  *)
(* row: nothing it read before its outside calls has changed meanwhile.    *)
CommitsWhatStillHolds ==
    [][\A w \in Worker :
         LET j == worker[w].job
         IN  (/\ worker[w].pc = "loaded" /\ worker'[w] = Idle
              /\ job[j].status = "RUNNING" /\ job'[j].status = "SUCCEEDED")
             => worker[w].seen = View]_vars

(* case_version stamps every change of the order row, so that a version    *)
(* names one state of the case.                                            *)
VersionStampsChanges == [][order' # order => order'.cv = order.cv + 1]_vars

(* "Anything else means the agent needs to look at it" (runInspect): where *)
(* every worker has a provider, an inspection that did not resolve the     *)
(* case, and after which nothing else happened to it, has its decision     *)
(* pending, or failed by its own worker, or taken and followed by a        *)
(* repair; the continuation was never swallowed by a stale job.            *)
InspectionLeadsOn ==
    \A i \in JobId :
        (/\ Agentic = Worker
         /\ job[i] # NoJob /\ job[i].type = "inspect" /\ job[i].status = "SUCCEEDED"
         /\ order.cv = job[i].cv + 1 /\ order.status # "RESOLVED")
        => \E j \in JobId :
              /\ job[j] # NoJob
              /\ job[j].cv = order.cv
              /\ IsActive(job[j]) \/ job[j].note = "failed"
              /\ \/ job[j].type = "agent_decide" /\ job[j].src = i
                 \/ job[j].type = "repair"

(* A RESOLVED case gets its proof, is moved on by a customer, or has a     *)
(* proof job that its worker failed; it does not just sit there.           *)
ResolvedGetsProof ==
    (order.status = "RESOLVED" /\ order.proof = "NOT_PREPARED") ~>
        \/ order.proof = "AWAITING_CUSTOMER_APPROVAL"
        \/ order.status # "RESOLVED"
        \/ \E j \in JobId : /\ job[j].status = "FAILED" /\ job[j].note = "failed"
                            /\ job[j].type = "prepare_proof" /\ job[j].cv = order.cv

-----------------------------------------------------------------------------
(* What the documentation says and the code does not do. *)

(* docs/architecture.md: a NEEDS_REVIEW order has proof_status             *)
(* NOT_PREPARED.  A rejected repair of a RESOLVED case leaves it awaiting. *)
NoProofUnderReview == order.status = "NEEDS_REVIEW" => order.proof = "NOT_PREPARED"
=============================================================================

------------------------------ MODULE JobQueue ------------------------------
(***************************************************************************)
(* What the jobs table and the worker processes promise together, whatever *)
(* the jobs are about: the contract the rest of the system leans on.       *)
(* Customers enqueue jobs; workers claim one at a time, work on it outside *)
(* any transaction and then either commit it (possibly with a follow-up    *)
(* job in the same transaction), are refused, or fail it.  A process may   *)
(* be lost at any point and a lease may run out under a slow worker.       *)
(*                                                                         *)
(* ArtworkCase implements this specification (ArtworkCase!QueueSpec).      *)
(***************************************************************************)
EXTENDS Jobs

CONSTANTS Worker,      \* slots for worker processes
          Asset,       \* what a job can be bound to
          Version,     \* the case_versions a job can be bound to
          Key,         \* idempotency keys of repair jobs
          MaxJobs,     \* bound: rows in the table
          MaxFaults    \* bound: lost processes and leases outrun by their worker

ASSUME MaxJobsAssumption   == MaxJobs \in Nat
ASSUME MaxFaultsAssumption == MaxFaults \in Nat
ASSUME NoWorkerAssumption  == NoWorker \notin Worker

VARIABLES job,      \* the jobs table
          hand,     \* what each worker process has in hand
          faults    \* faults so far

vars == <<job, hand, faults>>

JobId == 1 .. MaxJobs

JobRow == [type   : JobType,
           status : {"QUEUED", "RUNNING", "SUCCEEDED", "FAILED"},
           worker : Worker \cup {NoWorker},
           live   : BOOLEAN,
           note   : {"none", "superseded", "failed"},
           asset  : Asset,
           cv     : Version,
           key    : Key \cup {NoKey},
           src    : JobId \cup {0}]

Idle == [pc |-> "idle", job |-> 0]

(* The follow-up a job of each type may enqueue as it commits. *)
FollowUp == [inspect       |-> {"agent_decide", "prepare_proof"},
             agent_decide  |-> {"repair"},
             repair        |-> {"prepare_proof"},
             prepare_proof |-> {}]

KeysOf(t) == IF t = "repair" THEN Key ELSE {NoKey}

Init == /\ job    = [i \in JobId |-> NoJob]
        /\ hand   = [w \in Worker |-> Idle]
        /\ faults = 0
-----------------------------------------------------------------------------
(* startResolution and requestRepair: CreateJob on its own.  With a job of  *)
(* the type in flight it inserts nothing.                                  *)
Enqueue ==
    /\ UNCHANGED <<hand, faults>>
    /\ \E i \in JobId, t \in {"inspect", "repair"} :
         /\ NextId(job, i)
         /\ \E a \in Asset, v \in Version, k \in KeysOf(t) :
              job' = CreateJob(job, i, NewJob(t, a, v, k, 0))

(* answerClarification: ensureJobEnqueued inside the customer's transaction. *)
EnqueueFresh ==
    /\ UNCHANGED <<hand, faults>>
    /\ \E i \in JobId, a \in Asset, v \in Version :
         /\ NextId(job, i)
         /\ job' = EnsureJobEnqueued(job, i, NewJob("inspect", a, v, NoKey, 0))

(* tick: an idle worker polls and claims. *)
Claim(w) ==
    /\ hand[w] = Idle
    /\ \E i \in JobId :
         /\ IsNextToClaim(job, i)
         /\ job'  = Claimed(job, i, w)
         /\ hand' = [hand EXCEPT ![w] = [pc |-> "working", job |-> i]]
    /\ UNCHANGED faults

(* A Complete* transaction that commits without a follow-up. *)
Commit(w) ==
    /\ hand[w].pc = "working"
    /\ HoldsLease(job, hand[w].job, w)
    /\ job'  = Succeeded(job, hand[w].job)
    /\ hand' = [hand EXCEPT ![w] = Idle]
    /\ UNCHANGED faults

(* A Complete* transaction that commits together with its follow-up job;   *)
(* an agent_decide job is bound to the inspection that enqueued it.        *)
CommitAndContinue(w) ==
    LET j == hand[w].job
    IN  /\ hand[w].pc = "working"
        /\ HoldsLease(job, j, w)
        /\ hand' = [hand EXCEPT ![w] = Idle]
        /\ UNCHANGED faults
        /\ \E i \in JobId, t \in FollowUp[job[j].type] :
             /\ NextId(job, i)
             /\ \E a \in Asset, v \in Version, k \in KeysOf(t) :
                  job' = EnsureJobEnqueued(Succeeded(job, j), i,
                             NewJob(t, a, v, k, IF t = "agent_decide" THEN j ELSE 0))

(* A Complete* transaction that rolls back with ok = false, because the    *)
(* lease is gone or because the case refuses the result.                   *)
Refuse(w) ==
    /\ hand[w].pc = "working"
    /\ hand' = [hand EXCEPT ![w].pc = "void"]
    /\ UNCHANGED <<job, faults>>

(* w.fail: after a refused commit, or after an error along the way. *)
FailWork(w) ==
    /\ hand[w].pc \in {"working", "void"}
    /\ job'  = FailJob(job, hand[w].job, w, "failed")
    /\ hand' = [hand EXCEPT ![w] = Idle]
    /\ UNCHANGED faults

(* The process dies and another takes its slot, or an error that is only   *)
(* logged makes it let go: the row stays RUNNING.                          *)
Lose(w) ==
    /\ hand[w] # Idle
    /\ faults < MaxFaults
    /\ faults' = faults + 1
    /\ hand'   = [hand EXCEPT ![w] = Idle]
    /\ UNCHANGED job

InHand(i) == \E w \in Worker : hand[w].job = i

(* The lease of a job nobody works on any more runs out. *)
LeaseRunsOut(i) ==
    /\ job[i].status = "RUNNING" /\ job[i].live
    /\ ~InHand(i)
    /\ job' = LeaseExpired(job, i)
    /\ UNCHANGED <<hand, faults>>

(* The lease runs out under a worker that is still busy. *)
OutrunLease(i) ==
    /\ job[i].status = "RUNNING" /\ job[i].live
    /\ InHand(i)
    /\ faults < MaxFaults
    /\ faults' = faults + 1
    /\ job'    = LeaseExpired(job, i)
    /\ UNCHANGED hand

Finish(w) == Commit(w) \/ CommitAndContinue(w) \/ Refuse(w) \/ FailWork(w)

Next ==
    \/ Enqueue
    \/ EnqueueFresh
    \/ \E w \in Worker : Claim(w) \/ Finish(w) \/ Lose(w)
    \/ \E i \in JobId : LeaseRunsOut(i) \/ OutrunLease(i)

(* Every process polls every two seconds and every step it takes returns   *)
(* (the HTTP clients have timeouts), and time passes for idle leases.      *)
Fairness == /\ \A w \in Worker : WF_vars(Claim(w)) /\ WF_vars(Finish(w))
            /\ \A i \in JobId : WF_vars(LeaseRunsOut(i))

Spec     == Init /\ [][Next]_vars
FairSpec == Spec /\ Fairness
-----------------------------------------------------------------------------
(* Every row and every hand is well formed: a QUEUED row has no worker,    *)
(* a RUNNING row has one, ids are handed out without gaps, and what a      *)
(* worker has in hand was claimed once (worker_id of ClaimNextJob).        *)
TypeOK ==
    /\ job \in [JobId -> JobRow \cup {NoJob}]
    /\ hand \in [Worker -> [pc : {"idle", "working", "void"}, job : JobId \cup {0}]]
    /\ faults \in 0 .. MaxFaults
    /\ \A i \in JobId :
         /\ job[i].status = "QUEUED" => job[i].worker = NoWorker /\ ~job[i].live
         /\ job[i].status = "RUNNING" => job[i].worker \in Worker
    /\ \A w \in Worker :
         IF hand[w].pc = "idle" THEN hand[w].job = 0
         ELSE hand[w].job \in JobId /\ job[hand[w].job].status \notin {"absent", "QUEUED"}

(* The partial unique index, which CreateJob's ON CONFLICT and             *)
(* ensureJobEnqueued's supersede-then-insert must both respect: at most    *)
(* one QUEUED or RUNNING job of a type.                                    *)
OneActivePerType ==
    \A i, j \in JobId :
        (IsActive(job[i]) /\ IsActive(job[j]) /\ job[i].type = job[j].type) => i = j

(* A job that SUCCEEDED or FAILED never changes again, whichever late      *)
(* completion, late FailJob or reclaim arrives afterwards.                 *)
TerminalIsFinal ==
    [][\A i \in JobId : IsTerminal(job[i]) => job'[i] = job[i]]_vars

(* "Two workers racing for the same row can never both succeed": a job     *)
(* becomes SUCCEEDED only through the worker that claimed it last, while   *)
(* its lease is unexpired, so a worker that lost its lease commits nothing. *)
OnlyHolderCommits ==
    [][\A i \in JobId :
         (job[i].status = "RUNNING" /\ job'[i].status = "SUCCEEDED")
           => /\ job[i].live
              /\ \E w \in Worker : /\ hand[w] = [pc |-> "working", job |-> i]
                                   /\ hand'[w] = Idle
                                   /\ job[i].worker = w]_vars

(* "The new continuation is never dropped": a job is superseded only by    *)
(* the step that inserts a newer job of its type.                          *)
SupersededIsReplaced ==
    [][\A i \in JobId :
         (IsActive(job[i]) /\ job'[i].note = "superseded")
           => \E k \in JobId : /\ k > i
                               /\ job[k] = NoJob
                               /\ job'[k] # NoJob
                               /\ job'[k].type = job[i].type
                               /\ job'[k].status = "QUEUED"]_vars

(* Every enqueued job ends SUCCEEDED or FAILED, whatever happens to the    *)
(* processes that work on it: leases hand it on.                           *)
JobsFinish ==
    \A i \in JobId : IsActive(job[i]) ~> IsTerminal(job[i])
=============================================================================

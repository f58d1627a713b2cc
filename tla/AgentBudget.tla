---------------------------- MODULE AgentBudget ----------------------------
(***************************************************************************)
(* The budget of one order's agent: provider calls are reserved in the     *)
(* orders row before they are made, transient failures are retried within  *)
(* one deadline, and the lease of the agent_decide job runs meanwhile.     *)
(* Time is counted in ticks; how an agent_decide job comes about and what  *)
(* is decided is ArtworkCase's subject.                                    *)
(***************************************************************************)
EXTENDS Jobs

CONSTANTS Worker,                    \* slots for worker processes
          MaxAgentToolCalls,         \* five in the code
          MaxAgentTransientRetries,  \* two in the code
          LeaseDuration,             \* 30 s, in ticks
          AgentDecisionDeadline,     \* 20 s, over all attempts of one decision
          GroqHTTPTimeout,           \* 12 s, for one attempt
          DbTime,                    \* what the database costs one handler at most
          MaxJobs,                   \* bound: rows of jobs
          MaxUploads,                \* bound: uploads
          MaxFaults                  \* bound: lost processes and failed statements

ASSUME CapsAssumption   == MaxAgentToolCalls \in Nat /\ MaxAgentTransientRetries \in Nat
ASSUME BoundsAssumption == MaxJobs \in Nat /\ MaxUploads \in Nat /\ MaxFaults \in Nat
ASSUME TimeAssumption   == /\ LeaseDuration \in Nat /\ AgentDecisionDeadline \in Nat
                           /\ GroqHTTPTimeout \in Nat /\ DbTime \in Nat
(* "Comfortably below leaseDuration": what the database takes fits between. *)
ASSUME MarginAssumption == DbTime + AgentDecisionDeadline < LeaseDuration
ASSUME WorkersAssumption == NoWorker \notin Worker

VARIABLES job,      \* the order's agent_decide jobs
          lease,    \* ticks until lease_expires_at, for a RUNNING job
          version,  \* orders.case_version
          upload,   \* uploads so far
          used,     \* orders.agent_tool_calls_used and agent_retries_used
          worker,   \* what each worker process holds in memory
          spent,    \* history: the reservations a provider call was made on
          faults    \* faults so far

vars == <<job, lease, version, upload, used, worker, spent, faults>>

JobId   == 1 .. MaxJobs
Attempt == {"call", "retry"}
Cap     == [call |-> MaxAgentToolCalls, retry |-> MaxAgentTransientRetries]

JobRow  == [type : {"agent_decide"}, status : {"QUEUED", "RUNNING", "SUCCEEDED", "FAILED"},
            worker : Worker \cup {NoWorker}, live : BOOLEAN,
            note : {"none", "superseded", "failed"},
            asset : 0 .. MaxUploads, cv : Nat, key : {NoKey}, src : {0}]

(* A reservation: the n-th of its kind since an upload. *)
Token   == [upload : 0 .. MaxUploads, kind : Attempt, n : Nat]
NoToken == [upload |-> 0, kind |-> "call", n |-> 0]

(* left: until the decision's deadline; http: until the attempt's timeout;  *)
(* db: what the database may still cost this handler.                       *)
Idle == [pc |-> "idle", job |-> 0, token |-> NoToken, left |-> 0, http |-> 0, db |-> 0]

Hand == [pc    : {"idle", "claimed", "reserved", "calling", "failed", "decided", "escalating",
                  "void"},
         job   : JobId \cup {0},
         token : Token,
         left  : 0 .. AgentDecisionDeadline,
         http  : 0 .. GroqHTTPTimeout,
         db    : 0 .. DbTime]

Init ==
    /\ job     = [i \in JobId |-> NoJob]
    /\ lease   = [i \in JobId |-> 0]
    /\ version = 1
    /\ upload  = 0
    /\ used    = [k \in Attempt |-> 0]
    /\ worker  = [w \in Worker |-> Idle]
    /\ spent   = {}
    /\ faults  = 0

LeasesOf(T) == [i \in JobId |-> IF T[i].status = "RUNNING" THEN lease[i] ELSE 0]
-----------------------------------------------------------------------------
(* RecordArtworkUpload: a new artwork gets a new budget, whoever is still   *)
(* deciding about the old one.                                              *)
Upload ==
    /\ upload < MaxUploads
    /\ upload'  = upload + 1
    /\ version' = version + 1
    /\ used'    = [k \in Attempt |-> 0]
    /\ UNCHANGED <<job, lease, worker, spent, faults>>

(* CompleteInspection of a case the agent has to look at. *)
Inspected ==
    \E i \in JobId :
        /\ NextId(job, i)
        /\ version' = version + 1
        /\ job'   = EnsureJobEnqueued(job, i, NewJob("agent_decide", upload, version + 1, NoKey, 0))
        /\ lease' = LeasesOf(job')
        /\ UNCHANGED <<upload, used, worker, spent, faults>>

(* tick and ClaimNextJob. *)
Claim(w) ==
    /\ worker[w] = Idle
    /\ \E i \in JobId :
         /\ IsNextToClaim(job, i)
         /\ job'    = Claimed(job, i, w)
         /\ lease'  = [lease EXCEPT ![i] = LeaseDuration]
         /\ worker' = [worker EXCEPT ![w] = [Idle EXCEPT !.pc = "claimed", !.job = i, !.db = DbTime]]
    /\ UNCHANGED <<version, upload, used, spent, faults>>

(* ReserveAgentToolCall, ReserveAgentRetry: one conditional UPDATE. *)
Bug_CanReserveOneMore(k) == used[k] <= Cap[k]
CanReserve(k) == used[k] < Cap[k]

Bug_ReservedLater(k) == used
Reserved(k) == [used EXCEPT ![k] = used[k] + 1]

Reserve(w, k) ==
    /\ CanReserve(k)
    /\ used'   = Reserved(k)
    /\ worker' = [worker EXCEPT ![w].pc = "reserved",
                                ![w].token = [upload |-> upload, kind |-> k, n |-> used[k] + 1]]

(* The attempts are over and what they kept in memory is forgotten.        *)
Ends(w, pc) ==
    worker' = [worker EXCEPT ![w].pc = pc, ![w].token = NoToken, ![w].left = 0, ![w].http = 0]

(* The budget is exhausted: the worker escalates, which completes the job. *)
Bug_ExhaustedReturns(w) == worker' = [worker EXCEPT ![w] = Idle]
Exhausted(w) == Ends(w, "escalating")

ReserveToolCall(w) ==
    /\ worker[w].pc = "claimed"
    /\ \/ Reserve(w, "call")
       \/ ~CanReserve("call") /\ Exhausted(w) /\ UNCHANGED used
    /\ UNCHANGED <<job, lease, version, upload, spent, faults>>

(* context.WithTimeout before the first attempt covers every later one.    *)
Bug_DeadlinePerAttempt(w) == AgentDecisionDeadline
DeadlineOf(w) == IF worker[w].token.kind = "call" THEN AgentDecisionDeadline ELSE worker[w].left

(* provider.Decide is called. *)
Call(w) ==
    /\ worker[w].pc = "reserved"
    /\ worker' = [worker EXCEPT ![w].pc = "calling", ![w].http = GroqHTTPTimeout,
                                ![w].left = DeadlineOf(w)]
    /\ spent'  = spent \cup {worker[w].token}
    /\ UNCHANGED <<job, lease, version, upload, used, faults>>

(* It returns: a decision or a permanent error ends the loop, a transient  *)
(* one (no answer, 429, 5xx, no tool call) does not.                       *)
Return(w) ==
    /\ worker[w].pc = "calling"
    /\ \/ Ends(w, "decided")
       \/ Ends(w, "escalating")
       \/ worker' = [worker EXCEPT ![w].pc = "failed", ![w].http = 0]
    /\ UNCHANGED <<job, lease, version, upload, used, spent, faults>>

(* After a transient error: another attempt within deadline and budget.    *)
ReserveRetry(w) ==
    /\ worker[w].pc = "failed" /\ worker[w].left > 0
    /\ \/ Reserve(w, "retry")
       \/ ~CanReserve("retry") /\ Ends(w, "escalating") /\ UNCHANGED used
    /\ UNCHANGED <<job, lease, version, upload, spent, faults>>

(* The deadline has passed, or the reservation itself fails. *)
GiveUp(w) ==
    /\ worker[w].pc = "failed"
    /\ \/ worker[w].left = 0 /\ UNCHANGED faults
       \/ worker[w].left > 0 /\ faults < MaxFaults /\ faults' = faults + 1
    /\ Ends(w, "escalating")
    /\ UNCHANGED <<job, lease, version, upload, used, spent>>

(* CompleteAgentDecision: a question and an escalation change the case, a   *)
(* requested repair leaves case_version to the repair job.                 *)
Commits(w) == HoldsLease(job, worker[w].job, w) /\ job[worker[w].job].cv = version

Commit(w) ==
    /\ worker[w].pc \in {"decided", "escalating"} /\ Commits(w)
    /\ job'     = Succeeded(job, worker[w].job)
    /\ lease'   = LeasesOf(job')
    /\ \/ version' = version + 1
       \/ worker[w].pc = "decided" /\ version' = version
    /\ worker'  = [worker EXCEPT ![w] = Idle]
    /\ UNCHANGED <<upload, used, spent, faults>>

Refuse(w) ==
    /\ worker[w].pc \in {"decided", "escalating"} /\ ~Commits(w)
    /\ worker' = [worker EXCEPT ![w].pc = "void"]
    /\ UNCHANGED <<job, lease, version, upload, used, spent, faults>>

FailWork(w) ==
    /\ worker[w].pc = "void"
    /\ job'    = FailJob(job, worker[w].job, w, "failed")
    /\ lease'  = LeasesOf(job')
    /\ worker' = [worker EXCEPT ![w] = Idle]
    /\ UNCHANGED <<version, upload, used, spent, faults>>

(* The process dies, or an error of the database is logged and the handler *)
(* returns: the row stays RUNNING until its lease runs out.                *)
Lose(w) ==
    /\ worker[w] # Idle
    /\ faults < MaxFaults
    /\ faults' = faults + 1
    /\ worker' = [worker EXCEPT ![w] = Idle]
    /\ UNCHANGED <<job, lease, version, upload, used, spent>>

(* Time: an attempt ends by its own timeout and by the decision's deadline, *)
(* the rest of a handler takes no longer than its database time.           *)
Minus1(n) == IF n > 0 THEN n - 1 ELSE 0

CanWait(h) == CASE h.pc = "idle"    -> TRUE
                [] h.pc = "calling" -> h.left > 0 /\ h.http > 0
                [] OTHER            -> h.db > 0

Waited(h) == IF h.pc = "calling"
             THEN [h EXCEPT !.left = Minus1(h.left), !.http = Minus1(h.http)]
             ELSE [h EXCEPT !.left = Minus1(h.left), !.db = Minus1(h.db)]

Tick ==
    /\ (\E i \in JobId : lease[i] > 0) \/ (\E w \in Worker : worker[w] # Idle)
    /\ \A w \in Worker : CanWait(worker[w])
    /\ lease'  = [i \in JobId |-> Minus1(lease[i])]
    /\ job'    = [i \in JobId |-> IF lease[i] = 1 THEN [job[i] EXCEPT !.live = FALSE] ELSE job[i]]
    /\ worker' = [w \in Worker |-> Waited(worker[w])]
    /\ UNCHANGED <<version, upload, used, spent, faults>>

Handle(w) == \/ ReserveToolCall(w) \/ Call(w) \/ Return(w) \/ ReserveRetry(w) \/ GiveUp(w)
             \/ Commit(w) \/ Refuse(w) \/ FailWork(w)

Next == \/ Upload \/ Inspected \/ Tick
        \/ \E w \in Worker : Claim(w) \/ Handle(w) \/ Lose(w)

(* Workers poll, every step of a handler returns, and time passes.         *)
Fairness == WF_vars(Tick) /\ \A w \in Worker : WF_vars(Claim(w)) /\ WF_vars(Handle(w))

Spec     == Init /\ [][Next]_vars
FairSpec == Spec /\ Fairness
-----------------------------------------------------------------------------
(* The counters stay within their caps, a lease runs for RUNNING rows only, *)
(* and a handler's clocks are within the constants they started from.      *)
TypeOK ==
    /\ used \in [Attempt -> Nat] /\ \A k \in Attempt : used[k] <= Cap[k]
    /\ version \in Nat /\ upload \in 0 .. MaxUploads /\ faults \in 0 .. MaxFaults
    /\ spent \subseteq Token
    /\ worker \in [Worker -> Hand]
    /\ job \in [JobId -> JobRow \cup {NoJob}]
    /\ lease \in [JobId -> 0 .. LeaseDuration]
    /\ \A i \in JobId : lease[i] > 0 <=> job[i].status = "RUNNING" /\ job[i].live

(* "Budgets are reserved atomically before each attempt": no two provider  *)
(* calls are made on one reservation, and none on one beyond the cap, over *)
(* workers, crashes, repeated decisions and uploads in between.  So at most *)
(* five calls and two retries are ever made on the budget of one upload.   *)
CallsArePaid ==
    [][\A w \in Worker :
         (worker[w].pc # "calling" /\ worker'[w].pc = "calling")
           => /\ worker'[w].token \notin spent
              /\ worker'[w].token.n \in 1 .. Cap[worker'[w].token.kind]]_vars

(* "A slow or hanging provider can never keep a job RUNNING past its       *)
(* lease": whoever waits for the provider still holds its job's lease,     *)
(* unless a newer inspection superseded the job.                           *)
CallsUnderLease ==
    \A w \in Worker :
        worker[w].pc = "calling" => LET j == worker[w].job
                                    IN  HoldsLease(job, j, w) \/ job[j].note = "superseded"

(* Every decision job ends, although each repetition may find less budget  *)
(* than the last and the provider may never answer.                        *)
DecisionsEnd ==
    \A i \in JobId : IsActive(job[i]) ~> IsTerminal(job[i])
=============================================================================

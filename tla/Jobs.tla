-------------------------------- MODULE Jobs --------------------------------
(***************************************************************************)
(* The jobs table of internal/store/jobs.go, for ONE order, as a value:    *)
(* a function from job ids to rows.  Ids are given out in creation order,  *)
(* so "ORDER BY created_at" is the order of the ids.  Every operator below *)
(* is one SQL statement of the store (or the group of statements that      *)
(* always runs together inside one transaction); JobQueue and ArtworkCase  *)
(* build their actions from them.                                          *)
(*                                                                         *)
(* live stands for lease_expires_at > now().                               *)
(***************************************************************************)
EXTENDS Naturals

JobType == {"inspect", "agent_decide", "repair", "prepare_proof"}

NoJob    == [status |-> "absent"]
NoWorker == "no worker"
NoKey    == <<"no key", 0>>

(* A freshly inserted row: QUEUED, unclaimed, bound for good to its asset, *)
(* to the case_version it applies to and, per type, to an idempotency key  *)
(* or to the inspection it decides about.                                  *)
NewJob(t, a, v, k, s) ==
    [type |-> t, status |-> "QUEUED", worker |-> NoWorker, live |-> FALSE,
     note |-> "none", asset |-> a, cv |-> v, key |-> k, src |-> s]

IsActive(row)   == row.status \in {"QUEUED", "RUNNING"}
IsTerminal(row) == row.status \in {"SUCCEEDED", "FAILED"}

(* The id the next INSERT into a table gets. *)
NextRow(T, vacant, i) == T[i] = vacant /\ \A k \in DOMAIN T : k < i => T[k] # vacant
NextId(T, i) == NextRow(T, NoJob, i)

(* GetActiveJob: the partial unique index lets this set have one member.   *)
ActiveJobs(T, t) == {i \in DOMAIN T : IsActive(T[i]) /\ T[i].type = t}

(* CreateJob: INSERT ... ON CONFLICT DO NOTHING. *)
Bug_CreateJobNoConflict(T, i, row) == [T EXCEPT ![i] = row]
CreateJob(T, i, row) ==
    IF ActiveJobs(T, row.type) = {} THEN [T EXCEPT ![i] = row] ELSE T

(* ensureJobEnqueued: reuse an active job only when it is bound to exactly *)
(* this asset and version; otherwise supersede it and insert.              *)
AlreadyEnqueued(T, row) ==
    \E r \in ActiveJobs(T, row.type) : T[r].asset = row.asset /\ T[r].cv = row.cv

Bug_EnsureConflictDoesNothing(T, i, row) == CreateJob(T, i, row)
Bug_EnsureSupersedesOnly(T, i, row) ==
    [k \in DOMAIN T |-> IF k \in ActiveJobs(T, row.type)
                        THEN [T[k] EXCEPT !.status = "FAILED", !.note = "superseded"]
                        ELSE T[k]]
EnsureJobEnqueued(T, i, row) ==
    IF AlreadyEnqueued(T, row) THEN T
    ELSE [k \in DOMAIN T |->
            IF k = i THEN row
            ELSE IF k \in ActiveJobs(T, row.type)
                 THEN [T[k] EXCEPT !.status = "FAILED", !.note = "superseded"]
                 ELSE T[k]]

(* ClaimNextJob: the oldest job that is QUEUED, or RUNNING with a lease    *)
(* that has run out, goes to worker w with a new lease.                    *)
Bug_ClaimableQueuedOnly(T) == {i \in DOMAIN T : T[i].status = "QUEUED"}
Claimable(T) ==
    {i \in DOMAIN T : \/ T[i].status = "QUEUED"
                      \/ T[i].status = "RUNNING" /\ ~T[i].live}

IsNextToClaim(T, i) == i \in Claimable(T) /\ \A k \in Claimable(T) : i <= k

Bug_ClaimedForgetsWorker(T, i, w) ==
    [T EXCEPT ![i].status = "RUNNING", ![i].live = TRUE]
Claimed(T, i, w) ==
    [T EXCEPT ![i].status = "RUNNING", ![i].worker = w, ![i].live = TRUE]

(* The guard every Complete* statement puts on the job row. *)
Bug_HoldsLeaseAnyWorker(T, i, w) == T[i].status = "RUNNING" /\ T[i].live
HoldsLease(T, i, w) ==
    T[i].worker = w /\ T[i].status = "RUNNING" /\ T[i].live

Succeeded(T, i) == [T EXCEPT ![i].status = "SUCCEEDED"]

(* FailJob asks for the worker and RUNNING, not for an unexpired lease. *)
Bug_FailJobUnguarded(T, i, w, why) ==
    [T EXCEPT ![i].status = "FAILED", ![i].note = why]
FailJob(T, i, w, why) ==
    IF T[i].worker = w /\ T[i].status = "RUNNING"
    THEN [T EXCEPT ![i].status = "FAILED", ![i].note = why]
    ELSE T

(* 30 seconds pass without a completion: there is no lease renewal. *)
LeaseExpired(T, i) == [T EXCEPT ![i].live = FALSE]
=============================================================================

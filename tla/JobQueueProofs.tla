--------------------------- MODULE JobQueueProofs ---------------------------
(***************************************************************************)
(* Proofs about the job queue, for any workers, assets, versions, keys and *)
(* any bounds.  The inductive invariant adds two facts to TypeOK and       *)
(* OneActivePerType: ids are given out without gaps, and a row that is     *)
(* still active was never superseded.                                      *)
(***************************************************************************)
EXTENDS JobQueue, TLAPS

NoGaps == \A i, k \in JobId : (i < k /\ job[i] = NoJob) => job[k] = NoJob

ActiveNotSuperseded == \A i \in JobId : IsActive(job[i]) => job[i].note # "superseded"

IInv == TypeOK /\ OneActivePerType /\ NoGaps /\ ActiveNotSuperseded

(* What TypeOK says of one table. *)
Table(T) ==
    /\ T \in [JobId -> JobRow \cup {NoJob}]
    /\ \A i \in JobId :
         /\ T[i].status = "QUEUED" => T[i].worker = NoWorker /\ ~T[i].live
         /\ T[i].status = "RUNNING" => T[i].worker \in Worker

(* The rest of the inductive invariant, of one table. *)
Sound(T) ==
    /\ Table(T)
    /\ \A i, j \in JobId : (IsActive(T[i]) /\ IsActive(T[j]) /\ T[i].type = T[j].type) => i = j
    /\ \A i, k \in JobId : (i < k /\ T[i] = NoJob) => T[k] = NoJob
    /\ \A i \in JobId : IsActive(T[i]) => T[i].note # "superseded"

(* A row, once given out, keeps existing and is never queued again. *)
Kept(T, U) ==
    \A i \in JobId : T[i].status \notin {"absent", "QUEUED"} => U[i].status \notin {"absent", "QUEUED"}

(* A terminal row of T is the same row of U. *)
Final(T, U) == \A i \in JobId : IsTerminal(T[i]) => U[i] = T[i]

(* A row superseded between T and U has a younger replacement in U. *)
Replaced(T, U) ==
    \A i \in JobId :
        (IsActive(T[i]) /\ U[i].note = "superseded")
          => \E k \in JobId : /\ k > i
                              /\ T[k] = NoJob
                              /\ U[k] # NoJob
                              /\ U[k].type = T[i].type
                              /\ U[k].status = "QUEUED"

Good(T, U) == Sound(U) /\ Kept(T, U) /\ Final(T, U) /\ Replaced(T, U)
-----------------------------------------------------------------------------
LEMMA RowFacts ==
  ASSUME NEW T, Table(T), NEW i \in JobId
  PROVE  /\ IsActive(T[i]) => T[i] \in JobRow
         /\ IsTerminal(T[i]) => T[i] \in JobRow
         /\ T[i] = NoJob <=> T[i].status = "absent"
         /\ NoJob.status = "absent"
  BY DEF Table, JobRow, NoJob, IsActive, IsTerminal

(* The row a new job starts with. *)
IsNew(row) == /\ row \in JobRow
              /\ row.status = "QUEUED" /\ row.note = "none"
              /\ row.worker = NoWorker /\ row.live = FALSE
              /\ row # NoJob

LEMMA NewJobIsNew ==
  ASSUME NEW t \in JobType, NEW a \in Asset, NEW v \in Version, NEW k \in KeysOf(t),
         NEW s \in JobId \cup {0}
  PROVE  IsNew(NewJob(t, a, v, k, s)) /\ NewJob(t, a, v, k, s).type = t
<1>1. k \in Key \cup {NoKey}
  BY DEF KeysOf
<1> QED
  BY <1>1 DEF NewJob, JobRow, NoJob, IsNew

LEMMA CreateJobGood ==
  ASSUME NEW T, Sound(T), NEW i \in JobId, NextId(T, i), NEW row, IsNew(row)
  PROVE  Good(T, CreateJob(T, i, row))
<1> DEFINE U == CreateJob(T, i, row)
<1>1. CASE ActiveJobs(T, row.type) # {}
  <2>1. U = T
    BY <1>1 DEF CreateJob
  <2> QED
    BY <2>1 DEF Good, Kept, Final, Replaced, Sound
<1>2. CASE ActiveJobs(T, row.type) = {}
  <2>1. U = [T EXCEPT ![i] = row] /\ DOMAIN T = JobId
    BY <1>2 DEF CreateJob, Sound, Table
  <2>2. \A k \in JobId : U[k] = IF k = i THEN row ELSE T[k]
    BY <2>1
  <2>3. T[i] = NoJob /\ \A k \in JobId : k < i => T[k] # NoJob
    BY <2>1 DEF NextId, NextRow
  <2>4. Table(U)
    BY <2>1, <2>2 DEF Table, Sound, IsNew
  <2>5. \A k \in JobId : IsActive(T[k]) => T[k].type # row.type
    BY <1>2, <2>1 DEF ActiveJobs
  <2>6. Sound(U)
    BY <2>2, <2>3, <2>4, <2>5 DEF Sound, IsNew, IsActive, JobId
  <2>7. Kept(T, U) /\ Final(T, U) /\ Replaced(T, U)
    BY <2>2, <2>3 DEF Kept, Final, Replaced, Sound, IsNew, IsActive, IsTerminal, NoJob
  <2> QED
    BY <2>6, <2>7 DEF Good
<1> QED
  BY <1>1, <1>2

LEMMA EnsureJobEnqueuedGood ==
  ASSUME NEW T, Sound(T), NEW i \in JobId, NextId(T, i), NEW row, IsNew(row)
  PROVE  Good(T, EnsureJobEnqueued(T, i, row))
<1> DEFINE U == EnsureJobEnqueued(T, i, row)
<1>1. CASE AlreadyEnqueued(T, row)
  <2>1. U = T
    BY <1>1 DEF EnsureJobEnqueued
  <2> QED
    BY <2>1 DEF Good, Kept, Final, Replaced, Sound
<1>2. CASE ~AlreadyEnqueued(T, row)
  <2> DEFINE Stale(k) == IsActive(T[k]) /\ T[k].type = row.type
  <2>1. DOMAIN T = JobId
    BY DEF Sound, Table
  <2>2. U = [k \in JobId |-> IF k = i THEN row
                             ELSE IF Stale(k)
                                  THEN [T[k] EXCEPT !.status = "FAILED", !.note = "superseded"]
                                  ELSE T[k]]
    BY <1>2, <2>1 DEF EnsureJobEnqueued, ActiveJobs
  <2>3. T[i] = NoJob /\ \A k \in JobId : k < i => T[k] # NoJob
    BY <2>1 DEF NextId, NextRow
  <2>4. U[i] = row
    BY <2>2
  <2>5. \A k \in JobId : k # i /\ ~Stale(k) => U[k] = T[k]
    BY <2>2
  <2>6. ASSUME NEW k \in JobId, k # i, Stale(k)
        PROVE  /\ T[k] \in JobRow
               /\ U[k] \in JobRow
               /\ U[k].status = "FAILED" /\ U[k].type = T[k].type
    <3>1. T[k] \in JobRow
      BY <2>6, RowFacts DEF Sound
    <3>2. U[k] = [T[k] EXCEPT !.status = "FAILED", !.note = "superseded"]
      BY <2>2, <2>6
    <3> QED
      BY <3>1, <3>2 DEF JobRow
  <2>7. Table(U)
    <3>1. \A k \in JobId : U[k] \in JobRow \cup {NoJob}
      BY <2>4, <2>5, <2>6 DEF Sound, Table, IsNew
    <3>2. U \in [JobId -> JobRow \cup {NoJob}]
      BY <2>2, <3>1
    <3> QED
      BY <3>2, <2>4, <2>5, <2>6 DEF Sound, Table, IsNew
  <2>8. \A j, k \in JobId : (IsActive(U[j]) /\ IsActive(U[k]) /\ U[j].type = U[k].type) => j = k
    BY <2>4, <2>5, <2>6 DEF Sound, IsNew, IsActive
  <2>9. \A j, k \in JobId : (j < k /\ U[j] = NoJob) => U[k] = NoJob
    BY <2>3, <2>4, <2>5, <2>6 DEF Sound, IsNew, JobId, JobRow, NoJob
  <2>10. \A k \in JobId : IsActive(U[k]) => U[k].note # "superseded"
    BY <2>4, <2>5, <2>6 DEF Sound, IsNew, IsActive
  <2>11. Kept(T, U) /\ Final(T, U)
    BY <2>3, <2>4, <2>5, <2>6 DEF Kept, Final, IsActive, IsTerminal, NoJob
  <2>12. Replaced(T, U)
    <3> SUFFICES ASSUME NEW k \in JobId, IsActive(T[k]), U[k].note = "superseded"
                 PROVE  i > k /\ T[i] = NoJob /\ U[i] # NoJob
                        /\ U[i].type = T[k].type /\ U[i].status = "QUEUED"
      BY DEF Replaced
    <3>1. k # i /\ T[k] # NoJob
      BY <2>3 DEF NoJob, IsActive
    <3>2. Stale(k)
      BY <3>1, <2>5 DEF Sound
    <3>3. k < i
      BY <3>1, <2>3 DEF Sound, JobId
    <3> QED
      BY <3>2, <3>3, <2>3, <2>4 DEF IsNew
  <2> QED
    BY <2>7, <2>8, <2>9, <2>10, <2>11, <2>12 DEF Good, Sound
<1> QED
  BY <1>1, <1>2

(* Changing the status, worker or lease of one row that is RUNNING or      *)
(* QUEUED, in place.                                                       *)
LEMMA InPlaceGood ==
  ASSUME NEW T, Sound(T), NEW i \in JobId, IsActive(T[i]), NEW row \in JobRow,
         row.type = T[i].type, row.status # "QUEUED",
         row.status = "RUNNING" => row.worker \in Worker,
         row.note # "superseded"
  PROVE  Good(T, [T EXCEPT ![i] = row])
<1> DEFINE U == [T EXCEPT ![i] = row]
<1>1. T[i] \in JobRow /\ T[i] # NoJob /\ row # NoJob
  BY RowFacts DEF Sound, JobRow, NoJob
<1>2. DOMAIN T = JobId
  BY DEF Sound, Table
<1>3. \A k \in JobId : U[k] = IF k = i THEN row ELSE T[k]
  BY <1>2
<1>4. Table(U)
  BY <1>2, <1>3 DEF Sound, Table
<1>5. Sound(U)
  BY <1>1, <1>3, <1>4 DEF Sound, IsActive
<1>6. Kept(T, U) /\ Final(T, U) /\ Replaced(T, U)
  BY <1>1, <1>3 DEF Kept, Final, Replaced, Sound, JobRow, IsActive, IsTerminal
<1> QED
  BY <1>5, <1>6 DEF Good

LEMMA ClaimedGood ==
  ASSUME NEW T, Sound(T), NEW i \in JobId, IsNextToClaim(T, i), NEW w \in Worker
  PROVE  /\ Good(T, Claimed(T, i, w))
         /\ Claimed(T, i, w)[i].status = "RUNNING"
<1> DEFINE row == [T[i] EXCEPT !.status = "RUNNING", !.worker = w, !.live = TRUE]
<1>1. IsActive(T[i]) /\ T[i] \in JobRow /\ DOMAIN T = JobId
  BY RowFacts DEF IsNextToClaim, Claimable, IsActive, Sound, Table
<1>2. Claimed(T, i, w) = [T EXCEPT ![i] = row]
  BY <1>1 DEF Claimed, JobRow
<1>3. row \in JobRow /\ row.type = T[i].type /\ row.status = "RUNNING" /\ row.worker = w
      /\ row.note = T[i].note
  BY <1>1 DEF JobRow
<1>4. Good(T, [T EXCEPT ![i] = row])
  BY <1>1, <1>3, InPlaceGood DEF Sound
<1> QED
  BY <1>1, <1>2, <1>3, <1>4

LEMMA SucceededGood ==
  ASSUME NEW T, Sound(T), NEW i \in JobId, IsActive(T[i])
  PROVE  /\ Good(T, Succeeded(T, i))
         /\ \A k \in JobId : k # i => Succeeded(T, i)[k] = T[k]
         /\ Succeeded(T, i)[i].status = "SUCCEEDED"
         /\ Succeeded(T, i)[i].note = T[i].note
         /\ T[i] \in JobRow
<1> DEFINE row == [T[i] EXCEPT !.status = "SUCCEEDED"]
<1>1. T[i] \in JobRow /\ DOMAIN T = JobId
  BY RowFacts DEF Sound, Table
<1>2. Succeeded(T, i) = [T EXCEPT ![i] = row]
  BY <1>1 DEF Succeeded, JobRow
<1>3. row \in JobRow /\ row.type = T[i].type /\ row.status = "SUCCEEDED" /\ row.note = T[i].note
  BY <1>1 DEF JobRow
<1>4. Good(T, [T EXCEPT ![i] = row])
  BY <1>1, <1>3, InPlaceGood DEF Sound
<1> QED
  BY <1>1, <1>2, <1>3, <1>4

LEMMA FailJobGood ==
  ASSUME NEW T, Sound(T), NEW i \in JobId, NEW w \in Worker
  PROVE  Good(T, FailJob(T, i, w, "failed"))
<1>1. CASE T[i].worker = w /\ T[i].status = "RUNNING"
  <2> DEFINE row == [T[i] EXCEPT !.status = "FAILED", !.note = "failed"]
  <2>1. IsActive(T[i]) /\ T[i] \in JobRow /\ DOMAIN T = JobId
    BY <1>1, RowFacts DEF Sound, Table, IsActive
  <2>2. FailJob(T, i, w, "failed") = [T EXCEPT ![i] = row]
    BY <1>1, <2>1 DEF FailJob, JobRow
  <2>3. row \in JobRow /\ row.type = T[i].type /\ row.status = "FAILED" /\ row.note = "failed"
    BY <2>1 DEF JobRow
  <2>4. Good(T, [T EXCEPT ![i] = row])
    BY <2>1, <2>3, InPlaceGood
  <2> QED
    BY <2>2, <2>4
<1>2. CASE ~(T[i].worker = w /\ T[i].status = "RUNNING")
  BY <1>2 DEF FailJob, Good, Kept, Final, Replaced, Sound
<1> QED
  BY <1>1, <1>2

LEMMA LeaseExpiredGood ==
  ASSUME NEW T, Sound(T), NEW i \in JobId, T[i].status = "RUNNING"
  PROVE  Good(T, LeaseExpired(T, i))
<1> DEFINE row == [T[i] EXCEPT !.live = FALSE]
<1>1. IsActive(T[i]) /\ T[i] \in JobRow /\ DOMAIN T = JobId
  BY RowFacts DEF Sound, Table, IsActive
<1>2. LeaseExpired(T, i) = [T EXCEPT ![i] = row]
  BY <1>1 DEF LeaseExpired, JobRow
<1>3. row \in JobRow /\ row.type = T[i].type /\ row.status = "RUNNING"
      /\ row.worker = T[i].worker /\ row.note = T[i].note
  BY <1>1 DEF JobRow
<1>4. row.worker \in Worker /\ row.note # "superseded"
  BY <1>1, <1>3 DEF Sound, Table
<1>5. Good(T, [T EXCEPT ![i] = row])
  BY <1>1, <1>3, <1>4, InPlaceGood
<1> QED
  BY <1>2, <1>5
-----------------------------------------------------------------------------
(* One step of the system: the table moves from a sound one to a sound     *)
(* one, and the hands stay well formed.                                    *)
Hands ==
    /\ hand \in [Worker -> [pc : {"idle", "working", "void"}, job : JobId \cup {0}]]
    /\ \A w \in Worker :
         IF hand[w].pc = "idle" THEN hand[w].job = 0
         ELSE hand[w].job \in JobId /\ job[hand[w].job].status \notin {"absent", "QUEUED"}

LEMMA IInvParts == IInv <=> Sound(job) /\ Hands /\ faults \in 0 .. MaxFaults
  BY DEF IInv, TypeOK, OneActivePerType, NoGaps, ActiveNotSuperseded, Sound, Table, Hands

LEMMA InitIInv == Init => IInv
<1> SUFFICES ASSUME Init PROVE Sound(job) /\ Hands /\ faults \in 0 .. MaxFaults
  BY IInvParts
<1>1. Sound(job)
  BY DEF Init, Sound, Table, NoJob, IsActive
<1>2. Hands
  BY DEF Init, Hands, Idle
<1> QED
  BY <1>1, <1>2, MaxFaultsAssumption DEF Init

(* If the table changes well and the hands do not, the hands stay good.    *)
LEMMA HandsKept ==
  ASSUME Hands, Kept(job, job'), hand' = hand
  PROVE  Hands'
  BY DEF Hands, Kept

(* A worker that lets go of its job leaves good hands behind.              *)
LEMMA HandsReleased ==
  ASSUME Hands, Kept(job, job'), NEW w \in Worker, hand' = [hand EXCEPT ![w] = Idle]
  PROVE  Hands'
  BY DEF Hands, Kept, Idle

(* Every step of the queue is good for the table.                          *)
LEMMA StepGood ==
  ASSUME IInv, Next
  PROVE  Good(job, job') /\ Hands' /\ (faults \in 0 .. MaxFaults)'
<1>0. Sound(job) /\ Hands /\ faults \in 0 .. MaxFaults
  BY IInvParts
<1>1. CASE Enqueue
  <2>1. PICK i \in JobId, t \in {"inspect", "repair"} :
             /\ NextId(job, i)
             /\ \E a \in Asset, v \in Version, k \in KeysOf(t) :
                  job' = CreateJob(job, i, NewJob(t, a, v, k, 0))
    BY <1>1 DEF Enqueue
  <2>2. PICK a \in Asset, v \in Version, k \in KeysOf(t) :
             job' = CreateJob(job, i, NewJob(t, a, v, k, 0))
    BY <2>1
  <2>3. IsNew(NewJob(t, a, v, k, 0))
    BY NewJobIsNew DEF JobType
  <2>4. Good(job, job')
    BY <1>0, <2>1, <2>2, <2>3, CreateJobGood
  <2> QED
    BY <1>0, <1>1, <2>4, HandsKept DEF Good, Enqueue
<1>2. CASE EnqueueFresh
  <2>1. PICK i \in JobId, a \in Asset, v \in Version :
             /\ NextId(job, i)
             /\ job' = EnsureJobEnqueued(job, i, NewJob("inspect", a, v, NoKey, 0))
    BY <1>2 DEF EnqueueFresh
  <2>2. IsNew(NewJob("inspect", a, v, NoKey, 0))
    <3>1. NoKey \in KeysOf("inspect") /\ "inspect" \in JobType
      BY DEF KeysOf, JobType
    <3> QED
      BY <3>1, NewJobIsNew
  <2>3. Good(job, job')
    BY <1>0, <2>1, <2>2, EnsureJobEnqueuedGood
  <2> QED
    BY <1>0, <1>2, <2>3, HandsKept DEF Good, EnqueueFresh
<1>3. ASSUME NEW w \in Worker, Claim(w)
      PROVE  Good(job, job') /\ Hands' /\ (faults \in 0 .. MaxFaults)'
  <2>1. PICK i \in JobId : /\ IsNextToClaim(job, i)
                          /\ job'  = Claimed(job, i, w)
                          /\ hand' = [hand EXCEPT ![w] = [pc |-> "working", job |-> i]]
    BY <1>3 DEF Claim
  <2>2. Good(job, job') /\ job'[i].status = "RUNNING"
    BY <1>0, <2>1, ClaimedGood
  <2>3. Hands'
    BY <1>0, <2>1, <2>2 DEF Hands, Good, Kept
  <2> QED
    BY <1>0, <1>3, <2>2, <2>3 DEF Claim
<1>4. ASSUME NEW w \in Worker, Commit(w)
      PROVE  Good(job, job') /\ Hands' /\ (faults \in 0 .. MaxFaults)'
  <2>1. hand[w].job \in JobId /\ IsActive(job[hand[w].job])
    BY <1>0, <1>4 DEF Commit, Hands, HoldsLease, IsActive
  <2>2. Good(job, job')
    BY <1>0, <1>4, <2>1, SucceededGood DEF Commit
  <2> QED
    BY <1>0, <1>4, <2>2, HandsReleased DEF Commit, Good
<1>5. ASSUME NEW w \in Worker, CommitAndContinue(w)
      PROVE  Good(job, job') /\ Hands' /\ (faults \in 0 .. MaxFaults)'
  <2> DEFINE j == hand[w].job
             S == Succeeded(job, j)
  <2>1. j \in JobId /\ IsActive(job[j])
    BY <1>0, <1>5 DEF CommitAndContinue, Hands, HoldsLease, IsActive
  <2>2. /\ Good(job, S) /\ S[j].status = "SUCCEEDED" /\ S[j].note = job[j].note
        /\ job[j] \in JobRow
        /\ \A k \in JobId : k # j => S[k] = job[k]
    BY <1>0, <2>1, SucceededGood
  <2>3. PICK i \in JobId, t \in FollowUp[job[j].type] :
             /\ NextId(job, i)
             /\ \E a \in Asset, v \in Version, k \in KeysOf(t) :
                  job' = EnsureJobEnqueued(S, i,
                           NewJob(t, a, v, k, IF t = "agent_decide" THEN j ELSE 0))
    BY <1>5 DEF CommitAndContinue
  <2>4. PICK a \in Asset, v \in Version, k \in KeysOf(t) :
             job' = EnsureJobEnqueued(S, i,
                      NewJob(t, a, v, k, IF t = "agent_decide" THEN j ELSE 0))
    BY <2>3
  <2>5. t \in JobType
    BY <2>2, <2>3 DEF FollowUp, JobType, JobRow
  <2>6. IsNew(NewJob(t, a, v, k, IF t = "agent_decide" THEN j ELSE 0))
    BY <2>1, <2>5, NewJobIsNew
  <2>7. NextId(S, i)
    BY <1>0, <2>1, <2>2, <2>3 DEF NextId, NextRow, Sound, Table, IsActive, NoJob, Good
  <2>8. Good(S, job')
    BY <2>2, <2>4, <2>6, <2>7, EnsureJobEnqueuedGood DEF Good
  <2>9. Good(job, job')
    <3>1. Sound(job') /\ Kept(job, job')
      BY <2>2, <2>8 DEF Good, Kept
    <3>2. Final(job, job')
      <4> SUFFICES ASSUME NEW m \in JobId, IsTerminal(job[m]) PROVE job'[m] = job[m]
        BY DEF Final
      <4>1. m # j
        BY <2>1 DEF IsActive, IsTerminal
      <4>2. S[m] = job[m]
        BY <2>2, <4>1
      <4> QED
        BY <4>2, <2>8 DEF Good, Final
    <3>3. Replaced(job, job')
      <4> SUFFICES ASSUME NEW m \in JobId, IsActive(job[m]), job'[m].note = "superseded"
                   PROVE  \E k1 \in JobId : /\ k1 > m
                                            /\ job[k1] = NoJob
                                            /\ job'[k1] # NoJob
                                            /\ job'[k1].type = job[m].type
                                            /\ job'[k1].status = "QUEUED"
        BY DEF Replaced
      <4>1. m # j
        <5> SUFFICES ASSUME m = j PROVE FALSE
          OBVIOUS
        <5>1. S[j].note = job[j].note /\ IsTerminal(S[j])
          BY <2>2 DEF IsTerminal
        <5>2. job'[j] = S[j]
          BY <2>1, <2>8, <5>1 DEF Good, Final
        <5> QED
          BY <1>0, <2>1, <5>1, <5>2 DEF Sound
      <4>2. S[m] = job[m]
        BY <2>2, <4>1
      <4>3. PICK k1 \in JobId : /\ k1 > m
                               /\ S[k1] = NoJob
                               /\ job'[k1] # NoJob
                               /\ job'[k1].type = S[m].type
                               /\ job'[k1].status = "QUEUED"
        BY <2>8, <4>2 DEF Good, Replaced
      <4>4. job[k1] = NoJob
        BY <2>2, <4>3 DEF NoJob
      <4> QED
        BY <4>2, <4>3, <4>4
    <3> QED
      BY <3>1, <3>2, <3>3 DEF Good
  <2> QED
    BY <1>0, <1>5, <2>9, HandsReleased DEF CommitAndContinue, Good
<1>6. ASSUME NEW w \in Worker, Refuse(w)
      PROVE  Good(job, job') /\ Hands' /\ (faults \in 0 .. MaxFaults)'
  <2>1. job' = job /\ faults' = faults
    BY <1>6 DEF Refuse
  <2>2. Good(job, job')
    BY <1>0, <2>1 DEF Good, Kept, Final, Replaced, Sound
  <2>3. Hands'
    BY <1>0, <1>6, <2>1 DEF Refuse, Hands
  <2> QED
    BY <1>0, <2>1, <2>2, <2>3
<1>7. ASSUME NEW w \in Worker, FailWork(w)
      PROVE  Good(job, job') /\ Hands' /\ (faults \in 0 .. MaxFaults)'
  <2>1. hand[w].job \in JobId
    BY <1>0, <1>7 DEF FailWork, Hands
  <2>2. Good(job, job')
    BY <1>0, <1>7, <2>1, FailJobGood DEF FailWork
  <2> QED
    BY <1>0, <1>7, <2>2, HandsReleased DEF FailWork, Good
<1>8. ASSUME NEW w \in Worker, Lose(w)
      PROVE  Good(job, job') /\ Hands' /\ (faults \in 0 .. MaxFaults)'
  <2>1. job' = job
    BY <1>8 DEF Lose
  <2>2. Good(job, job')
    BY <1>0, <2>1 DEF Good, Kept, Final, Replaced, Sound
  <2>3. Hands'
    BY <1>0, <1>8, <2>2, HandsReleased DEF Lose, Good
  <2> QED
    BY <1>0, <1>8, <2>2, <2>3, MaxFaultsAssumption DEF Lose
<1>9. ASSUME NEW i \in JobId, LeaseRunsOut(i)
      PROVE  Good(job, job') /\ Hands' /\ (faults \in 0 .. MaxFaults)'
  <2>1. Good(job, job')
    BY <1>0, <1>9, LeaseExpiredGood DEF LeaseRunsOut
  <2> QED
    BY <1>0, <1>9, <2>1, HandsKept DEF LeaseRunsOut, Good
<1>10. ASSUME NEW i \in JobId, OutrunLease(i)
       PROVE  Good(job, job') /\ Hands' /\ (faults \in 0 .. MaxFaults)'
  <2>1. Good(job, job')
    BY <1>0, <1>10, LeaseExpiredGood DEF OutrunLease
  <2> QED
    BY <1>0, <1>10, <2>1, HandsKept, MaxFaultsAssumption DEF OutrunLease, Good
<1> QED
  BY <1>1, <1>2, <1>3, <1>4, <1>5, <1>6, <1>7, <1>8, <1>9, <1>10 DEF Next, Finish
-----------------------------------------------------------------------------
THEOREM Invariance == Spec => []IInv
<1>1. Init => IInv
  BY InitIInv
<1>2. IInv /\ [Next]_vars => IInv'
  <2> SUFFICES ASSUME IInv, [Next]_vars PROVE IInv'
    OBVIOUS
  <2>1. CASE Next
    <3>1. Sound(job') /\ Hands' /\ (faults \in 0 .. MaxFaults)'
      BY <2>1, StepGood DEF Good
    <3> QED
      BY <3>1 DEF IInv, TypeOK, OneActivePerType, NoGaps, ActiveNotSuperseded, Sound, Table, Hands
  <2>2. CASE UNCHANGED vars
    BY <2>2 DEF vars, IInv, TypeOK, OneActivePerType, NoGaps, ActiveNotSuperseded
  <2> QED
    BY <2>1, <2>2
<1> QED
  BY <1>1, <1>2, PTL DEF Spec

(* Rows and hands are always well formed. *)
THEOREM TypeCorrect == Spec => []TypeOK
<1>1. IInv => TypeOK
  BY DEF IInv
<1> QED
  BY <1>1, Invariance, PTL

(* However customers and workers race, and however many workers there are, *)
(* no job type ever has two QUEUED or RUNNING jobs.                        *)
THEOREM ActiveIsUnique == Spec => []OneActivePerType
<1>1. IInv => OneActivePerType
  BY DEF IInv
<1> QED
  BY <1>1, Invariance, PTL

(* Late completions, late FailJobs and reclaims leave finished jobs alone. *)
THEOREM Finality == Spec => TerminalIsFinal
<1>1. IInv /\ [Next]_vars => [\A i \in JobId : IsTerminal(job[i]) => job'[i] = job[i]]_vars
  BY StepGood DEF Good, Final
<1> QED
  BY <1>1, Invariance, PTL DEF Spec, TerminalIsFinal

(* A continuation supersedes the job it replaces and is never dropped.     *)
THEOREM Replacement == Spec => SupersededIsReplaced
<1>1. IInv /\ [Next]_vars =>
        [\A i \in JobId :
           (IsActive(job[i]) /\ job'[i].note = "superseded")
             => \E k \in JobId : /\ k > i
                                 /\ job[k] = NoJob
                                 /\ job'[k] # NoJob
                                 /\ job'[k].type = job[i].type
                                 /\ job'[k].status = "QUEUED"]_vars
  BY StepGood DEF Good, Replaced
<1> QED
  BY <1>1, Invariance, PTL DEF Spec, SupersededIsReplaced
-----------------------------------------------------------------------------
(* Only a Complete* transaction makes a job SUCCEEDED: none of the other   *)
(* statements on the table does.                                           *)
NoSuccess(T, U) == \A i \in JobId : U[i].status = "SUCCEEDED" => T[i].status = "SUCCEEDED"

LEMMA EnqueueNoSuccess ==
  ASSUME NEW T, Sound(T), NEW i \in JobId, NEW row, IsNew(row)
  PROVE  NoSuccess(T, CreateJob(T, i, row)) /\ NoSuccess(T, EnsureJobEnqueued(T, i, row))
<1>1. DOMAIN T = JobId
  BY DEF Sound, Table
<1>2. NoSuccess(T, CreateJob(T, i, row))
  BY <1>1 DEF NoSuccess, CreateJob, IsNew
<1>3. NoSuccess(T, EnsureJobEnqueued(T, i, row))
  <2> SUFFICES ASSUME NEW k \in JobId, EnsureJobEnqueued(T, i, row)[k].status = "SUCCEEDED",
                      ~AlreadyEnqueued(T, row), k # i, k \in ActiveJobs(T, row.type)
               PROVE  FALSE
    BY <1>1 DEF NoSuccess, EnsureJobEnqueued, IsNew
  <2>1. EnsureJobEnqueued(T, i, row)[k] = [T[k] EXCEPT !.status = "FAILED", !.note = "superseded"]
    BY <1>1 DEF EnsureJobEnqueued
  <2>2. T[k] \in JobRow
    BY RowFacts DEF ActiveJobs, Sound
  <2> QED
    BY <2>1, <2>2 DEF JobRow
<1> QED
  BY <1>2, <1>3

LEMMA WorkNoSuccess ==
  ASSUME NEW T, Sound(T), NEW i \in JobId, NEW w
  PROVE  /\ IsNextToClaim(T, i) => NoSuccess(T, Claimed(T, i, w))
         /\ NoSuccess(T, FailJob(T, i, w, "failed"))
         /\ NoSuccess(T, LeaseExpired(T, i))
<1>1. DOMAIN T = JobId /\ (T[i] \in JobRow \/ T[i] = NoJob)
  BY DEF Sound, Table
<1>2. IsNextToClaim(T, i) => NoSuccess(T, Claimed(T, i, w))
  BY <1>1 DEF NoSuccess, Claimed, IsNextToClaim, Claimable, JobRow, NoJob
<1>3. NoSuccess(T, FailJob(T, i, w, "failed"))
  BY <1>1 DEF NoSuccess, FailJob, JobRow, NoJob
<1>4. NoSuccess(T, LeaseExpired(T, i))
  BY <1>1 DEF NoSuccess, LeaseExpired, JobRow, NoJob
<1> QED
  BY <1>2, <1>3, <1>4

(* A worker whose lease was reclaimed, superseded or has expired commits   *)
(* nothing: any number of workers, any number of faults.                   *)
HolderCommits ==
    \A i \in JobId :
      (job[i].status = "RUNNING" /\ job'[i].status = "SUCCEEDED")
        => /\ job[i].live
           /\ \E w \in Worker : /\ hand[w] = [pc |-> "working", job |-> i]
                                /\ hand'[w] = Idle
                                /\ job[i].worker = w

THEOREM LeaseProtects == Spec => OnlyHolderCommits
<1>1. ASSUME IInv, Next PROVE HolderCommits
  <2>0. Sound(job) /\ Hands
    BY <1>1, IInvParts
  <2>1. NoSuccess(job, job') => HolderCommits
    BY DEF NoSuccess, HolderCommits
  <2>2. CASE Enqueue
    <3>1. PICK i \in JobId, t \in {"inspect", "repair"} :
               \E a \in Asset, v \in Version, k \in KeysOf(t) :
                  job' = CreateJob(job, i, NewJob(t, a, v, k, 0))
      BY <2>2 DEF Enqueue
    <3>2. PICK a \in Asset, v \in Version, k \in KeysOf(t) :
               job' = CreateJob(job, i, NewJob(t, a, v, k, 0))
      BY <3>1
    <3>3. IsNew(NewJob(t, a, v, k, 0))
      BY NewJobIsNew DEF JobType
    <3> QED
      BY <2>0, <2>1, <3>2, <3>3, EnqueueNoSuccess
  <2>3. CASE EnqueueFresh
    <3>1. PICK i \in JobId, a \in Asset, v \in Version :
               job' = EnsureJobEnqueued(job, i, NewJob("inspect", a, v, NoKey, 0))
      BY <2>3 DEF EnqueueFresh
    <3>2. NoKey \in KeysOf("inspect") /\ "inspect" \in JobType
      BY DEF KeysOf, JobType
    <3>3. IsNew(NewJob("inspect", a, v, NoKey, 0))
      BY <3>2, NewJobIsNew
    <3> QED
      BY <2>0, <2>1, <3>1, <3>3, EnqueueNoSuccess
  <2>4. ASSUME NEW w \in Worker, Claim(w) PROVE HolderCommits
    BY <2>0, <2>1, <2>4, WorkNoSuccess DEF Claim
  <2>5. ASSUME NEW w \in Worker, Commit(w) \/ CommitAndContinue(w) PROVE HolderCommits
    <3> DEFINE j == hand[w].job
               S == Succeeded(job, j)
    <3>1. /\ hand[w].pc = "working" /\ HoldsLease(job, j, w)
          /\ hand' = [hand EXCEPT ![w] = Idle]
      BY <2>5 DEF Commit, CommitAndContinue
    <3>2. j \in JobId /\ IsActive(job[j])
      BY <2>0, <3>1 DEF Hands, HoldsLease, IsActive
    <3>3. NoSuccess(S, job')
      <4>1. CASE Commit(w)
        BY <4>1 DEF Commit, NoSuccess
      <4>2. CASE CommitAndContinue(w)
        <5>1. PICK i \in JobId, t \in FollowUp[job[j].type] :
                   \E a \in Asset, v \in Version, k \in KeysOf(t) :
                      job' = EnsureJobEnqueued(S, i,
                               NewJob(t, a, v, k, IF t = "agent_decide" THEN j ELSE 0))
          BY <4>2 DEF CommitAndContinue
        <5>2. PICK a \in Asset, v \in Version, k \in KeysOf(t) :
                   job' = EnsureJobEnqueued(S, i,
                            NewJob(t, a, v, k, IF t = "agent_decide" THEN j ELSE 0))
          BY <5>1
        <5>3. job[j] \in JobRow /\ Sound(S)
          BY <2>0, <3>2, SucceededGood DEF Good
        <5>4. t \in JobType
          BY <5>1, <5>3 DEF FollowUp, JobType, JobRow
        <5>5. IsNew(NewJob(t, a, v, k, IF t = "agent_decide" THEN j ELSE 0))
          BY <3>2, <5>4, NewJobIsNew
        <5> QED
          BY <5>2, <5>3, <5>5, EnqueueNoSuccess
      <4> QED
        BY <2>5, <4>1, <4>2
    <3>4. \A k \in JobId : k # j => S[k] = job[k]
      BY <2>0, <3>2, SucceededGood
    <3>5. hand[w] = [pc |-> "working", job |-> j] /\ hand'[w] = Idle
      BY <2>0, <3>1 DEF Hands
    <3> QED
      BY <3>1, <3>3, <3>4, <3>5 DEF NoSuccess, HolderCommits, HoldsLease
  <2>6. ASSUME NEW w \in Worker, Refuse(w) \/ Lose(w) PROVE HolderCommits
    BY <2>1, <2>6 DEF Refuse, Lose, NoSuccess
  <2>7. ASSUME NEW w \in Worker, FailWork(w) PROVE HolderCommits
    <3>1. hand[w].job \in JobId
      BY <2>0, <2>7 DEF FailWork, Hands
    <3> QED
      BY <2>0, <2>1, <2>7, <3>1, WorkNoSuccess DEF FailWork
  <2>8. ASSUME NEW i \in JobId, LeaseRunsOut(i) \/ OutrunLease(i) PROVE HolderCommits
    BY <2>0, <2>1, <2>8, WorkNoSuccess DEF LeaseRunsOut, OutrunLease
  <2> QED
    BY <1>1, <2>2, <2>3, <2>4, <2>5, <2>6, <2>7, <2>8 DEF Next, Finish
<1>2. IInv /\ [Next]_vars => [HolderCommits]_vars
  BY <1>1
<1> QED
  BY <1>2, Invariance, PTL DEF Spec, OnlyHolderCommits, HolderCommits
=============================================================================

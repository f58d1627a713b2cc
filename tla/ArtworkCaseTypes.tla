-------------------------- MODULE ArtworkCaseTypes --------------------------
(***************************************************************************)
(* Type correctness of the case, for any workers, sessions, keys, artworks *)
(* and any bounds, and what every later proof about the case needs: what   *)
(* the operators of Jobs do to a table of well-formed rows, and what a     *)
(* step may do to the rows of each table.  With the types alone it is also *)
(* shown that case_version stamps every change and that the case           *)
(* implements the job queue.                                               *)
(***************************************************************************)
EXTENDS ArtworkCaseQueue, FiniteSetTheorems, TLAPS

Tables == [JobId -> JobRow \cup {NoJob}]

(* The columns no statement updates. *)
SameJob(r, s) ==
    /\ s.type = r.type /\ s.asset = r.asset /\ s.cv = r.cv
    /\ s.key = r.key /\ s.src = r.src

IsNew(row) == row \in JobRow /\ row.status = "QUEUED" /\ row.note = "none"

Superseded(r) == [r EXCEPT !.status = "FAILED", !.note = "superseded"]

(* What a step may do to a table: insert rows, and move active ones on. *)
JobsStep(T, U) ==
    /\ U \in Tables
    /\ \A k \in JobId :
         \/ U[k] = T[k]
         \/ T[k] = NoJob /\ IsNew(U[k])
         \/ /\ T[k] \in JobRow /\ IsActive(T[k]) /\ U[k] \in JobRow
            /\ SameJob(T[k], U[k]) /\ U[k].status # "QUEUED"
-----------------------------------------------------------------------------
LEMMA RowFacts ==
  ASSUME NEW T \in Tables, NEW k \in JobId
  PROVE  /\ T[k] # NoJob => T[k] \in JobRow
         /\ T[k].status \in {"QUEUED", "RUNNING", "SUCCEEDED", "FAILED"} => T[k] \in JobRow
         /\ T[k].status = "absent" <=> T[k] = NoJob
         /\ T[k] \in JobRow => T[k] # NoJob
  BY DEF Tables, JobRow, NoJob

LEMMA NewJobIsNew ==
  ASSUME NEW t \in JobType, NEW a \in AssetId, NEW v \in Nat \ {0},
         NEW k \in Keys \cup {NoKey}, NEW s \in JobId \cup {None}
  PROVE  /\ IsNew(NewJob(t, a, v, k, s))
         /\ NewJob(t, a, v, k, s).type = t
         /\ NewJob(t, a, v, k, s).asset = a
         /\ NewJob(t, a, v, k, s).cv = v
         /\ NewJob(t, a, v, k, s).key = k
         /\ NewJob(t, a, v, k, s).src = s
  BY DEF NewJob, JobRow, IsNew

LEMMA SupersededRow ==
  ASSUME NEW r \in JobRow
  PROVE  /\ Superseded(r) \in JobRow /\ SameJob(r, Superseded(r))
         /\ Superseded(r).status = "FAILED" /\ Superseded(r).note = "superseded"
  BY DEF Superseded, JobRow, SameJob

(* CreateJob inserts its row or nothing. *)
LEMMA CreateJobDoes ==
  ASSUME NEW T \in Tables, NEW i \in JobId, NextId(T, i), NEW row, IsNew(row)
  PROVE  /\ JobsStep(T, CreateJob(T, i, row))
         /\ \A k \in JobId : \/ CreateJob(T, i, row)[k] = T[k]
                             \/ T[k] = NoJob /\ CreateJob(T, i, row)[k] = row
<1>1. DOMAIN T = JobId /\ T[i] = NoJob
  BY DEF Tables, NextId, NextRow
<1>2. CASE ActiveJobs(T, row.type) = {}
  <2>1. CreateJob(T, i, row) = [T EXCEPT ![i] = row]
    BY <1>2 DEF CreateJob
  <2>2. [T EXCEPT ![i] = row] \in Tables
    BY DEF Tables, IsNew
  <2> QED
    BY <1>1, <2>1, <2>2 DEF JobsStep
<1>3. CASE ActiveJobs(T, row.type) # {}
  BY <1>3 DEF CreateJob, JobsStep
<1> QED
  BY <1>2, <1>3

(* ensureJobEnqueued leaves everything as it is because the row is there   *)
(* already, or it inserts the row and supersedes the active one.           *)
LEMMA EnsureJobEnqueuedDoes ==
  ASSUME NEW T \in Tables, NEW i \in JobId, NextId(T, i), NEW row, IsNew(row)
  PROVE  /\ JobsStep(T, EnsureJobEnqueued(T, i, row))
         /\ \/ EnsureJobEnqueued(T, i, row) = T /\ AlreadyEnqueued(T, row)
            \/ /\ T[i] = NoJob /\ EnsureJobEnqueued(T, i, row)[i] = row
               /\ \A k \in JobId \ {i} :
                    \/ EnsureJobEnqueued(T, i, row)[k] = T[k]
                    \/ /\ T[k] \in JobRow /\ IsActive(T[k]) /\ T[k].type = row.type
                       /\ EnsureJobEnqueued(T, i, row)[k] = Superseded(T[k])
<1> DEFINE U == EnsureJobEnqueued(T, i, row)
<1>1. DOMAIN T = JobId /\ T[i] = NoJob
  BY DEF Tables, NextId, NextRow
<1>2. CASE AlreadyEnqueued(T, row)
  BY <1>2 DEF EnsureJobEnqueued, JobsStep
<1>3. CASE ~AlreadyEnqueued(T, row)
  <2>1. U = [k \in JobId |-> IF k = i THEN row
                             ELSE IF IsActive(T[k]) /\ T[k].type = row.type
                                  THEN Superseded(T[k]) ELSE T[k]]
    BY <1>1, <1>3 DEF EnsureJobEnqueued, ActiveJobs, Superseded
  <2>2. U[i] = row
    BY <2>1
  <2>3. ASSUME NEW k \in JobId \ {i}
        PROVE  \/ U[k] = T[k]
               \/ /\ T[k] \in JobRow /\ IsActive(T[k]) /\ T[k].type = row.type
                  /\ U[k] = Superseded(T[k])
    BY <2>1, RowFacts DEF IsActive
  <2>4. \A k \in JobId : U[k] \in JobRow \cup {NoJob}
    BY <2>2, <2>3, SupersededRow DEF Tables, IsNew
  <2>5. U \in Tables
    BY <2>1, <2>4 DEF Tables
  <2>6. JobsStep(T, U)
    BY <1>1, <2>2, <2>3, <2>5, SupersededRow DEF JobsStep
  <2> QED
    BY <1>1, <2>2, <2>3, <2>6
<1> QED
  BY <1>2, <1>3

(* A statement that updates one active row. *)
LEMMA UpdateDoes ==
  ASSUME NEW T \in Tables, NEW i \in JobId, T[i] \in JobRow, IsActive(T[i]),
         NEW row \in JobRow, SameJob(T[i], row), row.status # "QUEUED"
  PROVE  /\ JobsStep(T, [T EXCEPT ![i] = row])
         /\ [T EXCEPT ![i] = row][i] = row
         /\ \A k \in JobId \ {i} : [T EXCEPT ![i] = row][k] = T[k]
  BY DEF Tables, JobsStep

LEMMA ClaimedDoes ==
  ASSUME NEW T \in Tables, NEW i \in JobId, IsNextToClaim(T, i), NEW w \in Worker
  PROVE  /\ JobsStep(T, Claimed(T, i, w))
         /\ Claimed(T, i, w)[i] = [T[i] EXCEPT !.status = "RUNNING", !.worker = w, !.live = TRUE]
         /\ Claimed(T, i, w)[i].status = "RUNNING" /\ T[i] # NoJob
         /\ Claimed(T, i, w)[i].type = T[i].type
         /\ Claimed(T, i, w)[i].note = T[i].note
         /\ \A k \in JobId \ {i} : Claimed(T, i, w)[k] = T[k]
<1> DEFINE row == [T[i] EXCEPT !.status = "RUNNING", !.worker = w, !.live = TRUE]
<1>1. T[i] \in JobRow /\ IsActive(T[i])
  BY RowFacts DEF IsNextToClaim, Claimable, IsActive
<1>2. /\ row \in JobRow /\ SameJob(T[i], row) /\ row.status = "RUNNING"
      /\ row.note = T[i].note
  BY <1>1 DEF JobRow, SameJob
<1>3. Claimed(T, i, w) = [T EXCEPT ![i] = row]
  BY DEF Claimed, Tables
<1> HIDE DEF row
<1>4. /\ JobsStep(T, [T EXCEPT ![i] = row])
      /\ [T EXCEPT ![i] = row][i] = row
      /\ \A k \in JobId \ {i} : [T EXCEPT ![i] = row][k] = T[k]
  BY <1>1, <1>2, UpdateDoes
<1> QED
  BY <1>1, <1>2, <1>3, <1>4, RowFacts DEF SameJob, row

LEMMA SucceededDoes ==
  ASSUME NEW T \in Tables, NEW i \in JobId, T[i].status = "RUNNING"
  PROVE  /\ JobsStep(T, Succeeded(T, i))
         /\ Succeeded(T, i)[i] = [T[i] EXCEPT !.status = "SUCCEEDED"]
         /\ Succeeded(T, i)[i].status = "SUCCEEDED"
         /\ T[i] \in JobRow /\ Succeeded(T, i)[i] \in JobRow
         /\ SameJob(T[i], Succeeded(T, i)[i])
         /\ \A k \in JobId \ {i} : Succeeded(T, i)[k] = T[k]
<1> DEFINE row == [T[i] EXCEPT !.status = "SUCCEEDED"]
<1>1. T[i] \in JobRow /\ IsActive(T[i])
  BY RowFacts DEF IsActive
<1>2. row \in JobRow /\ SameJob(T[i], row) /\ row.status = "SUCCEEDED"
  BY <1>1 DEF JobRow, SameJob
<1>3. Succeeded(T, i) = [T EXCEPT ![i] = row]
  BY DEF Succeeded, Tables
<1> HIDE DEF row
<1>4. /\ JobsStep(T, [T EXCEPT ![i] = row])
      /\ [T EXCEPT ![i] = row][i] = row
      /\ \A k \in JobId \ {i} : [T EXCEPT ![i] = row][k] = T[k]
  BY <1>1, <1>2, UpdateDoes
<1> QED
  BY <1>1, <1>2, <1>3, <1>4 DEF row

(* A failed row says so in its note. *)
LEMMA FailJobDoes ==
  ASSUME NEW T \in Tables, NEW i \in JobId, NEW w
  PROVE  /\ JobsStep(T, FailJob(T, i, w, "failed"))
         /\ \A k \in JobId :
              \/ FailJob(T, i, w, "failed")[k] = T[k]
              \/ /\ FailJob(T, i, w, "failed")[k] \in JobRow
                 /\ FailJob(T, i, w, "failed")[k].note = "failed"
                 /\ FailJob(T, i, w, "failed")[k].status = "FAILED"
<1> DEFINE row == [T[i] EXCEPT !.status = "FAILED", !.note = "failed"]
<1>1. CASE T[i].worker = w /\ T[i].status = "RUNNING"
  <2>1. T[i] \in JobRow /\ IsActive(T[i])
    BY <1>1, RowFacts DEF IsActive
  <2>2. /\ row \in JobRow /\ SameJob(T[i], row)
        /\ row.status = "FAILED" /\ row.note = "failed"
    BY <2>1 DEF JobRow, SameJob
  <2>3. FailJob(T, i, w, "failed") = [T EXCEPT ![i] = row]
    BY <1>1 DEF FailJob, Tables
  <2> HIDE DEF row
  <2>4. /\ JobsStep(T, [T EXCEPT ![i] = row])
        /\ [T EXCEPT ![i] = row][i] = row
        /\ \A k \in JobId \ {i} : [T EXCEPT ![i] = row][k] = T[k]
    BY <2>1, <2>2, UpdateDoes
  <2> QED
    BY <2>2, <2>3, <2>4
<1>2. CASE ~(T[i].worker = w /\ T[i].status = "RUNNING")
  BY <1>2 DEF FailJob, JobsStep
<1> QED
  BY <1>1, <1>2

LEMMA LeaseExpiredDoes ==
  ASSUME NEW T \in Tables, NEW i \in JobId, T[i].status = "RUNNING"
  PROVE  /\ JobsStep(T, LeaseExpired(T, i))
         /\ LeaseExpired(T, i)[i].status = "RUNNING"
         /\ \A k \in JobId \ {i} : LeaseExpired(T, i)[k] = T[k]
<1> DEFINE row == [T[i] EXCEPT !.live = FALSE]
<1>1. T[i] \in JobRow /\ IsActive(T[i])
  BY RowFacts DEF IsActive
<1>2. row \in JobRow /\ SameJob(T[i], row) /\ row.status = "RUNNING"
  BY <1>1 DEF JobRow, SameJob
<1>3. LeaseExpired(T, i) = [T EXCEPT ![i] = row]
  BY DEF LeaseExpired, Tables
<1> HIDE DEF row
<1>4. /\ JobsStep(T, [T EXCEPT ![i] = row])
      /\ [T EXCEPT ![i] = row][i] = row
      /\ \A k \in JobId \ {i} : [T EXCEPT ![i] = row][k] = T[k]
  BY <1>1, <1>2, UpdateDoes
<1> QED
  BY <1>2, <1>3, <1>4

(* Two statements of one transaction. *)
LEMMA StepsCompose ==
  ASSUME NEW T, NEW U, NEW V, JobsStep(T, U), JobsStep(U, V),
         \A k \in JobId : T[k] = NoJob => U[k] = NoJob
  PROVE  JobsStep(T, V)
  BY DEF JobsStep, SameJob, IsNew, JobRow, NoJob

(* The job SUCCEEDED and its follow-up in one transaction. *)
LEMMA ContinueDoes ==
  ASSUME NEW w \in Worker, job \in Tables, worker[w].job \in JobId,
         job[worker[w].job].status = "RUNNING",
         NEW row, IsNew(row), Continue(w, row)
  PROVE  /\ JobsStep(job, job')
         /\ job'[worker[w].job].status = "SUCCEEDED"
         /\ job'[worker[w].job].note = job[worker[w].job].note
         /\ \A k \in JobId \ {worker[w].job} :
              \/ job'[k] = job[k]
              \/ job[k] = NoJob /\ job'[k] = row
              \/ IsActive(job[k]) /\ job[k].type = row.type /\ job'[k] = Superseded(job[k])
         /\ \E k \in JobId \ {worker[w].job} :
              /\ job'[k] \in JobRow /\ IsActive(job'[k]) /\ job'[k].type = row.type
              /\ job'[k].asset = row.asset /\ job'[k].cv = row.cv
              /\ job'[k] = row \/ job'[k] = job[k]
<1> DEFINE j == worker[w].job
           S == Succeeded(job, j)
<1> HIDE DEF j, S
<1>1. /\ JobsStep(job, S) /\ S[j].status = "SUCCEEDED" /\ S[j].note = job[j].note
      /\ job[j] \in JobRow /\ S[j] \in JobRow /\ \A k \in JobId \ {j} : S[k] = job[k]
  <2>1. j \in JobId /\ job[j].status = "RUNNING"
    BY DEF j
  <2>2. /\ JobsStep(job, S) /\ S[j] = [job[j] EXCEPT !.status = "SUCCEEDED"]
        /\ S[j].status = "SUCCEEDED"
        /\ job[j] \in JobRow /\ S[j] \in JobRow /\ \A k \in JobId \ {j} : S[k] = job[k]
    BY <2>1, SucceededDoes DEF S
  <2>3. S[j].note = job[j].note
    BY <2>2 DEF JobRow
  <2> QED
    BY <2>2, <2>3
<1>2. S \in Tables /\ DOMAIN S = JobId /\ DOMAIN job = JobId
  BY <1>1 DEF JobsStep, Tables
<1>3. PICK i \in JobId : NextId(job, i) /\ job' = EnsureJobEnqueued(S, i, row)
  BY DEF Continue, Done, j, S
<1>4. i # j /\ job[i] = NoJob
  BY <1>1, <1>3, RowFacts DEF NextId, NextRow, j
<1>5. NextId(S, i)
  BY <1>1, <1>2, <1>3, <1>4, RowFacts DEF NextId, NextRow, j
<1>6. /\ JobsStep(S, job')
      /\ \/ job' = S /\ AlreadyEnqueued(S, row)
         \/ /\ S[i] = NoJob /\ job'[i] = row
            /\ \A k \in JobId \ {i} :
                 \/ job'[k] = S[k]
                 \/ /\ S[k] \in JobRow /\ IsActive(S[k]) /\ S[k].type = row.type
                    /\ job'[k] = Superseded(S[k])
  BY <1>2, <1>3, <1>5, EnsureJobEnqueuedDoes
<1>7. \A k \in JobId : job[k] = NoJob => S[k] = NoJob
  BY <1>1, RowFacts DEF j
<1>8. JobsStep(job, job')
  BY <1>1, <1>6, <1>7, StepsCompose
<1>9. job'[j] = S[j]
  BY <1>1, <1>4, <1>6 DEF IsActive, j
<1>10. \E k \in JobId \ {j} :
          /\ job'[k] \in JobRow /\ IsActive(job'[k]) /\ job'[k].type = row.type
          /\ job'[k].asset = row.asset /\ job'[k].cv = row.cv
          /\ job'[k] = row \/ job'[k] = job[k]
  <2>1. CASE job' = S /\ AlreadyEnqueued(S, row)
    <3>1. PICK k \in JobId : /\ IsActive(S[k]) /\ S[k].type = row.type
                             /\ S[k].asset = row.asset /\ S[k].cv = row.cv
      BY <2>1, <1>2 DEF AlreadyEnqueued, ActiveJobs
    <3>2. k # j /\ S[k] \in JobRow
      BY <3>1, <1>1, <1>2, RowFacts DEF IsActive
    <3> QED
      BY <3>1, <3>2, <2>1, <1>1
  <2>2. CASE job'[i] = row
    BY <2>2, <1>4 DEF IsNew, IsActive
  <2> QED
    BY <1>6, <2>1, <2>2
<1>11. \A k \in JobId \ {j} :
          \/ job'[k] = job[k]
          \/ job[k] = NoJob /\ job'[k] = row
          \/ IsActive(job[k]) /\ job[k].type = row.type /\ job'[k] = Superseded(job[k])
  BY <1>1, <1>4, <1>6
<1> QED
  BY <1>1, <1>8, <1>9, <1>10, <1>11 DEF j
-----------------------------------------------------------------------------
(* TypeOK in parts, each with what it needs to be inductive: what a        *)
(* session holds is well formed, a decision is about an agent_decide job,  *)
(* no row is bound to a case_version that has yet to come, and there is a  *)
(* current asset as soon as there is any.                                  *)

Assets  == [AssetId -> AssetRow \cup {NoAsset}]
Clars   == [ClarId -> [state : {"open", "answered", "invalidated"}, av : Nat \ {0},
                       about : AssetId] \cup {NoClar}]
Repairs == [key : Keys, status : {"REPAIRED", "REJECTED"}, job : JobId,
            from : AssetId, derived : AssetId \cup {None}]
Proofs  == [of : AssetId, av : Nat \ {0}, cv : Nat \ {0}]

Counters == requests \in 0 .. MaxRequests /\ faults \in 0 .. MaxFaults

AssetsOK ==
    /\ asset \in Assets
    /\ order.cur # None => asset[order.cur] # NoAsset
    /\ \A a \in AssetId : asset[a] # NoAsset => order.cur # None

JobFits(r, o, A) ==
    /\ A[r.asset] # NoAsset
    /\ r.type = "repair" => r.key # NoKey
    /\ r.cv <= o.cv
JobsOK == job \in Tables /\ \A j \in JobId : job[j] # NoJob => JobFits(job[j], order, asset)

HandFits(h, J, A) ==
    h # Idle =>
       /\ J[h.job].status \notin {"absent", "QUEUED"}
       /\ h.pc = "decided" =>
            /\ J[h.job].type = "agent_decide"
            /\ h.action = "request_repair" => h.asset \in AssetId /\ A[h.asset].kind = "original"
HandsOK == worker \in [Worker -> InMemory] /\ \A w \in Worker : HandFits(worker[w], job, asset)

ClientKeys == {"client"} \X ClientKey

SessionFits(q, o, A) ==
    /\ q.pc \in {"start", "repair insert"} => q.asset \in AssetId /\ A[q.asset] # NoAsset
    /\ q.pc \notin {"idle", "start"} => q.key \in ClientKeys
    /\ q.pc # "idle" => q.cv \in Nat \ {0} /\ q.cv <= o.cv
SessionsOK ==
    /\ client = [c \in Client |-> client[c]]
    /\ \A c \in Client : SessionFits(client[c], order, asset)

RepairsOK == repair \subseteq Repairs /\ \A r \in repair : job[r.job].status = "SUCCEEDED"

Typed ==
    /\ order \in Order
    /\ AssetsOK
    /\ JobsOK
    /\ finding \in [JobId -> Seq(Finding)]
    /\ clar \in Clars
    /\ RepairsOK
    /\ proof \subseteq Proofs
    /\ HandsOK
    /\ SessionsOK
    /\ Counters

LEMMA TypedImpliesTypeOK == Typed => TypeOK
  BY RowFacts DEF Typed, TypeOK, AssetsOK, JobsOK, JobFits, HandsOK, HandFits, RepairsOK, Counters,
     Tables, Assets, Clars, Repairs, Proofs

(* What every step does to the order, the assets and the jobs. *)
CaseStep ==
    /\ order' \in Order
    /\ order' = order \/ order'.cv = order.cv + 1
    /\ order'.intent = order.intent
    /\ AssetsOK'
    /\ \A a \in AssetId : asset[a] # NoAsset => asset'[a] = asset[a]
    /\ order' = order => asset' = asset
    /\ JobsStep(job, job')
    /\ \A j \in JobId : (job[j] = NoJob /\ job'[j] # NoJob) => JobFits(job'[j], order', asset')

LEMMA JobsKept ==
  ASSUME Typed, CaseStep
  PROVE  /\ JobsOK'
         /\ order.cv \in Nat \ {0} /\ order'.cv \in Nat \ {0} /\ order.cv <= order'.cv
         /\ \A j \in JobId : job[j].status \notin {"absent", "QUEUED"} =>
               /\ job'[j].status \notin {"absent", "QUEUED"}
               /\ SameJob(job[j], job'[j])
         /\ \A j \in JobId : job[j].status \in {"SUCCEEDED", "FAILED"} => job'[j] = job[j]
<1>1. order.cv \in Nat \ {0} /\ order'.cv \in Nat \ {0} /\ order.cv <= order'.cv
  BY DEF Typed, CaseStep, Order
<1>2. job \in Tables /\ job' \in Tables
  BY DEF Typed, JobsOK, CaseStep, JobsStep
<1>3. ASSUME NEW j \in JobId, job'[j] # NoJob
      PROVE  JobFits(job'[j], order', asset')
  <2>1. CASE job[j] = NoJob
    BY <1>3, <2>1 DEF CaseStep
  <2>2. CASE job[j] # NoJob
    <3>1. job[j] \in JobRow /\ job'[j] \in JobRow /\ SameJob(job[j], job'[j])
      BY <2>2, <1>2, RowFacts DEF CaseStep, JobsStep, SameJob
    <3>2. JobFits(job[j], order, asset)
      BY <2>2 DEF Typed, JobsOK
    <3> QED
      BY <3>1, <3>2, <1>1 DEF JobFits, SameJob, CaseStep, JobRow
  <2> QED
    BY <2>1, <2>2
<1>4. ASSUME NEW j \in JobId, job[j].status \notin {"absent", "QUEUED"}
      PROVE  /\ job'[j].status \notin {"absent", "QUEUED"}
             /\ SameJob(job[j], job'[j])
  BY <1>2, <1>4, RowFacts DEF CaseStep, JobsStep, SameJob, NoJob
<1>5. ASSUME NEW j \in JobId, job[j].status \in {"SUCCEEDED", "FAILED"}
      PROVE  job'[j] = job[j]
  BY <1>5, <1>2, RowFacts DEF CaseStep, JobsStep, IsActive
<1> QED
  BY <1>1, <1>2, <1>3, <1>4, <1>5 DEF JobsOK
-----------------------------------------------------------------------------
LEMMA HandFacts ==
  ASSUME NEW h \in InMemory
  PROVE  /\ h.pc \in {"idle", "claimed", "void", "loaded", "decided"}
         /\ h.pc = "idle" <=> h = Idle
         /\ h = Idle => h.job = None
         /\ h # Idle => h.job \in JobId
         /\ h.pc = "loaded" => h.seen \in Seen
         /\ h.pc = "decided" => /\ h.action \in {"ask_clarification", "request_repair", "escalate"}
                                /\ h.asset \in AssetId \cup {None}
  BY DEF InMemory, Idle

LEMMA HandStillFits ==
  ASSUME Typed, CaseStep, NEW h \in InMemory, HandFits(h, job, asset)
  PROVE  HandFits(h, job', asset')
<1> SUFFICES ASSUME h # Idle
             PROVE  HandFits(h, job', asset')
  BY DEF HandFits
<1>1. h.job \in JobId /\ job[h.job].status \notin {"absent", "QUEUED"}
  BY HandFacts DEF HandFits
<1>2. job'[h.job].status \notin {"absent", "QUEUED"} /\ job'[h.job].type = job[h.job].type
  BY <1>1, JobsKept DEF SameJob
<1>3. \A a \in AssetId : asset[a].kind = "original" => asset'[a] = asset[a]
  BY DEF CaseStep, NoAsset
<1> QED
  BY <1>1, <1>2, <1>3 DEF HandFits

LEMMA HandsKept ==
  ASSUME Typed, CaseStep, worker' = worker
  PROVE  HandsOK'
  BY HandStillFits DEF Typed, HandsOK

LEMMA HandTaken ==
  ASSUME Typed, CaseStep, NEW w \in Worker, NEW h \in InMemory,
         worker' = [worker EXCEPT ![w] = h], HandFits(h, job', asset')
  PROVE  HandsOK'
<1>1. worker \in [Worker -> InMemory]
  BY DEF Typed, HandsOK
<1>2. worker' \in [Worker -> InMemory] /\ worker'[w] = h
      /\ \A v \in Worker \ {w} : worker'[v] = worker[v]
  BY <1>1
<1>3. ASSUME NEW v \in Worker \ {w}
      PROVE  HandFits(worker[v], job', asset')
  BY <1>1, HandStillFits DEF Typed, HandsOK
<1> QED
  BY <1>2, <1>3 DEF HandsOK

LEMMA Released ==
  ASSUME Typed, CaseStep, NEW w \in Worker, Release(w)
  PROVE  HandsOK'
<1>1. Idle \in InMemory /\ HandFits(Idle, job', asset')
  BY DEF InMemory, HandFits
<1> QED
  BY <1>1, HandTaken DEF Release

LEMMA SessionStillFits ==
  ASSUME Typed, CaseStep, NEW q, SessionFits(q, order, asset)
  PROVE  SessionFits(q, order', asset')
<1>1. order.cv \in Nat /\ order'.cv \in Nat /\ order.cv <= order'.cv
  BY JobsKept
<1>2. \A a \in AssetId : asset[a] # NoAsset => asset'[a] # NoAsset
  BY DEF CaseStep
<1>3. ASSUME q.cv \in Nat \ {0}, q.cv <= order.cv
      PROVE  q.cv <= order'.cv
  BY <1>1, <1>3
<1> QED
  BY <1>2, <1>3 DEF SessionFits

LEMMA SessionsKept ==
  ASSUME Typed, CaseStep, client' = client
  PROVE  SessionsOK'
  BY SessionStillFits DEF Typed, SessionsOK

LEMMA SessionGoes ==
  ASSUME Typed, CaseStep, NEW c \in Client, NEW q,
         client' = [client EXCEPT ![c] = q], SessionFits(q, order', asset')
  PROVE  SessionsOK'
<1>1. /\ client' = [d \in Client |-> client'[d]]
      /\ client'[c] = q
      /\ \A d \in Client \ {c} : client'[d] = client[d]
  <2>1. client = [d \in Client |-> client[d]]
    BY DEF Typed, SessionsOK
  <2>2. DOMAIN client = Client
    BY <2>1
  <2> QED
    BY <2>1, <2>2
<1>2. \A d \in Client \ {c} : SessionFits(client[d], order', asset')
  BY SessionStillFits DEF Typed, SessionsOK
<1> QED
  BY <1>1, <1>2 DEF SessionsOK

LEMMA RepairsKept ==
  ASSUME Typed, CaseStep, repair' = repair
  PROVE  RepairsOK'
  BY JobsKept DEF Typed, RepairsOK, Repairs

(* A step that leaves order, assets and jobs alone. *)
LEMMA StandingStill ==
  ASSUME Typed, order' = order, asset' = asset, job' = job
  PROVE  CaseStep
  BY DEF Typed, CaseStep, AssetsOK, JobsOK, JobsStep

(* A step of which only the jobs table sees anything. *)
LEMMA JobsMove ==
  ASSUME Typed, order' = order, asset' = asset, JobsStep(job, job'),
         \A j \in JobId : (job[j] = NoJob /\ job'[j] # NoJob) => JobFits(job'[j], order, asset)
  PROVE  CaseStep
  BY DEF Typed, CaseStep, AssetsOK
-----------------------------------------------------------------------------
LEMMA TypedAgain ==
  ASSUME Typed, CaseStep, finding' \in [JobId -> Seq(Finding)], clar' \in Clars,
         RepairsOK', proof' \subseteq Proofs, HandsOK', SessionsOK', Counters'
  PROVE  Typed'
  BY JobsKept DEF Typed, CaseStep

LEMMA Counting ==
  ASSUME Counters
  PROVE  /\ requests' = requests /\ faults' = faults => Counters'
         /\ NewRequest /\ faults' = faults => Counters'
         /\ requests' = requests /\ faults < MaxFaults /\ faults' = faults + 1 => Counters'
  BY BoundsAssumption DEF Counters, NewRequest

LEMMA InitTyped == Init => Typed
<1> SUFFICES ASSUME Init PROVE Typed
  OBVIOUS
<1>1. order \in Order /\ order.cur = None
  <2>1. "unknown" \in Trim
    BY DEF Trim
  <2>2. order \in [intent : Intents, status : {"BLOCKED"}, proof : {"NOT_PREPARED"},
                   cv : {1}, av : {1}, cur : {None}, trim : {"unknown"}, known : {FALSE}]
    BY DEF Init
  <2>3. order.cv \in Nat \ {0} /\ order.av \in Nat \ {0} /\ order.cur = None
    BY <2>2
  <2>4. order.trim \in Trim /\ order.intent \in Intent
    BY <2>1, <2>2, IntentsAssumption
  <2>5. order.known \in BOOLEAN
    BY <2>2
  <2> QED
    BY <2>2, <2>3, <2>4, <2>5 DEF Order
<1>2. AssetsOK
  BY <1>1 DEF Init, AssetsOK, Assets
<1>3. JobsOK
  BY DEF Init, JobsOK, Tables
<1>4. finding \in [JobId -> Seq(Finding)] /\ clar \in Clars
  BY DEF Init, Clars
<1>5. RepairsOK /\ proof \subseteq Proofs
  BY DEF Init, RepairsOK
<1>6. HandsOK
  BY DEF Init, HandsOK, HandFits, InMemory
<1>7. SessionsOK
  BY DEF Init, SessionsOK, SessionFits
<1>8. Counters
  BY BoundsAssumption DEF Init, Counters
<1> QED
  BY <1>1, <1>2, <1>3, <1>4, <1>5, <1>6, <1>7, <1>8 DEF Typed
-----------------------------------------------------------------------------
(* Steps that change the order row and nothing that others point at.       *)
LEMMA OrderMoves ==
  ASSUME Typed, asset' = asset, order' \in Order, order'.cv = order.cv + 1,
         order'.intent = order.intent, order'.cur = order.cur, JobsStep(job, job'),
         \A j \in JobId : (job[j] = NoJob /\ job'[j] # NoJob) => JobFits(job'[j], order', asset)
  PROVE  CaseStep
<1>1. order' # order
  BY DEF Typed, Order
<1> QED
  BY <1>1 DEF Typed, CaseStep, AssetsOK

LEMMA SameJobs == Typed => JobsStep(job, job)
  BY DEF Typed, JobsOK, JobsStep

LEMMA UploadedType ==
  ASSUME NEW o \in Order, NEW a \in AssetId
  PROVE  /\ Uploaded(o, a) \in Order /\ Uploaded(o, a).cv = o.cv + 1
         /\ Uploaded(o, a).cur = a /\ Uploaded(o, a).intent = o.intent
         /\ Uploaded(o, a).status = "BLOCKED" /\ Uploaded(o, a).proof = "NOT_PREPARED"
         /\ Uploaded(o, a).trim = "unknown" /\ Uploaded(o, a).known = FALSE
<1>1. "unknown" \in Trim
  BY DEF Trim
<1>2. PICK v \in Nat \ {0} : v = o.av + (IF Originals = {} THEN 0 ELSE 1)
  BY DEF Order
<1>3. PICK n \in Nat \ {0} : n = o.cv + 1
  BY DEF Order
<1>4. Uploaded(o, a) = [o EXCEPT !.av = v, !.cv = n, !.status = "BLOCKED",
                                 !.proof = "NOT_PREPARED", !.cur = a, !.trim = "unknown",
                                 !.known = FALSE]
  BY <1>2, <1>3 DEF Uploaded, Order
<1> QED
  BY <1>1, <1>3, <1>4 DEF Order

LEMMA UploadTyped ==
  ASSUME Typed, NEW art \in Artworks, Upload(art)
  PROVE  CaseStep /\ Typed'
<1>1. PICK a \in AssetId :
        /\ NextRow(asset, NoAsset, a)
        /\ asset' = [asset EXCEPT ![a] = [kind |-> "original", art |-> art, from |-> a]]
        /\ order' = Uploaded(order, a)
  BY DEF Upload
<1>2. /\ order' \in Order /\ order'.cv = order.cv + 1 /\ order' # order
      /\ order'.cur = a /\ order'.intent = order.intent /\ a # None
  <2>1. order \in Order
    BY DEF Typed
  <2>2. /\ order' \in Order /\ order'.cv = order.cv + 1
        /\ order'.cur = a /\ order'.intent = order.intent
    BY <1>1, <2>1, UploadedType
  <2>3. order.cv \in Nat
    BY <2>1 DEF Order
  <2>4. a # None
    BY DEF AssetId, None
  <2> QED
    BY <2>2, <2>3, <2>4
<1>3. /\ asset' \in Assets /\ asset'[a] # NoAsset /\ asset[a] = NoAsset
      /\ \A b \in AssetId \ {a} : asset'[b] = asset[b]
  <2>1. art \in ArtworkKind
    BY ArtworksAssumption
  <2> QED
    BY <1>1, <2>1 DEF Typed, AssetsOK, Assets, AssetRow, NoAsset, NextRow
<1>4. CaseStep
  BY <1>2, <1>3, SameJobs DEF CaseStep, AssetsOK, Upload
<1>5. clar' \in Clars
  BY DEF Upload, Typed, Clars, NoClar
<1> QED
  BY <1>4, <1>5, TypedAgain, Counting, HandsKept, SessionsKept, RepairsKept DEF Upload, Typed

LEMMA ReopenedType ==
  ASSUME NEW o \in Order, NEW t \in {"yes", "no"}
  PROVE  /\ Reopened(o, t) \in Order /\ Reopened(o, t).cv = o.cv + 1
         /\ Reopened(o, t).cur = o.cur /\ Reopened(o, t).intent = o.intent
         /\ Reopened(o, t).status = "BLOCKED" /\ Reopened(o, t).proof = "NOT_PREPARED"
         /\ Reopened(o, t).trim = t /\ Reopened(o, t).known = o.known
         /\ Reopened(o, t).av = o.av
<1>1. t \in Trim
  BY DEF Trim
<1>2. PICK n \in Nat \ {0} : n = o.cv + 1
  BY DEF Order
<1> QED
  BY <1>1, <1>2 DEF Order, Reopened

LEMMA ConfirmTyped ==
  ASSUME Typed, NEW t \in {"yes", "no"}, NEW v, ConfirmTrim(t, v)
  PROVE  CaseStep /\ Typed'
<1>1. /\ order' = Reopened(order, t) /\ asset' = asset /\ job' = job
      /\ finding' = finding /\ clar' = clar /\ repair' = repair /\ proof' = proof
      /\ worker' = worker /\ client' = client
  BY DEF ConfirmTrim
<1>2. CaseStep
  BY <1>1, ReopenedType, SameJobs, OrderMoves DEF Typed
<1> QED
  BY <1>1, <1>2, TypedAgain, Counting, HandsKept, SessionsKept, RepairsKept DEF ConfirmTrim, Typed

LEMMA MovedType ==
  ASSUME NEW o \in Order, NEW s \in {"BLOCKED", "AWAITING_CLARIFICATION", "RESOLVED", "NEEDS_REVIEW"}
  PROVE  /\ [o EXCEPT !.status = s, !.cv = @ + 1] \in Order
         /\ [o EXCEPT !.status = s, !.cv = @ + 1].cv = o.cv + 1
         /\ [o EXCEPT !.status = s, !.cv = @ + 1].status = s
         /\ [o EXCEPT !.status = s, !.cv = @ + 1].intent = o.intent
         /\ [o EXCEPT !.status = s, !.cv = @ + 1].cur = o.cur
         /\ [o EXCEPT !.status = s, !.cv = @ + 1].av = o.av
         /\ [o EXCEPT !.status = s, !.cv = @ + 1].trim = o.trim
         /\ [o EXCEPT !.status = s, !.cv = @ + 1].known = o.known
         /\ [o EXCEPT !.status = s, !.cv = @ + 1].proof = o.proof
<1>1. PICK n \in Nat \ {0} : n = o.cv + 1
  BY DEF Order
<1> QED
  BY <1>1 DEF Order

LEMMA EscalateTyped ==
  ASSUME Typed, NEW v, EscalateCase(v)
  PROVE  CaseStep /\ Typed'
<1>1. /\ order' \in Order /\ order'.cv = order.cv + 1
      /\ order'.cur = order.cur /\ order'.intent = order.intent
  <2>1. order \in Order /\ order' = [order EXCEPT !.status = "NEEDS_REVIEW", !.cv = @ + 1]
    BY DEF Typed, EscalateCase
  <2> QED
    BY <2>1, MovedType
<1>2. /\ asset' = asset /\ job' = job
      /\ finding' = finding /\ clar' = clar /\ repair' = repair /\ proof' = proof
      /\ worker' = worker /\ client' = client
  BY DEF EscalateCase
<1>3. CaseStep
  BY <1>1, <1>2, SameJobs, OrderMoves
<1> QED
  BY <1>2, <1>3, TypedAgain, Counting, HandsKept, SessionsKept, RepairsKept DEF EscalateCase, Typed

LEMMA InterpretedReply ==
  ASSUME NEW r \in Replies, InterpretYesNo(r) # "refused"
  PROVE  InterpretYesNo(r) \in {"yes", "no"}
<1>1. CASE r = <<>>
  BY <1>1 DEF InterpretYesNo
<1>2. CASE r # <<>> /\ r[1] \in {"y", "yes"}
  BY <1>2 DEF InterpretYesNo
<1>3. CASE r # <<>> /\ r[1] \in {"n", "no"}
  BY <1>3 DEF InterpretYesNo
<1>4. CASE r # <<>> /\ r[1] \notin {"n", "no"} /\ r[1] \notin {"y", "yes"}
  BY <1>4 DEF InterpretYesNo
<1> QED
  BY <1>1, <1>2, <1>3, <1>4

LEMMA AnswerTyped ==
  ASSUME Typed, NEW c \in ClarId, NEW r \in Replies, NEW v, AnswerClarification(c, r, v)
  PROVE  CaseStep /\ Typed'
<1>1. PICK t \in {"yes", "no"} : order' = Reopened(order, t)
  BY InterpretedReply DEF AnswerClarification
<1>2. order \in Order /\ order.cv \in Nat \ {0} /\ job \in Tables
  BY DEF Typed, Order, JobsOK
<1>3. /\ order' \in Order /\ order'.cv = order.cv + 1
      /\ order'.cur = order.cur /\ order'.intent = order.intent
  BY <1>1, <1>2, ReopenedType
<1>4. /\ asset' = asset /\ clar' = [clar EXCEPT ![c].state = "answered"]
      /\ finding' = finding /\ repair' = repair /\ proof' = proof
      /\ worker' = worker /\ client' = client
      /\ clar[c].state = "open"
  BY DEF AnswerClarification, Answerable
<1>5. clar' \in Clars
  BY <1>4 DEF Typed, Clars, NoClar
<1>6. CaseStep
  <2>1. CASE order.cur = None
    BY <2>1, <1>3, <1>4, SameJobs, OrderMoves DEF AnswerClarification
  <2>2. CASE order.cur # None
    <3> DEFINE row == NewJob("inspect", order.cur, order.cv + 1, NoKey, None)
    <3>1. order.cur \in AssetId /\ asset[order.cur] # NoAsset
      BY <2>2, <1>2 DEF Typed, AssetsOK, Order
    <3>2. IsNew(row) /\ row.type = "inspect" /\ row.asset = order.cur /\ row.cv = order.cv + 1
      BY <1>2, <3>1 DEF NewJob, IsNew, JobRow, JobType
    <3>3. JobFits(row, order', asset)
      BY <3>1, <3>2, <1>2, <1>3 DEF JobFits
    <3>4. PICK i \in JobId : NextId(job, i) /\ job' = EnsureJobEnqueued(job, i, row)
      BY <2>2 DEF AnswerClarification
    <3> HIDE DEF row
    <3>5. JobsStep(job, job')
      BY <3>2, <3>4, <1>2, EnsureJobEnqueuedDoes
    <3>6. \A j \in JobId : (job[j] = NoJob /\ job'[j] # NoJob) => job'[j] = row
      BY <3>2, <3>4, <1>2, EnsureJobEnqueuedDoes, RowFacts
    <3> QED
      BY <3>3, <3>5, <3>6, <1>3, <1>4, OrderMoves
  <2> QED
    BY <2>1, <2>2
<1> QED
  BY <1>4, <1>5, <1>6, TypedAgain, Counting, HandsKept, SessionsKept, RepairsKept
     DEF AnswerClarification, Typed
-----------------------------------------------------------------------------
(* The requests that go on for several statements.                         *)

(* A session reads, or counts the request, and remembers. *)
LEMMA SessionTyped ==
  ASSUME Typed, NEW c \in Client, NEW q, SessionFits(q, order', asset'),
         client' = [client EXCEPT ![c] = q], CaseStep, Counters',
         UNCHANGED <<finding, clar, repair, proof, worker>>
  PROVE  Typed'
  BY TypedAgain, HandsKept, SessionGoes, RepairsKept DEF Typed

LEMMA SessionReadTyped ==
  ASSUME Typed, NEW c \in Client,
         \/ StartRead(c)
         \/ \E k \in ClientKey : RepairReadOrder(c, k)
         \/ RepairReadDone(c)
         \/ RepairReadActive(c)
         \/ RepairReadOriginal(c)
  PROVE  CaseStep /\ Typed' /\ UNCHANGED <<order, asset, job, finding, clar, repair, proof, worker>>
<1>1. UNCHANGED <<order, asset, job, finding, clar, repair, proof, worker, faults>>
  BY DEF StartRead, RepairReadOrder, RepairReadDone, RepairReadActive, RepairReadOriginal
<1>2. CaseStep
  BY <1>1, StandingStill
<1>3. Counters'
  BY <1>1, Counting DEF Typed, StartRead, RepairReadOrder, RepairReadDone, RepairReadActive,
     RepairReadOriginal
<1>4. SessionFits(client[c], order, asset)
  BY DEF Typed, SessionsOK
<1>5. CASE StartRead(c)
  <2>1. PICK a \in AssetId, v \in Nat \ {0} : a = order.cur /\ v = order.cv /\ asset[a] # NoAsset
    BY <1>5 DEF StartRead, Typed, AssetsOK, Order
  <2> DEFINE q == [pc |-> "start", asset |-> a, cv |-> v]
  <2>2. client' = [client EXCEPT ![c] = q]
    BY <1>5, <2>1 DEF StartRead
  <2>3. SessionFits(q, order, asset)
    BY <2>1 DEF SessionFits
  <2> HIDE DEF q
  <2> QED
    BY <2>2, <2>3, <1>1, <1>2, <1>3, SessionTyped
<1>6. ASSUME NEW k \in ClientKey, RepairReadOrder(c, k)
      PROVE  Typed'
  <2>1. PICK v \in Nat \ {0} : v = order.cv
    BY DEF Typed, Order
  <2>2. PICK x \in ClientKeys : x = <<"client", k>>
    BY DEF ClientKeys
  <2> DEFINE q == [pc |-> "repair order read", key |-> x, cv |-> v, cur |-> order.cur]
  <2>3. client' = [client EXCEPT ![c] = q]
    BY <1>6, <2>1, <2>2 DEF RepairReadOrder
  <2>4. SessionFits(q, order, asset)
    BY <2>1 DEF SessionFits
  <2> HIDE DEF q
  <2> QED
    BY <2>3, <2>4, <1>1, <1>2, <1>3, SessionTyped
<1>7. CASE RepairReadDone(c)
  <2>1. client[c].pc = "repair order read"
    BY <1>7 DEF RepairReadDone
  <2>2. PICK n : client' = [client EXCEPT ![c] =
                   [pc |-> "repair done read", key |-> client[c].key,
                    cv |-> client[c].cv, cur |-> client[c].cur, done |-> n]]
    BY <1>7 DEF RepairReadDone
  <2> DEFINE q == [pc |-> "repair done read", key |-> client[c].key,
                   cv |-> client[c].cv, cur |-> client[c].cur, done |-> n]
  <2>3. SessionFits(q, order, asset)
    BY <1>4, <2>1 DEF SessionFits
  <2> HIDE DEF q
  <2>4. client' = [client EXCEPT ![c] = q]
    BY <2>2 DEF q
  <2> QED
    BY <2>3, <2>4, <1>1, <1>2, <1>3, SessionTyped
<1>8. CASE RepairReadActive(c)
  <2>1. client[c].pc = "repair done read"
    BY <1>8 DEF RepairReadActive
  <2>2. PICK q \in {[pc |-> "repair decided", key |-> client[c].key, cv |-> client[c].cv],
                    [pc |-> "idle"]} : client' = [client EXCEPT ![c] = q]
    BY <1>8 DEF RepairReadActive
  <2>3. SessionFits([pc |-> "idle"], order, asset)
    BY DEF SessionFits
  <2>4. SessionFits([pc |-> "repair decided", key |-> client[c].key, cv |-> client[c].cv],
                    order, asset)
    BY <1>4, <2>1 DEF SessionFits
  <2>5. SessionFits(q, order, asset)
    BY <2>2, <2>3, <2>4
  <2> QED
    BY <2>2, <2>5, <1>1, <1>2, <1>3, SessionTyped
<1>9. CASE RepairReadOriginal(c)
  <2>1. client[c].pc = "repair decided"
    BY <1>9 DEF RepairReadOriginal
  <2>2. PICK a \in AssetId :
          /\ IsLatestOriginal(a)
          /\ client' = [client EXCEPT ![c] = [pc |-> "repair insert", key |-> client[c].key,
                                              cv |-> client[c].cv, asset |-> a]]
    BY <1>9 DEF RepairReadOriginal
  <2> DEFINE q == [pc |-> "repair insert", key |-> client[c].key, cv |-> client[c].cv, asset |-> a]
  <2>3. asset[a].kind = "original"
    BY <2>2 DEF IsLatestOriginal, Originals
  <2>4. asset[a] # NoAsset
    BY <2>3 DEF NoAsset
  <2>5. SessionFits(q, order, asset)
    BY <1>4, <2>1, <2>4 DEF SessionFits
  <2> HIDE DEF q
  <2>6. client' = [client EXCEPT ![c] = q]
    BY <2>2 DEF q
  <2> QED
    BY <2>5, <2>6, <1>1, <1>2, <1>3, SessionTyped
<1> QED
  BY <1>1, <1>2, <1>5, <1>6, <1>7, <1>8, <1>9

(* CreateJob with what the session read. *)
LEMMA InsertTyped ==
  ASSUME Typed, NEW c \in Client, client[c].pc \in {"start", "repair insert"},
         NEW row, IsNew(row), row.asset = client[c].asset, row.cv = client[c].cv,
         row.type = "repair" => row.key # NoKey,
         NEW i \in JobId, NextId(job, i), job' = CreateJob(job, i, row),
         client' = [client EXCEPT ![c] = [pc |-> "idle"]],
         UNCHANGED <<order, asset, finding, clar, repair, proof, worker, requests, faults>>
  PROVE  CaseStep /\ Typed'
<1>1. SessionFits(client[c], order, asset)
  BY DEF Typed, SessionsOK
<1>2. JobFits(row, order, asset)
  BY <1>1 DEF SessionFits, JobFits
<1>3. /\ JobsStep(job, job')
      /\ \A j \in JobId : job'[j] = job[j] \/ (job[j] = NoJob /\ job'[j] = row)
  <2>1. job \in Tables
    BY DEF Typed, JobsOK
  <2>2. i \in JobId /\ NextId(job, i) /\ IsNew(row) /\ job' = CreateJob(job, i, row)
    OBVIOUS
  <2> QED
    BY ONLY <2>1, <2>2, CreateJobDoes
<1>4. CaseStep
  BY <1>2, <1>3, JobsMove
<1>5. SessionFits([pc |-> "idle"], order', asset')
  BY DEF SessionFits
<1>6. Counters'
  BY Counting DEF Typed
<1> QED
  BY <1>4, <1>5, <1>6, SessionTyped

LEMMA ClientKeysAreKeys == ClientKeys \subseteq Keys /\ NoKey \notin Keys
  BY DEF ClientKeys, Keys, NoKey

(* The row a session inserts is well formed. *)
LEMMA InsertedRow ==
  ASSUME Typed, NEW c \in Client, client[c].pc \in {"start", "repair insert"}
  PROVE  /\ IsNew(NewJob("inspect", client[c].asset, client[c].cv, NoKey, None))
         /\ client[c].pc = "repair insert" =>
              /\ IsNew(NewJob("repair", client[c].asset, client[c].cv, client[c].key, None))
              /\ client[c].key # NoKey
<1>1. SessionFits(client[c], order, asset)
  BY DEF Typed, SessionsOK
<1>2. client[c].asset \in AssetId /\ client[c].cv \in Nat \ {0}
  BY <1>1 DEF SessionFits
<1>3. client[c].pc = "repair insert" => client[c].key \in Keys /\ client[c].key # NoKey
  BY <1>1, ClientKeysAreKeys DEF SessionFits
<1>4. IsNew(NewJob("inspect", client[c].asset, client[c].cv, NoKey, None))
  BY <1>2 DEF NewJob, IsNew, JobRow, JobType
<1>5. client[c].pc = "repair insert" =>
        IsNew(NewJob("repair", client[c].asset, client[c].cv, client[c].key, None))
  BY <1>2, <1>3 DEF NewJob, IsNew, JobRow, JobType
<1> QED
  BY <1>3, <1>4, <1>5

LEMMA SessionInsertTyped ==
  ASSUME Typed, NEW c \in Client, StartInsert(c) \/ RepairInsert(c)
  PROVE  CaseStep /\ Typed'
<1>1. CASE StartInsert(c)
  <2>1. client[c].pc = "start"
    BY <1>1 DEF StartInsert
  <2>2. PICK row : row = NewJob("inspect", client[c].asset, client[c].cv, NoKey, None)
    OBVIOUS
  <2>3. PICK i \in JobId : NextId(job, i) /\ job' = CreateJob(job, i, row)
    BY <1>1, <2>2 DEF StartInsert
  <2>4. IsNew(row)
    BY <2>1, <2>2, InsertedRow
  <2>5. row.asset = client[c].asset /\ row.cv = client[c].cv /\ row.type # "repair"
    BY <2>2 DEF NewJob
  <2> QED
    BY <1>1, <2>1, <2>3, <2>4, <2>5, InsertTyped DEF StartInsert
<1>2. CASE RepairInsert(c)
  <2>1. client[c].pc = "repair insert"
    BY <1>2 DEF RepairInsert
  <2>2. PICK row : row = NewJob("repair", client[c].asset, client[c].cv, client[c].key, None)
    OBVIOUS
  <2>3. PICK i \in JobId : NextId(job, i) /\ job' = CreateJob(job, i, row)
    BY <1>2, <2>2 DEF RepairInsert
  <2>4. IsNew(row) /\ client[c].key # NoKey
    BY <2>1, <2>2, InsertedRow
  <2>5. row.asset = client[c].asset /\ row.cv = client[c].cv /\ row.key = client[c].key
    BY <2>2 DEF NewJob
  <2> QED
    BY <1>2, <2>1, <2>3, <2>4, <2>5, InsertTyped DEF RepairInsert
<1> QED
  BY <1>1, <1>2
-----------------------------------------------------------------------------
(* The workers' steps. *)

(* What a worker that holds a job points at. *)
LEMMA InHandFacts ==
  ASSUME Typed, NEW w \in Worker, worker[w] # Idle
  PROVE  /\ worker[w] \in InMemory /\ worker[w].job \in JobId
         /\ job[worker[w].job].status \notin {"absent", "QUEUED"}
         /\ job[worker[w].job] \in JobRow
         /\ job[worker[w].job].asset \in AssetId
         /\ asset[job[worker[w].job].asset] \in AssetRow
<1>1. worker[w] \in InMemory /\ HandFits(worker[w], job, asset)
  BY DEF Typed, HandsOK
<1>2. worker[w].job \in JobId
  BY <1>1, HandFacts
<1>3. job[worker[w].job].status \notin {"absent", "QUEUED"}
  BY <1>1 DEF HandFits
<1>4. job[worker[w].job] \in JobRow /\ job[worker[w].job] # NoJob
  <2>1. job \in Tables
    BY DEF Typed, JobsOK
  <2> QED
    BY <2>1, <1>2, <1>3, RowFacts
<1>5. job[worker[w].job].asset \in AssetId
  BY <1>4 DEF JobRow
<1>6. asset[job[worker[w].job].asset] # NoAsset
  BY <1>2, <1>4 DEF Typed, JobsOK, JobFits
<1>7. asset[job[worker[w].job].asset] \in AssetRow
  BY <1>5, <1>6 DEF Typed, AssetsOK, Assets
<1> QED
  BY <1>1, <1>2, <1>3, <1>4, <1>5, <1>7

LEMMA ClaimTyped ==
  ASSUME Typed, NEW w \in Worker, Claim(w)
  PROVE  CaseStep /\ Typed'
<1>1. PICK i \in JobId :
        /\ IsNextToClaim(job, i)
        /\ job' = Claimed(job, i, w)
        /\ worker' = [worker EXCEPT ![w] = [pc |-> "claimed", job |-> i]]
  BY DEF Claim
<1>2. UNCHANGED <<order, asset, finding, clar, repair, proof, client, requests, faults>>
  BY DEF Claim
<1>3. /\ JobsStep(job, job') /\ job'[i].status = "RUNNING" /\ job[i] # NoJob
      /\ \A k \in JobId \ {i} : job'[k] = job[k]
  <2>1. job \in Tables
    BY DEF Typed, JobsOK
  <2>2. IsNextToClaim(job, i) /\ i \in JobId /\ w \in Worker /\ job' = Claimed(job, i, w)
    BY <1>1
  <2>3. JobsStep(job, job')
    BY ONLY <2>1, <2>2, ClaimedDoes
  <2>4. job[i] # NoJob
    BY ONLY <2>1, <2>2, ClaimedDoes
  <2>5. job[i] \in JobRow
    BY ONLY <2>1, <2>2, <2>4, RowFacts
  <2>6. job'[i].status = "RUNNING" /\ \A k \in JobId \ {i} : job'[k] = job[k]
    BY ONLY <2>1, <2>2, <2>5 DEF Claimed, Tables, JobRow
  <2> QED
    BY <2>3, <2>4, <2>5, <2>6
<1>4. CaseStep
  BY <1>2, <1>3, JobsMove
<1>5. HandsOK'
  <2> DEFINE h == [pc |-> "claimed", job |-> i]
  <2>1. h \in InMemory /\ HandFits(h, job', asset')
    BY <1>3 DEF InMemory, HandFits
  <2> HIDE DEF h
  <2>2. worker' = [worker EXCEPT ![w] = h]
    BY <1>1 DEF h
  <2> QED
    BY <2>1, <2>2, <1>4, HandTaken
<1> QED
  BY <1>2, <1>4, <1>5, TypedAgain, Counting, SessionsKept, RepairsKept DEF Typed

LEMMA ViewIsSeen == ASSUME order \in Order PROVE View \in Seen
  BY DEF View, Seen, Order

LEMMA LoadTyped ==
  ASSUME Typed, NEW w \in Worker, Load(w)
  PROVE  CaseStep /\ Typed'
<1>1. UNCHANGED <<order, asset, job, finding, clar, repair, proof, client, requests, faults>>
  BY DEF Load
<1>2. CaseStep
  BY <1>1, StandingStill
<1>3. worker[w] # Idle
  BY DEF Load, Idle
<1>4. PICK h : h = [pc |-> "loaded", job |-> worker[w].job, seen |-> View]
  OBVIOUS
<1>5. h \in InMemory
  <2>1. worker[w].job \in JobId
    BY <1>3, InHandFacts
  <2>2. View \in Seen
    BY ViewIsSeen DEF Typed
  <2> QED
    BY <1>4, <2>1, <2>2 DEF InMemory
<1>6. HandFits(h, job', asset')
  <2>1. job'[worker[w].job].status \notin {"absent", "QUEUED"}
    BY <1>1, <1>3, InHandFacts
  <2> QED
    BY <1>4, <2>1 DEF HandFits
<1>7. HandsOK'
  BY <1>2, <1>4, <1>5, <1>6, HandTaken DEF Load
<1> QED
  BY <1>1, <1>2, <1>7, TypedAgain, Counting, SessionsKept, RepairsKept DEF Typed

LEMMA DecideTyped ==
  ASSUME Typed, NEW w \in Worker, Decide(w)
  PROVE  CaseStep /\ Typed'
<1>1. UNCHANGED <<order, asset, job, finding, clar, repair, proof, client, requests, faults>>
  BY DEF Decide
<1>2. CaseStep
  BY <1>1, StandingStill
<1>3. worker[w] # Idle /\ job[worker[w].job].type = "agent_decide"
  BY DEF Decide, Idle
<1>4. PICK action \in {"ask_clarification", "request_repair", "escalate"}, a \in AssetId \cup {None} :
        /\ Decision(w, action, a)
        /\ worker' = [worker EXCEPT ![w] = [pc |-> "decided", job |-> worker[w].job,
                                            action |-> action, asset |-> a]]
  BY DEF Decide
<1>5. action = "request_repair" => a \in AssetId /\ asset[a].kind = "original"
  BY <1>4 DEF Decision, IsLatestOriginal, Originals
<1>6. PICK h : h = [pc |-> "decided", job |-> worker[w].job, action |-> action, asset |-> a]
  OBVIOUS
<1>7. h \in InMemory
  <2>1. worker[w].job \in JobId
    BY <1>3, InHandFacts
  <2> QED
    BY <1>6, <2>1 DEF InMemory
<1>8. HandFits(h, job', asset')
  <2>1. /\ job'[worker[w].job].status \notin {"absent", "QUEUED"}
        /\ job'[worker[w].job].type = "agent_decide"
    BY <1>1, <1>3, InHandFacts
  <2> QED
    BY <1>1, <1>5, <1>6, <2>1 DEF HandFits
<1>9. HandsOK'
  BY <1>2, <1>4, <1>6, <1>7, <1>8, HandTaken
<1> QED
  BY <1>1, <1>2, <1>9, TypedAgain, Counting, SessionsKept, RepairsKept DEF Typed

(* A worker lets go of its job, and maybe fails it or outlives its lease. *)
LEMMA LetGoTyped ==
  ASSUME Typed, CaseStep, NEW w \in Worker, Release(w), Counters',
         UNCHANGED <<finding, clar, repair, proof, client>>
  PROVE  Typed'
  BY TypedAgain, Released, SessionsKept, RepairsKept DEF Typed

LEMMA RefuseTyped ==
  ASSUME Typed, NEW w \in Worker, Refuse(w)
  PROVE  CaseStep /\ Typed'
<1>1. UNCHANGED <<order, asset, job, finding, clar, repair, proof, client, requests, faults>>
  BY DEF Refuse
<1>2. CaseStep
  BY <1>1, StandingStill
<1>3. worker[w] # Idle
  BY DEF Refuse, ReadyToCommit, Idle
<1>4. PICK h : h = [pc |-> "void", job |-> worker[w].job]
  OBVIOUS
<1>5. h \in InMemory /\ HandFits(h, job', asset')
  <2>1. worker[w].job \in JobId /\ job'[worker[w].job].status \notin {"absent", "QUEUED"}
    BY <1>1, <1>3, InHandFacts
  <2> QED
    BY <1>4, <2>1 DEF InMemory, HandFits
<1>6. HandsOK'
  BY <1>2, <1>4, <1>5, HandTaken DEF Refuse
<1> QED
  BY <1>1, <1>2, <1>6, TypedAgain, Counting, SessionsKept, RepairsKept DEF Typed

LEMMA FailWorkTyped ==
  ASSUME Typed, NEW w \in Worker, FailWork(w)
  PROVE  CaseStep /\ Typed'
<1>1. UNCHANGED <<order, asset, finding, clar, repair, proof, client, requests, faults>>
  BY DEF FailWork
<1>2. worker[w] # Idle
  BY DEF FailWork, Idle
<1>3. /\ JobsStep(job, job')
      /\ \A j \in JobId : job'[j] = job[j] \/ job'[j].note = "failed"
  <2>1. job \in Tables /\ worker[w].job \in JobId
    BY <1>2, InHandFacts DEF Typed, JobsOK
  <2>2. job' = FailJob(job, worker[w].job, w, "failed")
    BY DEF FailWork
  <2> QED
    BY ONLY <2>1, <2>2, FailJobDoes
<1>4. \A j \in JobId : ~(job[j] = NoJob /\ job'[j] # NoJob)
  BY <1>3 DEF JobsStep, IsNew, IsActive, NoJob
<1>5. CaseStep
  BY <1>1, <1>3, <1>4, JobsMove
<1> QED
  BY <1>1, <1>5, LetGoTyped, Counting DEF FailWork, Typed

LEMMA LoseTyped ==
  ASSUME Typed, NEW w \in Worker, Lose(w)
  PROVE  CaseStep /\ Typed'
<1>1. CaseStep
  BY StandingStill DEF Lose
<1> QED
  BY <1>1, LetGoTyped, Counting DEF Lose, Typed

LEMMA LeaseTyped ==
  ASSUME Typed, NEW i \in JobId, LeaseRunsOut(i) \/ OutrunLease(i)
  PROVE  CaseStep /\ Typed'
<1>1. /\ job[i].status = "RUNNING" /\ job' = LeaseExpired(job, i)
      /\ UNCHANGED <<order, asset, finding, clar, repair, proof, worker, client, requests>>
  BY DEF LeaseRunsOut, OutrunLease
<1>2. JobsStep(job, job') /\ \A k \in JobId \ {i} : job'[k] = job[k]
  <2>1. job \in Tables
    BY DEF Typed, JobsOK
  <2> QED
    BY ONLY <1>1, <2>1, i \in JobId, LeaseExpiredDoes
<1>3. CaseStep
  <2>1. job[i] # NoJob
    BY <1>1 DEF NoJob
  <2> QED
    BY <1>1, <1>2, <2>1, JobsMove
<1>4. Counters'
  BY <1>1, Counting DEF LeaseRunsOut, OutrunLease, Typed
<1> QED
  BY <1>1, <1>3, <1>4, TypedAgain, HandsKept, SessionsKept, RepairsKept DEF Typed
-----------------------------------------------------------------------------
(* The workers' transactions. *)

LEMMA InspectType ==
  ASSUME NEW intent \in Intent, NEW trim \in Trim, NEW explicit \in BOOLEAN, NEW art \in ArtworkKind
  PROVE  Inspect(intent, trim, explicit, art) \in Seq(Finding)
<1>1. CheckResolution(intent, trim, explicit, art) \in Finding
  BY DEF CheckResolution, UnresolvedTrimReason, F, Finding, CheckName, Result, Reason
<1>2. CheckColor(art) \in Finding
  BY DEF CheckColor, ArtworkKind, F, Finding, CheckName, Result, Reason
<1>3. CheckBleed(intent, trim, explicit) \in Finding
  BY DEF CheckBleed, UnresolvedTrimReason, F, Finding, CheckName, Result, Reason
<1>4. PICK f \in Finding, g \in Finding, h \in Finding :
        /\ f = CheckResolution(intent, trim, explicit, art)
        /\ g = CheckColor(art) /\ h = CheckBleed(intent, trim, explicit)
  BY <1>1, <1>2, <1>3
<1>5. <<f, g>> \in Seq(Finding)
  OBVIOUS
<1>6. Append(<<f, g>>, h) \in Seq(Finding)
  BY <1>5
<1> QED
  BY <1>4, <1>5, <1>6 DEF Inspect

LEMMA DecideType ==
  ASSUME NEW fs, NEW intent
  PROVE  DecideArtworkStatus(fs, intent) \in {"BLOCKED", "RESOLVED", "NEEDS_REVIEW"}
  BY DEF DecideArtworkStatus

(* What a worker sees of the job it commits. *)
LEMMA CommitFacts ==
  ASSUME Typed, NEW w \in Worker, worker[w] # Idle, Commits(w)
  PROVE  /\ worker[w].job \in JobId /\ job[worker[w].job].status = "RUNNING"
         /\ job[worker[w].job].cv = order.cv
         /\ job[worker[w].job] \in JobRow /\ job \in Tables
         /\ job[worker[w].job].asset \in AssetId
         /\ asset[job[worker[w].job].asset] \in AssetRow
         /\ order \in Order /\ order.cv \in Nat \ {0}
<1>1. job \in Tables /\ order \in Order
  BY DEF Typed, JobsOK
<1>2. order.cv \in Nat \ {0}
  BY <1>1 DEF Order
<1> QED
  BY <1>1, <1>2, InHandFacts DEF Commits, HoldsLease

(* The job row alone is updated. *)
LEMMA DoneMoves ==
  ASSUME Typed, NEW w \in Worker, worker[w] # Idle, Commits(w), job' = Done(w)
  PROVE  /\ JobsStep(job, job')
         /\ \A j \in JobId : ~(job[j] = NoJob /\ job'[j] # NoJob)
         /\ job'[worker[w].job].status = "SUCCEEDED"
         /\ \A k \in JobId \ {worker[w].job} : job'[k] = job[k]
<1>1. job \in Tables /\ worker[w].job \in JobId /\ job[worker[w].job].status = "RUNNING"
      /\ job[worker[w].job] \in JobRow
  BY CommitFacts
<1>2. job' = Succeeded(job, worker[w].job)
  BY DEF Done
<1>3. JobsStep(job, job') /\ \A k \in JobId \ {worker[w].job} : job'[k] = job[k]
  BY ONLY <1>1, <1>2, SucceededDoes
<1>4. job'[worker[w].job].status = "SUCCEEDED"
  BY ONLY <1>1, <1>2, SucceededDoes
<1>5. job[worker[w].job] # NoJob
  BY <1>1, RowFacts
<1> QED
  BY <1>3, <1>4, <1>5

(* The job row and its follow-up. *)
LEMMA ContinueMoves ==
  ASSUME Typed, NEW w \in Worker, worker[w] # Idle, Commits(w),
         NEW row, IsNew(row), Continue(w, row), NEW o, NEW A, JobFits(row, o, A)
  PROVE  /\ JobsStep(job, job')
         /\ \A j \in JobId : (job[j] = NoJob /\ job'[j] # NoJob) => JobFits(job'[j], o, A)
<1>1. job \in Tables /\ worker[w].job \in JobId /\ job[worker[w].job].status = "RUNNING"
      /\ job[worker[w].job] \in JobRow
  BY CommitFacts
<1>2. IsNew(row) /\ Continue(w, row) /\ w \in Worker
  OBVIOUS
<1>3. /\ JobsStep(job, job')
      /\ \A k \in JobId \ {worker[w].job} :
           \/ job'[k] = job[k]
           \/ job[k] = NoJob /\ job'[k] = row
           \/ IsActive(job[k]) /\ job[k].type = row.type /\ job'[k] = Superseded(job[k])
  BY ONLY <1>1, <1>2, ContinueDoes
<1>4. job[worker[w].job] # NoJob
  BY <1>1, RowFacts
<1>5. ASSUME NEW j \in JobId, job[j] = NoJob, job'[j] # NoJob
      PROVE  job'[j] = row
  BY <1>3, <1>4, <1>5 DEF IsActive, NoJob
<1> QED
  BY <1>3, <1>5

(* The order as an inspection, a proof or a repaired canvas leaves it. *)
LEMMA InspectedType ==
  ASSUME NEW o \in Order,
         NEW s \in {"BLOCKED", "AWAITING_CLARIFICATION", "RESOLVED", "NEEDS_REVIEW"}
  PROVE  LET n == [o EXCEPT !.status = s, !.proof = "NOT_PREPARED", !.cv = o.cv + 1]
         IN  /\ n \in Order /\ n.cv = o.cv + 1 /\ n.status = s
             /\ n.proof = "NOT_PREPARED" /\ n.intent = o.intent /\ n.cur = o.cur
             /\ n.av = o.av /\ n.trim = o.trim /\ n.known = o.known
<1>1. PICK v \in Nat \ {0} : v = o.cv + 1
  BY DEF Order
<1> QED
  BY <1>1 DEF Order

LEMMA ProofedType ==
  ASSUME NEW o \in Order
  PROVE  LET n == [o EXCEPT !.proof = "AWAITING_CUSTOMER_APPROVAL", !.cv = @ + 1]
         IN  /\ n \in Order /\ n.cv = o.cv + 1 /\ n.status = o.status
             /\ n.proof = "AWAITING_CUSTOMER_APPROVAL" /\ n.intent = o.intent /\ n.cur = o.cur
             /\ n.av = o.av /\ n.trim = o.trim /\ n.known = o.known
<1>1. PICK v \in Nat \ {0} : v = o.cv + 1
  BY DEF Order
<1> QED
  BY <1>1 DEF Order

LEMMA RepairedType ==
  ASSUME NEW o \in Order, NEW d \in AssetId,
         NEW s \in {"BLOCKED", "AWAITING_CLARIFICATION", "RESOLVED", "NEEDS_REVIEW"}
  PROVE  LET n == [o EXCEPT !.status = s, !.proof = "NOT_PREPARED", !.cv = o.cv + 1,
                            !.cur = d, !.known = TRUE]
         IN  /\ n \in Order /\ n.cv = o.cv + 1 /\ n.status = s
             /\ n.proof = "NOT_PREPARED" /\ n.intent = o.intent /\ n.cur = d
             /\ n.av = o.av /\ n.trim = o.trim /\ n.known = TRUE
<1>1. PICK v \in Nat \ {0} : v = o.cv + 1
  BY DEF Order
<1> QED
  BY <1>1 DEF Order

(* What a transaction that commits leaves to be shown. *)
LEMMA CommitTyped ==
  ASSUME Typed, CaseStep, NEW w \in Worker, Release(w),
         finding' \in [JobId -> Seq(Finding)], clar' \in Clars, RepairsOK', proof' \subseteq Proofs,
         UNCHANGED <<client, requests, faults>>
  PROVE  Typed'
  BY TypedAgain, Released, SessionsKept, Counting DEF Typed

(* What the worker read, and the findings it makes of it. *)
LEMMA SeenFacts ==
  ASSUME Typed, NEW w \in Worker, worker[w].pc = "loaded"
  PROVE  worker[w] # Idle /\ worker[w].seen.trim \in Trim /\ worker[w].seen.known \in BOOLEAN
         /\ worker[w].seen.av \in Nat \ {0}
<1>1. worker[w] # Idle
  BY DEF Idle
<1>2. worker[w].seen \in Seen
  BY <1>1, InHandFacts, HandFacts
<1>3. /\ worker[w].seen.trim \in Trim /\ worker[w].seen.av \in Nat \ {0}
  BY <1>2 DEF Seen
<1>4. worker[w].seen.known \in BOOLEAN
  BY <1>2, Zenon DEF Seen
<1> QED
  BY <1>1, <1>3, <1>4

LEMMA FindingsType ==
  ASSUME Typed, NEW w \in Worker, worker[w].pc = "loaded"
  PROVE  InspectedWith(w) \in Seq(Finding) /\ RecheckedWith(w) \in Seq(Finding)
<1> DEFINE a == job[worker[w].job].asset
<1>1. PICK e \in BOOLEAN : e = (worker[w].seen.cur = a /\ worker[w].seen.known)
  OBVIOUS
<1>2. worker[w].seen.trim \in Trim
  BY SeenFacts
<1>3. PICK art \in ArtworkKind : art = asset[a].art
  <2>1. asset[a] \in AssetRow
    BY SeenFacts, InHandFacts
  <2> QED
    BY <2>1 DEF AssetRow
<1>4. PICK intent \in Intent : intent = order.intent
  BY DEF Typed, Order
<1>5. InspectedWith(w) = Inspect(intent, worker[w].seen.trim, e, art)
  BY <1>1, <1>3, <1>4 DEF InspectedWith
<1>6. RecheckedWith(w) = Inspect(intent, worker[w].seen.trim, TRUE, art)
  BY <1>3, <1>4 DEF RecheckedWith
<1> QED
  BY <1>2, <1>5, <1>6, InspectType

LEMMA CommitInspectionTyped ==
  ASSUME Typed, NEW w \in Worker, CommitInspection(w)
  PROVE  CaseStep /\ Typed'
<1> DEFINE j == worker[w].job
           status == DecideArtworkStatus(InspectedWith(w), order.intent)
<1>1. /\ worker[w].pc = "loaded" /\ Commits(w) /\ Release(w)
      /\ finding' = [finding EXCEPT ![j] = InspectedWith(w)]
      /\ order'   = [order EXCEPT !.status = status, !.proof = "NOT_PREPARED", !.cv = order.cv + 1]
      /\ \/ Continue(w, NewJob("prepare_proof", job[j].asset, order.cv + 1, NoKey, None))
         \/ Continue(w, NewJob("agent_decide", job[j].asset, order.cv + 1, NoKey, j))
         \/ job' = Done(w)
      /\ UNCHANGED <<asset, clar, repair, proof, client, requests, faults>>
  BY DEF CommitInspection, WorksOn
<1>2. /\ worker[w] # Idle /\ j \in JobId /\ order \in Order /\ order.cv \in Nat \ {0}
      /\ job[j].asset \in AssetId /\ asset[job[j].asset] \in AssetRow
  BY <1>1, SeenFacts, CommitFacts
<1>3. /\ order' \in Order /\ order'.cv = order.cv + 1
      /\ order'.intent = order.intent /\ order'.cur = order.cur
  <2>1. PICK s \in {"BLOCKED", "AWAITING_CLARIFICATION", "RESOLVED", "NEEDS_REVIEW"} : s = status
    BY DecideType
  <2>2. order' = [order EXCEPT !.status = s, !.proof = "NOT_PREPARED", !.cv = order.cv + 1]
    BY <1>1, <2>1
  <2>3. order \in Order
    BY <1>2
  <2> QED
    BY ONLY <2>2, <2>3, InspectedType
<1> HIDE DEF status
<1>4. /\ JobsStep(job, job')
      /\ \A i \in JobId : (job[i] = NoJob /\ job'[i] # NoJob) => JobFits(job'[i], order', asset)
  <2>1. asset[job[j].asset] # NoAsset
    BY <1>2 DEF AssetRow, NoAsset
  <2>2. ASSUME NEW row, NEW t \in {"prepare_proof", "agent_decide"}, NEW s \in JobId \cup {None},
               row = NewJob(t, job[j].asset, order.cv + 1, NoKey, s), Continue(w, row)
        PROVE  /\ JobsStep(job, job')
               /\ \A i \in JobId :
                    (job[i] = NoJob /\ job'[i] # NoJob) => JobFits(job'[i], order', asset)
    <3>1. IsNew(row)
      BY <1>2, <2>2 DEF NewJob, IsNew, JobRow, JobType
    <3>2. row.asset = job[j].asset /\ row.cv = order.cv + 1 /\ row.type # "repair"
      BY <2>2 DEF NewJob
    <3>3. JobFits(row, order', asset)
      BY <1>2, <1>3, <2>1, <3>2 DEF JobFits
    <3> QED
      BY <1>1, <1>2, <2>2, <3>1, <3>3, ContinueMoves
  <2>3. CASE Continue(w, NewJob("prepare_proof", job[j].asset, order.cv + 1, NoKey, None))
    BY <2>2, <2>3
  <2>4. CASE Continue(w, NewJob("agent_decide", job[j].asset, order.cv + 1, NoKey, j))
    BY <1>2, <2>2, <2>4
  <2>5. CASE job' = Done(w)
    BY <1>1, <1>2, <2>5, DoneMoves
  <2> QED
    BY <1>1, <2>3, <2>4, <2>5
<1>5. CaseStep
  BY <1>1, <1>3, <1>4, OrderMoves
<1>6. finding' \in [JobId -> Seq(Finding)]
  <2>1. InspectedWith(w) \in Seq(Finding)
    BY <1>1, FindingsType
  <2> QED
    BY <1>1, <2>1 DEF Typed
<1> QED
  BY <1>1, <1>5, <1>6, RepairsKept, CommitTyped DEF Typed

LEMMA CommitProofTyped ==
  ASSUME Typed, NEW w \in Worker, CommitProof(w)
  PROVE  CaseStep /\ Typed'
<1>1. /\ worker[w].pc = "loaded" /\ Commits(w) /\ Release(w) /\ job' = Done(w)
      /\ proof' = proof \cup {Rendered(w)}
      /\ order' = [order EXCEPT !.proof = "AWAITING_CUSTOMER_APPROVAL", !.cv = @ + 1]
      /\ UNCHANGED <<asset, finding, clar, repair, client, requests, faults>>
  BY DEF CommitProof, WorksOn
<1>2. worker[w] # Idle /\ worker[w].seen.av \in Nat \ {0}
  BY <1>1, SeenFacts
<1>3. /\ order' \in Order /\ order'.cv = order.cv + 1
      /\ order'.intent = order.intent /\ order'.cur = order.cur
  <2>1. order \in Order /\ order' = [order EXCEPT !.proof = "AWAITING_CUSTOMER_APPROVAL", !.cv = @ + 1]
    BY <1>1 DEF Typed
  <2> QED
    BY ONLY <2>1, ProofedType
<1>4. CaseStep
  BY <1>1, <1>2, <1>3, DoneMoves, OrderMoves
<1>5. proof' \subseteq Proofs
  <2>1. job[worker[w].job] \in JobRow
    BY <1>1, <1>2, CommitFacts
  <2>2. Rendered(w) \in Proofs
    BY <1>2, <2>1 DEF Rendered, Proofs, JobRow
  <2> QED
    BY <1>1, <2>2 DEF Typed
<1> QED
  BY <1>1, <1>4, <1>5, RepairsKept, CommitTyped DEF Typed

LEMMA CommitEscalationTyped ==
  ASSUME Typed, NEW w \in Worker, CommitEscalation(w)
  PROVE  CaseStep /\ Typed'
<1>1. /\ worker[w].pc = "decided" /\ Commits(w) /\ Release(w) /\ job' = Done(w)
      /\ order' = [order EXCEPT !.status = "NEEDS_REVIEW", !.cv = @ + 1]
      /\ UNCHANGED <<asset, finding, clar, repair, proof, client, requests, faults>>
  BY DEF CommitEscalation, Decided
<1>2. worker[w] # Idle
  BY <1>1 DEF Idle
<1>3. /\ order' \in Order /\ order'.cv = order.cv + 1
      /\ order'.intent = order.intent /\ order'.cur = order.cur
  <2>1. order \in Order /\ order' = [order EXCEPT !.status = "NEEDS_REVIEW", !.cv = @ + 1]
    BY <1>1 DEF Typed
  <2> QED
    BY ONLY <2>1, MovedType
<1>4. CaseStep
  BY <1>1, <1>2, <1>3, DoneMoves, OrderMoves
<1> QED
  BY <1>1, <1>4, RepairsKept, CommitTyped DEF Typed

(* The repairs row is written with its job SUCCEEDED. *)
LEMMA RepairsGrow ==
  ASSUME Typed, CaseStep, NEW w \in Worker, worker[w] # Idle, Commits(w),
         job[worker[w].job].type = "repair", job'[worker[w].job].status = "SUCCEEDED",
         NEW s \in {"REPAIRED", "REJECTED"}, NEW d \in AssetId \cup {None},
         repair' = repair \cup {RepairRow(w, s, d)}
  PROVE  RepairsOK'
<1>1. /\ worker[w].job \in JobId /\ job[worker[w].job] \in JobRow
      /\ job[worker[w].job].asset \in AssetId
  BY CommitFacts
<1>2. job[worker[w].job].key \in Keys
  <2>1. job[worker[w].job] # NoJob
    BY <1>1, RowFacts DEF Typed, JobsOK
  <2>2. job[worker[w].job].key # NoKey
    BY <1>1, <2>1 DEF Typed, JobsOK, JobFits
  <2> QED
    BY <1>1, <2>2 DEF JobRow
<1>3. RepairRow(w, s, d) \in Repairs /\ RepairRow(w, s, d).job = worker[w].job
  BY <1>1, <1>2 DEF RepairRow, Repairs
<1>4. \A r \in repair : job'[r.job].status = "SUCCEEDED"
  BY JobsKept DEF Typed, RepairsOK, Repairs
<1>5. \A r \in repair' : job'[r.job].status = "SUCCEEDED"
  BY <1>3, <1>4
<1>6. repair' \subseteq Repairs
  BY <1>3 DEF Typed, RepairsOK
<1> QED
  BY <1>5, <1>6 DEF RepairsOK

LEMMA CommitRejectedTyped ==
  ASSUME Typed, NEW w \in Worker, CommitRejected(w)
  PROVE  CaseStep /\ Typed'
<1>1. /\ worker[w].pc = "loaded" /\ job[worker[w].job].type = "repair"
      /\ Commits(w) /\ Release(w) /\ job' = Done(w)
      /\ repair' = repair \cup {RepairRow(w, "REJECTED", None)}
      /\ order' = [order EXCEPT !.status = "NEEDS_REVIEW", !.cv = @ + 1]
      /\ UNCHANGED <<asset, finding, clar, proof, client, requests, faults>>
  BY DEF CommitRejected, RepairCommits, WorksOn
<1>2. worker[w] # Idle
  BY <1>1, SeenFacts
<1>3. /\ order' \in Order /\ order'.cv = order.cv + 1
      /\ order'.intent = order.intent /\ order'.cur = order.cur
  <2>1. order \in Order /\ order' = [order EXCEPT !.status = "NEEDS_REVIEW", !.cv = @ + 1]
    BY <1>1 DEF Typed
  <2> QED
    BY ONLY <2>1, MovedType
<1>4. CaseStep /\ job'[worker[w].job].status = "SUCCEEDED"
  BY <1>1, <1>2, <1>3, DoneMoves, OrderMoves
<1>5. RepairsOK'
  BY <1>1, <1>2, <1>4, RepairsGrow
<1> QED
  BY <1>1, <1>4, <1>5, CommitTyped DEF Typed

LEMMA CommitRepairedTyped ==
  ASSUME Typed, NEW w \in Worker, CommitRepaired(w)
  PROVE  CaseStep /\ Typed'
<1> DEFINE j == worker[w].job
           status == DecideArtworkStatus(RecheckedWith(w), order.intent)
<1>1. /\ worker[w].pc = "loaded" /\ job[j].type = "repair" /\ Commits(w) /\ Release(w)
      /\ finding' = [finding EXCEPT ![j] = RecheckedWith(w)]
      /\ UNCHANGED <<clar, proof, client, requests, faults>>
  BY DEF CommitRepaired, RepairCommits, WorksOn
<1>2. PICK d \in AssetId :
        /\ NextRow(asset, NoAsset, d)
        /\ asset'  = [asset EXCEPT ![d] = [kind |-> "repaired", art |-> asset[job[j].asset].art,
                                           from |-> job[j].asset]]
        /\ repair' = repair \cup {RepairRow(w, "REPAIRED", d)}
        /\ order'  = [order EXCEPT !.status = status, !.proof = "NOT_PREPARED",
                                   !.cv = order.cv + 1, !.cur = d, !.known = TRUE]
        /\ \/ Continue(w, NewJob("prepare_proof", d, order.cv + 1, NoKey, None))
           \/ job' = Done(w)
  BY DEF CommitRepaired
<1>3. /\ worker[w] # Idle /\ j \in JobId /\ order \in Order /\ order.cv \in Nat \ {0}
      /\ job[j].asset \in AssetId /\ asset[job[j].asset] \in AssetRow
  BY <1>1, SeenFacts, CommitFacts
<1>4. /\ order' \in Order /\ order'.cv = order.cv + 1
      /\ order'.intent = order.intent /\ order'.cur = d
  <2>1. PICK s \in {"BLOCKED", "AWAITING_CLARIFICATION", "RESOLVED", "NEEDS_REVIEW"} : s = status
    BY DecideType
  <2>2. order' = [order EXCEPT !.status = s, !.proof = "NOT_PREPARED",
                              !.cv = order.cv + 1, !.cur = d, !.known = TRUE]
    BY <1>2, <2>1
  <2>3. order \in Order /\ d \in AssetId
    BY <1>3
  <2>4. PICK v \in Nat \ {0} : v = order.cv + 1
    BY <1>3
  <2>5. order'  = [order EXCEPT !.status = s, !.proof = "NOT_PREPARED",
                               !.cv = v, !.cur = d, !.known = TRUE]
    BY <2>2, <2>4
  <2> QED
    BY <2>3, <2>4, <2>5 DEF Order
<1> HIDE DEF status
<1>5. /\ asset' \in Assets /\ asset'[d] # NoAsset /\ asset[d] = NoAsset
      /\ \A b \in AssetId \ {d} : asset'[b] = asset[b]
  <2>1. asset[job[j].asset].art \in ArtworkKind
    BY <1>3 DEF AssetRow
  <2> QED
    BY <1>2, <1>3, <2>1 DEF Typed, AssetsOK, Assets, AssetRow, NoAsset, NextRow
<1>6. /\ JobsStep(job, job')
      /\ \A i \in JobId : (job[i] = NoJob /\ job'[i] # NoJob) => JobFits(job'[i], order', asset')
      /\ job'[j].status = "SUCCEEDED"
  <2>1. CASE Continue(w, NewJob("prepare_proof", d, order.cv + 1, NoKey, None))
    <3>1. PICK row : row = NewJob("prepare_proof", d, order.cv + 1, NoKey, None)
      OBVIOUS
    <3>2. IsNew(row)
      BY <1>3, <3>1 DEF NewJob, IsNew, JobRow, JobType
    <3>3. row.asset = d /\ row.cv = order.cv + 1 /\ row.type # "repair"
      BY <3>1 DEF NewJob
    <3>4. JobFits(row, order', asset')
      BY <1>3, <1>4, <1>5, <3>3 DEF JobFits
    <3>5. /\ w \in Worker /\ Continue(w, row) /\ IsNew(row) /\ job \in Tables
          /\ worker[w].job \in JobId /\ job[worker[w].job].status = "RUNNING"
      BY <1>1, <1>3, <2>1, <3>1, <3>2, CommitFacts
    <3>6. job'[worker[w].job].status = "SUCCEEDED"
      BY ONLY <3>5, ContinueDoes
    <3> QED
      BY <1>1, <1>3, <2>1, <3>1, <3>2, <3>4, <3>6, ContinueMoves
  <2>2. CASE job' = Done(w)
    BY <1>1, <1>3, <2>2, DoneMoves
  <2> QED
    BY <1>2, <2>1, <2>2
<1>7. CaseStep
  <2>1. order' # order
    BY <1>3, <1>4
  <2>2. AssetsOK'
    BY <1>4, <1>5 DEF AssetsOK, None, AssetId
  <2> QED
    BY <1>4, <1>5, <1>6, <2>1, <2>2 DEF CaseStep
<1>8. finding' \in [JobId -> Seq(Finding)]
  <2>1. RecheckedWith(w) \in Seq(Finding)
    BY <1>1, FindingsType
  <2> QED
    BY <1>1, <2>1 DEF Typed
<1>9. RepairsOK'
  BY <1>1, <1>2, <1>3, <1>6, <1>7, RepairsGrow
<1> QED
  BY <1>1, <1>7, <1>8, <1>9, CommitTyped DEF Typed

LEMMA CommitQuestionTyped ==
  ASSUME Typed, NEW w \in Worker, CommitQuestion(w)
  PROVE  CaseStep /\ Typed'
<1>1. /\ worker[w].pc = "decided" /\ Commits(w) /\ Release(w) /\ job' = Done(w)
      /\ order' = [order EXCEPT !.status = "AWAITING_CLARIFICATION", !.cv = @ + 1]
      /\ UNCHANGED <<asset, finding, repair, proof, client, requests, faults>>
  BY DEF CommitQuestion, Decided
<1>2. PICK c \in ClarId :
        clar' = [clar EXCEPT ![c] = [state |-> "open", av |-> order.av, about |-> order.cur]]
  BY DEF CommitQuestion
<1>3. worker[w] # Idle
  BY <1>1 DEF Idle
<1>4. /\ order' \in Order /\ order'.cv = order.cv + 1
      /\ order'.intent = order.intent /\ order'.cur = order.cur
  <2>1. order \in Order /\ order' = [order EXCEPT !.status = "AWAITING_CLARIFICATION", !.cv = @ + 1]
    BY <1>1 DEF Typed
  <2> QED
    BY ONLY <2>1, MovedType
<1>5. CaseStep
  BY <1>1, <1>3, <1>4, DoneMoves, OrderMoves
<1>6. clar' \in Clars
  <2>1. order.cur \in AssetId /\ order.av \in Nat \ {0}
    <3>1. /\ job[worker[w].job].asset \in AssetId
          /\ asset[job[worker[w].job].asset] \in AssetRow /\ order \in Order
      BY <1>1, <1>3, CommitFacts
    <3>2. asset[job[worker[w].job].asset] # NoAsset
      BY <3>1 DEF AssetRow, NoAsset
    <3>3. order.cur # None
      BY <3>1, <3>2 DEF Typed, AssetsOK
    <3> QED
      BY <3>1, <3>3 DEF Order
  <2>2. [state |-> "open", av |-> order.av, about |-> order.cur]
          \in [state : {"open", "answered", "invalidated"}, av : Nat \ {0}, about : AssetId]
    BY <2>1
  <2> QED
    BY <1>2, <2>2 DEF Typed, Clars
<1> QED
  BY <1>1, <1>5, <1>6, RepairsKept, CommitTyped DEF Typed

LEMMA CommitAutoRepairTyped ==
  ASSUME Typed, NEW w \in Worker, CommitAutoRepair(w)
  PROVE  CaseStep /\ Typed'
<1> DEFINE a == worker[w].asset
<1>1. /\ worker[w].pc = "decided" /\ worker[w].action = "request_repair"
      /\ Commits(w) /\ Release(w)
      /\ Continue(w, NewJob("repair", a, order.cv, AutoKey(a), None))
      /\ UNCHANGED <<order, asset, finding, clar, repair, proof, client, requests, faults>>
  BY DEF CommitAutoRepair, Decided
<1>2. worker[w] # Idle
  BY <1>1 DEF Idle
<1>3. /\ a \in AssetId /\ asset[a] # NoAsset
  <2>1. HandFits(worker[w], job, asset)
    BY DEF Typed, HandsOK
  <2>2. a \in AssetId /\ asset[a].kind = "original"
    BY <1>1, <1>2, <2>1 DEF HandFits
  <2> QED
    BY <2>2 DEF NoAsset
<1> HIDE DEF a
<1>4. order.cv \in Nat \ {0}
  BY DEF Typed, Order
<1>5. AutoKey(a) \in Keys /\ AutoKey(a) # NoKey
  BY <1>3 DEF AutoKey, Keys, NoKey
<1>6. PICK row : row = NewJob("repair", a, order.cv, AutoKey(a), None)
  OBVIOUS
<1>7. IsNew(row)
  BY <1>3, <1>4, <1>5, <1>6 DEF NewJob, IsNew, JobRow, JobType
<1>8. row.asset = a /\ row.cv = order.cv /\ row.key = AutoKey(a)
  BY <1>6 DEF NewJob
<1>9. JobFits(row, order, asset)
  BY <1>3, <1>4, <1>5, <1>8 DEF JobFits
<1>10. /\ JobsStep(job, job')
       /\ \A i \in JobId : (job[i] = NoJob /\ job'[i] # NoJob) => JobFits(job'[i], order, asset)
  BY <1>1, <1>2, <1>6, <1>7, <1>9, ContinueMoves
<1>11. CaseStep
  BY <1>1, <1>10, JobsMove
<1> QED
  BY <1>1, <1>11, RepairsKept, CommitTyped DEF Typed
-----------------------------------------------------------------------------
LEMMA CommitStepTyped ==
  ASSUME Typed, NEW w \in Worker, CommitStep(w)
  PROVE  CaseStep /\ Typed'
  BY CommitInspectionTyped, CommitRepairedTyped, CommitRejectedTyped, CommitProofTyped,
     CommitQuestionTyped, CommitAutoRepairTyped, CommitEscalationTyped DEF CommitStep

LEMMA CustomersTyped ==
  ASSUME Typed, Customers
  PROVE  CaseStep /\ Typed'
<1>1. CASE \E art \in Artworks : Upload(art)
  BY <1>1, UploadTyped
<1>2. CASE \E v \in 1 .. order.cv :
             \/ \E t \in {"yes", "no"} : ConfirmTrim(t, v)
             \/ EscalateCase(v)
             \/ \E c \in ClarId, reply \in Replies : AnswerClarification(c, reply, v)
  BY <1>2, ConfirmTyped, EscalateTyped, AnswerTyped
<1>3. ASSUME NEW c \in Client,
             \/ StartRead(c)
             \/ \E k \in ClientKey : RepairReadOrder(c, k)
             \/ RepairReadDone(c)
             \/ RepairReadActive(c)
             \/ RepairReadOriginal(c)
      PROVE  CaseStep /\ Typed'
  BY <1>3, SessionReadTyped
<1>4. ASSUME NEW c \in Client, StartInsert(c) \/ RepairInsert(c)
      PROVE  CaseStep /\ Typed'
  BY <1>4, SessionInsertTyped
<1> QED
  BY <1>1, <1>2, <1>3, <1>4 DEF Customers

LEMMA StepTyped ==
  ASSUME Typed, Next
  PROVE  CaseStep /\ Typed'
<1>1. CASE Customers
  BY <1>1, CustomersTyped
<1>2. ASSUME NEW w \in Worker, Claim(w) \/ WorkStep(w) \/ Lose(w)
      PROVE  CaseStep /\ Typed'
  BY <1>2, ClaimTyped, LoadTyped, DecideTyped, CommitStepTyped, RefuseTyped, FailWorkTyped, LoseTyped
     DEF WorkStep
<1>3. ASSUME NEW i \in JobId, LeaseRunsOut(i) \/ OutrunLease(i)
      PROVE  CaseStep /\ Typed'
  BY <1>3, LeaseTyped
<1> QED
  BY <1>1, <1>2, <1>3 DEF Next

LEMMA StutterTyped ==
  ASSUME Typed, UNCHANGED vars
  PROVE  CaseStep /\ Typed'
<1>1. UNCHANGED <<order, asset, job, finding, clar, repair, proof, worker, client, requests, faults>>
  BY DEF vars
<1>2. CaseStep
  BY <1>1, StandingStill
<1> QED
  BY <1>1, <1>2, TypedAgain, Counting, HandsKept, SessionsKept, RepairsKept DEF Typed

(* What every state satisfies and every step does, for the proofs that     *)
(* build on it.                                                            *)
THEOREM AlwaysTyped == Spec => []Typed
<1>1. Init => Typed
  BY InitTyped
<1>2. Typed /\ [Next]_vars => Typed'
  BY StepTyped, StutterTyped
<1> QED
  BY <1>1, <1>2, PTL DEF Spec

(* The rows of the case are well formed in every state, none of them       *)
(* points at a row that is not there, a repair job carries its key, a      *)
(* worker holds only jobs that were claimed, and a repairs row is written  *)
(* together with the success of its job: the transactions of internal/     *)
(* store and the reads in between keep this in any number of processes.    *)
THEOREM TypeCorrect == Spec => []TypeOK
<1>1. Typed => TypeOK
  BY TypedImpliesTypeOK
<1> QED
  BY <1>1, AlwaysTyped, PTL

(* No statement of the store changes the orders row without counting       *)
(* case_version up by one, so that the version a job or a request carries  *)
(* names one state of the case.                                            *)
THEOREM VersionStampsEveryChange == Spec => VersionStampsChanges
<1>1. Typed /\ [Next]_vars => (order' # order => order'.cv = order.cv + 1)
  BY StepTyped, StutterTyped DEF CaseStep
<1>2. Typed /\ [Next]_vars => [order' # order => order'.cv = order.cv + 1]_vars
  BY <1>1
<1> QED
  BY <1>2, AlwaysTyped, PTL DEF Spec, VersionStampsChanges
-----------------------------------------------------------------------------
(* The refinement of JobQueue.  Every action is taken to the action of it  *)
(* that it stands for, or to none.  What has to be known beside the types  *)
(* is that case_version counts what happened (VersionsCounted), so that    *)
(* the versions of the queue's rows are never used up.                     *)

(* The statements of Jobs are the same in the queue and in the case. *)
LEMMA SameStatements ==
  ASSUME NEW T, NEW i, NEW w, NEW row, NEW why
  PROVE  /\ Queue!NextId(T, i) <=> NextId(T, i)
         /\ Queue!CreateJob(T, i, row) = CreateJob(T, i, row)
         /\ Queue!EnsureJobEnqueued(T, i, row) = EnsureJobEnqueued(T, i, row)
         /\ Queue!IsNextToClaim(T, i) <=> IsNextToClaim(T, i)
         /\ Queue!Claimed(T, i, w) = Claimed(T, i, w)
         /\ Queue!HoldsLease(T, i, w) <=> HoldsLease(T, i, w)
         /\ Queue!Succeeded(T, i) = Succeeded(T, i)
         /\ Queue!FailJob(T, i, w, why) = FailJob(T, i, w, why)
         /\ Queue!LeaseExpired(T, i) = LeaseExpired(T, i)
<1>1. Queue!NextId(T, i) <=> NextId(T, i)
  BY DEF Queue!NextId, NextId, Queue!NextRow, NextRow, Queue!NoJob, NoJob
<1>2. Queue!ActiveJobs(T, row.type) = ActiveJobs(T, row.type)
  BY DEF Queue!ActiveJobs, ActiveJobs, Queue!IsActive, IsActive
<1>3. Queue!CreateJob(T, i, row) = CreateJob(T, i, row)
  BY <1>2 DEF Queue!CreateJob, CreateJob
<1>4. Queue!AlreadyEnqueued(T, row) <=> AlreadyEnqueued(T, row)
  BY <1>2 DEF Queue!AlreadyEnqueued, AlreadyEnqueued
<1>5. Queue!EnsureJobEnqueued(T, i, row) = EnsureJobEnqueued(T, i, row)
  BY <1>2, <1>4 DEF Queue!EnsureJobEnqueued, EnsureJobEnqueued
<1>6. Queue!Claimable(T) = Claimable(T)
  BY DEF Queue!Claimable, Claimable
<1>7. Queue!IsNextToClaim(T, i) <=> IsNextToClaim(T, i)
  BY <1>6 DEF Queue!IsNextToClaim, IsNextToClaim
<1>8. Queue!Claimed(T, i, w) = Claimed(T, i, w)
  BY DEF Queue!Claimed, Claimed
<1>9. Queue!HoldsLease(T, i, w) <=> HoldsLease(T, i, w)
  BY DEF Queue!HoldsLease, HoldsLease
<1>10. Queue!Succeeded(T, i) = Succeeded(T, i)
  BY DEF Queue!Succeeded, Succeeded
<1>11. Queue!FailJob(T, i, w, why) = FailJob(T, i, w, why)
  BY DEF Queue!FailJob, FailJob
<1>12. Queue!LeaseExpired(T, i) = LeaseExpired(T, i)
  BY DEF Queue!LeaseExpired, LeaseExpired
<1> QED
  BY <1>1, <1>3, <1>5, <1>7, <1>8, <1>9, <1>10, <1>11, <1>12

LEMMA SameRows ==
  ASSUME NEW t, NEW a, NEW v, NEW k, NEW s
  PROVE  Queue!NewJob(t, a, v, k, s) = NewJob(t, a, v, k, s)
  BY DEF Queue!NewJob, NewJob, Queue!NoWorker, NoWorker

LEMMA SameNames ==
  /\ Queue!Idle = [pc |-> "idle", job |-> 0] /\ Queue!JobId = JobId
  /\ Queue!NoKey = NoKey /\ Queue!NoJob = NoJob /\ None = 0
  BY DEF Queue!Idle, Queue!JobId, JobId, Queue!NoKey, NoKey, Queue!NoJob, NoJob, None
-----------------------------------------------------------------------------
(* The hands of the queue. *)

HandOf(h) == [pc |-> IF h.pc \in {"idle", "void"} THEN h.pc ELSE "working", job |-> h.job]

LEMMA HandIs ==
  ASSUME NEW w \in Worker
  PROVE  QueueHand[w] = HandOf(worker[w])
  BY DEF QueueHand, HandOf

(* A worker's memory changes: so does its hand, and no other. *)
LEMMA HandMoves ==
  ASSUME Typed, NEW w \in Worker, NEW h, worker' = [worker EXCEPT ![w] = h]
  PROVE  QueueHand' = [QueueHand EXCEPT ![w] = HandOf(h)]
<1>1. worker \in [Worker -> InMemory]
  BY DEF Typed, HandsOK
<1>2. worker'[w] = h /\ \A v \in Worker \ {w} : worker'[v] = worker[v]
  BY <1>1
<1>3. QueueHand' = [v \in Worker |-> HandOf(worker'[v])]
  BY DEF QueueHand, HandOf
<1>4. QueueHand = [v \in Worker |-> HandOf(worker[v])]
  BY DEF QueueHand, HandOf
<1> HIDE DEF QueueHand, HandOf
<1> QED
  BY <1>2, <1>3, <1>4

LEMMA HandFree ==
  ASSUME Typed, NEW w \in Worker, Release(w)
  PROVE  QueueHand' = [QueueHand EXCEPT ![w] = Queue!Idle]
  BY HandMoves, SameNames DEF Release, HandOf, Idle

LEMMA HandShows ==
  ASSUME NEW w \in Worker
  PROVE  /\ QueueHand[w].job = worker[w].job
         /\ worker[w].pc \in {"idle", "void"} => QueueHand[w].pc = worker[w].pc
         /\ worker[w].pc \in {"claimed", "loaded", "decided"} => QueueHand[w].pc = "working"
<1>1. PICK h : h = worker[w]
  OBVIOUS
<1>2. /\ HandOf(h).job = h.job
      /\ h.pc \in {"idle", "void"} => HandOf(h).pc = h.pc
      /\ h.pc \in {"claimed", "loaded", "decided"} => HandOf(h).pc = "working"
  BY DEF HandOf
<1>3. QueueHand[w] = HandOf(h)
  BY <1>1, HandIs
<1> QED
  BY <1>1, <1>2, <1>3

LEMMA HandsHold ==
  ASSUME NEW i
  PROVE  Queue!InHand(i) <=> InHand(i)
<1>1. \A w \in Worker : QueueHand[w].job = worker[w].job
  BY HandShows
<1> QED
  BY <1>1 DEF Queue!InHand, InHand
-----------------------------------------------------------------------------
(* Versions are counted. *)

Ended == {j \in JobId : job[j].status = "SUCCEEDED"}
VersionsCounted == order.cv <= 1 + requests + Cardinality(Ended)

LEMMA EndedIsFinite ==
  ASSUME NEW S \in SUBSET JobId
  PROVE  IsFiniteSet(S) /\ Cardinality(S) \in Nat /\ Cardinality(S) <= MaxJobs
<1>1. PICK n \in Nat : n = MaxJobs
  BY BoundsAssumption
<1>2. IsFiniteSet(1 .. n) /\ Cardinality(1 .. n) = n
  BY FS_Interval
<1>3. S \in SUBSET (1 .. n)
  BY <1>1 DEF JobId
<1> QED
  BY <1>1, <1>2, <1>3, FS_Subset, FS_CardinalityType

LEMMA VersionsSuffice ==
  ASSUME Typed, VersionsCounted
  PROVE  order.cv \in Nat /\ \A v \in Nat \ {0} : v <= order.cv => v \in CaseVersion
<1>1. Ended \in SUBSET JobId
  BY DEF Ended
<1>2. Cardinality(Ended) \in Nat /\ Cardinality(Ended) <= MaxJobs
  BY <1>1, EndedIsFinite
<1>3. order.cv \in Nat /\ requests \in 0 .. MaxRequests /\ MaxRequests \in Nat /\ MaxJobs \in Nat
  BY BoundsAssumption DEF Typed, Order, Counters
<1> QED
  BY <1>2, <1>3 DEF VersionsCounted, CaseVersion

LEMMA VersionIsKnown == Typed /\ VersionsCounted => order.cv \in CaseVersion
  BY VersionsSuffice DEF Typed, Order

(* Whatever a worker commits, its job ends with it. *)
LEMMA CommitEnds ==
  ASSUME Typed, NEW w \in Worker, worker[w] # Idle, Commits(w),
         \/ job' = Done(w)
         \/ \E row : IsNew(row) /\ Continue(w, row)
  PROVE  \E j \in JobId : job[j].status # "SUCCEEDED" /\ job'[j].status = "SUCCEEDED"
<1>1. /\ worker[w].job \in JobId /\ job[worker[w].job].status = "RUNNING" /\ job \in Tables
  BY CommitFacts
<1>2. CASE job' = Done(w)
  BY <1>1, <1>2, DoneMoves
<1>3. ASSUME NEW row, IsNew(row), Continue(w, row)
      PROVE  job'[worker[w].job].status = "SUCCEEDED"
  BY ONLY <1>1, <1>3, ContinueDoes
<1> QED
  BY <1>1, <1>2, <1>3

(* The row a commit enqueues is well formed. *)
LEMMA FollowUpIsNew ==
  ASSUME Typed, NEW w \in Worker, worker[w] # Idle, Commits(w), NEW a \in AssetId
  PROVE  /\ IsNew(NewJob("prepare_proof", a, order.cv + 1, NoKey, None))
         /\ IsNew(NewJob("agent_decide", a, order.cv + 1, NoKey, worker[w].job))
         /\ IsNew(NewJob("repair", a, order.cv, AutoKey(a), None))
<1>1. order.cv \in Nat \ {0} /\ worker[w].job \in JobId
  BY CommitFacts
<1>2. PICK v \in Nat \ {0} : v = order.cv + 1
  BY <1>1
<1>3. AutoKey(a) \in Keys
  BY DEF AutoKey, Keys
<1>4. IsNew(NewJob("prepare_proof", a, v, NoKey, None))
  BY DEF NewJob, IsNew, JobRow, JobType
<1>5. IsNew(NewJob("agent_decide", a, v, NoKey, worker[w].job))
  BY <1>1 DEF NewJob, IsNew, JobRow, JobType
<1>6. IsNew(NewJob("repair", a, order.cv, AutoKey(a), None))
  BY <1>1, <1>3 DEF NewJob, IsNew, JobRow, JobType
<1> QED
  BY <1>2, <1>4, <1>5, <1>6

LEMMA Decisive ==
  ASSUME Typed, NEW w \in Worker, Decided(w, "request_repair")
  PROVE  worker[w].asset \in AssetId
  BY DEF Typed, HandsOK, HandFits, Decided, Idle

LEMMA CommitsEnd ==
  ASSUME Typed, NEW w \in Worker, CommitStep(w)
  PROVE  /\ requests' = requests
         /\ \E j \in JobId : job[j].status # "SUCCEEDED" /\ job'[j].status = "SUCCEEDED"
<1>1. worker[w] # Idle /\ Commits(w) /\ requests' = requests
  <2>1. CASE CommitInspection(w)
    BY <2>1 DEF CommitInspection, WorksOn, Idle
  <2>2. CASE CommitRepaired(w) \/ CommitRejected(w)
    <3>1. RepairCommits(w) /\ requests' = requests
      BY <2>2 DEF CommitRepaired, CommitRejected
    <3> QED
      BY <3>1 DEF RepairCommits, WorksOn, Idle
  <2>3. CASE CommitProof(w)
    BY <2>3 DEF CommitProof, WorksOn, Idle
  <2>4. CASE CommitQuestion(w) \/ CommitAutoRepair(w) \/ CommitEscalation(w)
    BY <2>4 DEF CommitQuestion, CommitAutoRepair, CommitEscalation, Decided, Idle
  <2> QED
    BY <2>1, <2>2, <2>3, <2>4 DEF CommitStep
<1>2. job[worker[w].job].asset \in AssetId
  BY <1>1, CommitFacts
<1>3. CASE CommitInspection(w)
  <2>1. \/ Continue(w, NewJob("prepare_proof", job[worker[w].job].asset, order.cv + 1, NoKey, None))
        \/ Continue(w, NewJob("agent_decide", job[worker[w].job].asset, order.cv + 1, NoKey,
                              worker[w].job))
        \/ job' = Done(w)
    BY <1>3 DEF CommitInspection
  <2> QED
    BY <1>1, <1>2, <2>1, FollowUpIsNew, CommitEnds
<1>4. CASE CommitRepaired(w)
  <2>1. \/ \E d \in AssetId : Continue(w, NewJob("prepare_proof", d, order.cv + 1, NoKey, None))
        \/ job' = Done(w)
    BY <1>4 DEF CommitRepaired
  <2> QED
    BY <1>1, <2>1, FollowUpIsNew, CommitEnds
<1>5. CASE CommitAutoRepair(w)
  <2>1. worker[w].asset \in AssetId
    BY <1>5, Decisive DEF CommitAutoRepair
  <2>2. Continue(w, NewJob("repair", worker[w].asset, order.cv, AutoKey(worker[w].asset), None))
    BY <1>5 DEF CommitAutoRepair
  <2> QED
    BY <1>1, <2>1, <2>2, FollowUpIsNew, CommitEnds
<1>6. CASE CommitRejected(w) \/ CommitProof(w) \/ CommitQuestion(w) \/ CommitEscalation(w)
  <2>1. job' = Done(w)
    BY <1>6 DEF CommitRejected, CommitProof, CommitQuestion, CommitEscalation
  <2> QED
    BY <1>1, <2>1, CommitEnds
<1> QED
  BY <1>1, <1>3, <1>4, <1>5, <1>6 DEF CommitStep

LEMMA VersionsStayCounted ==
  ASSUME Typed, VersionsCounted, [Next]_vars
  PROVE  VersionsCounted'
<1>1. CaseStep /\ Typed'
  BY StepTyped, StutterTyped
<1>2. Ended \in SUBSET JobId /\ Ended' \in SUBSET JobId
  BY DEF Ended
<1>3. Ended \subseteq Ended'
  BY <1>1, JobsKept DEF Ended
<1>4. PICK m \in Nat, n \in Nat : m = Cardinality(Ended) /\ n = Cardinality(Ended')
  BY <1>2, EndedIsFinite
<1>5. m <= n
  BY <1>2, <1>3, <1>4, EndedIsFinite, FS_Subset
<1>6. (\E j \in JobId : j \notin Ended /\ j \in Ended') => m < n
  <2> SUFFICES ASSUME NEW j \in JobId, j \notin Ended, j \in Ended'
               PROVE  m < n
    OBVIOUS
  <2>1. Cardinality(Ended \cup {j}) = m + 1
    BY <1>2, <1>4, EndedIsFinite, FS_AddElement
  <2>2. Cardinality(Ended \cup {j}) <= n
    BY <1>2, <1>3, <1>4, EndedIsFinite, FS_Subset
  <2> QED
    BY <2>1, <2>2
<1>7. order' = order \/ order'.cv = order.cv + 1
  BY <1>1 DEF CaseStep
<1>8. /\ order' = order => order'.cv <= order.cv
      /\ order.cv \in Nat /\ order'.cv \in Nat /\ requests \in Nat
  BY <1>1, BoundsAssumption DEF Typed, Order, Counters
<1>9. \/ order' = order /\ (requests' = requests \/ requests' = requests + 1)
      \/ requests' = requests + 1
      \/ requests' = requests /\ \E j \in JobId : j \notin Ended /\ j \in Ended'
  <2>1. ASSUME NEW w \in Worker, CommitStep(w)
        PROVE  requests' = requests /\ \E j \in JobId : j \notin Ended /\ j \in Ended'
    BY <2>1, CommitsEnd DEF Ended
  <2>2. ASSUME NEW w \in Worker, \/ Claim(w) \/ Load(w) \/ Decide(w) \/ Refuse(w) \/ FailWork(w)
                                 \/ Lose(w)
        PROVE  order' = order /\ requests' = requests
    BY <2>2 DEF Claim, Load, Decide, Refuse, FailWork, Lose
  <2>3. ASSUME NEW i \in JobId, LeaseRunsOut(i) \/ OutrunLease(i)
        PROVE  order' = order /\ requests' = requests
    BY <2>3 DEF LeaseRunsOut, OutrunLease
  <2>4. Customers => requests' = requests + 1 \/ (order' = order /\ requests' = requests)
    BY DEF Customers, Upload, ConfirmTrim, EscalateCase, AnswerClarification, StartRead, StartInsert,
           RepairReadOrder, RepairReadDone, RepairReadActive, RepairReadOriginal, RepairInsert,
           NewRequest
  <2>5. UNCHANGED vars => order' = order /\ requests' = requests
    BY DEF vars
  <2> QED
    BY <2>1, <2>2, <2>3, <2>4, <2>5 DEF Next, WorkStep
<1>10. order.cv <= 1 + requests + m
  BY <1>4 DEF VersionsCounted
<1>11. order'.cv <= 1 + requests' + n
  BY <1>5, <1>6, <1>7, <1>8, <1>9, <1>10
<1> QED
  BY <1>4, <1>11 DEF VersionsCounted
-----------------------------------------------------------------------------
(* From a step of the case to a step of the queue. *)

QueueStands == job' = job /\ QueueHand' = QueueHand /\ faults' = faults

LEMMA StandsFor ==
  ASSUME QueueStands
  PROVE  [Queue!Next]_Queue!vars
  BY DEF QueueStands, Queue!vars

LEMMA SessionMaps ==
  ASSUME Typed, VersionsCounted, NEW c \in Client, StartInsert(c) \/ RepairInsert(c)
  PROVE  Queue!Enqueue
<1>1. QueueHand' = QueueHand /\ faults' = faults
  BY DEF StartInsert, RepairInsert, QueueHand
<1>2. SessionFits(client[c], order, asset) /\ client[c].pc \in {"start", "repair insert"}
  BY DEF Typed, SessionsOK, StartInsert, RepairInsert
<1>3. client[c].asset \in AssetId /\ client[c].cv \in CaseVersion
  BY <1>2, VersionsSuffice DEF SessionFits
<1>4. CASE StartInsert(c)
  <2>1. PICK i \in JobId :
          /\ NextId(job, i)
          /\ job' = CreateJob(job, i, NewJob("inspect", client[c].asset, client[c].cv, NoKey, None))
    BY <1>4 DEF StartInsert
  <2>2. NoKey \in Queue!KeysOf("inspect")
    BY SameNames DEF Queue!KeysOf
  <2>3. /\ Queue!NextId(job, i) /\ i \in Queue!JobId
        /\ job' = Queue!CreateJob(job, i,
                    Queue!NewJob("inspect", client[c].asset, client[c].cv, NoKey, 0))
    BY <2>1, SameStatements, SameRows, SameNames
  <2> QED
    BY <1>1, <1>3, <2>2, <2>3 DEF Queue!Enqueue
<1>5. CASE RepairInsert(c)
  <2>1. PICK i \in JobId :
          /\ NextId(job, i)
          /\ job' = CreateJob(job, i,
                      NewJob("repair", client[c].asset, client[c].cv, client[c].key, None))
    BY <1>5 DEF RepairInsert
  <2>2. client[c].key \in Queue!KeysOf("repair")
    BY <1>2, <1>5, ClientKeysAreKeys DEF Queue!KeysOf, SessionFits, RepairInsert
  <2>3. /\ Queue!NextId(job, i) /\ i \in Queue!JobId
        /\ job' = Queue!CreateJob(job, i,
                    Queue!NewJob("repair", client[c].asset, client[c].cv, client[c].key, 0))
    BY <2>1, SameStatements, SameRows, SameNames
  <2> QED
    BY <1>1, <1>3, <2>2, <2>3 DEF Queue!Enqueue
<1> QED
  BY <1>4, <1>5

LEMMA AnswerMaps ==
  ASSUME Typed, order'.cv \in CaseVersion,
         NEW c \in ClarId, NEW reply \in Replies, NEW v, AnswerClarification(c, reply, v)
  PROVE  [Queue!Next]_Queue!vars
<1>1. QueueHand' = QueueHand /\ faults' = faults
  BY DEF AnswerClarification, QueueHand
<1>2. CASE order.cur = None
  BY <1>1, <1>2, StandsFor DEF AnswerClarification, QueueStands
<1>3. CASE order.cur # None
  <2>1. PICK i \in JobId :
          /\ NextId(job, i)
          /\ job' = EnsureJobEnqueued(job, i,
                      NewJob("inspect", order.cur, order.cv + 1, NoKey, None))
    BY <1>3 DEF AnswerClarification
  <2>2. order.cur \in AssetId /\ order.cv \in Nat \ {0}
    BY <1>3 DEF Typed, Order
  <2>3. order'.cv = order.cv + 1
    BY DEF AnswerClarification, Reopened, Typed, Order
  <2>4. order.cv + 1 \in CaseVersion
    BY <2>3
  <2>5. /\ Queue!NextId(job, i) /\ i \in Queue!JobId
        /\ job' = Queue!EnsureJobEnqueued(job, i,
                    Queue!NewJob("inspect", order.cur, order.cv + 1, Queue!NoKey, 0))
    BY <2>1, SameStatements, SameRows, SameNames
  <2>6. Queue!EnqueueFresh
    BY <1>1, <2>2, <2>4, <2>5 DEF Queue!EnqueueFresh
  <2> QED
    BY <2>6 DEF Queue!Next
<1> QED
  BY <1>2, <1>3

LEMMA ClaimMaps ==
  ASSUME Typed, NEW w \in Worker, Claim(w)
  PROVE  Queue!Claim(w)
<1>1. PICK i \in JobId :
        /\ IsNextToClaim(job, i)
        /\ job' = Claimed(job, i, w)
        /\ worker' = [worker EXCEPT ![w] = [pc |-> "claimed", job |-> i]]
  BY DEF Claim
<1>2. QueueHand' = [QueueHand EXCEPT ![w] = [pc |-> "working", job |-> i]]
  <2>1. PICK h : h = [pc |-> "claimed", job |-> i]
    OBVIOUS
  <2>2. HandOf(h) = [pc |-> "working", job |-> i]
    BY <2>1 DEF HandOf
  <2> QED
    BY <1>1, <2>1, <2>2, HandMoves
<1>3. QueueHand[w] = Queue!Idle
  BY HandIs, SameNames DEF Claim, Idle, HandOf
<1>4. Queue!IsNextToClaim(job, i) /\ job' = Queue!Claimed(job, i, w) /\ i \in Queue!JobId
  BY <1>1, SameStatements, SameNames
<1> QED
  BY <1>2, <1>3, <1>4 DEF Claim, Queue!Claim

(* A commit without a follow-up, and one with. *)
LEMMA DoneMaps ==
  ASSUME Typed, NEW w \in Worker, worker[w].pc \in {"loaded", "decided"}, Commits(w),
         job' = Done(w), Release(w), faults' = faults
  PROVE  Queue!Commit(w)
<1>1. QueueHand[w].pc = "working" /\ QueueHand[w].job = worker[w].job
  BY HandShows
<1>2. QueueHand' = [QueueHand EXCEPT ![w] = Queue!Idle]
  BY HandFree
<1>3. Queue!HoldsLease(job, worker[w].job, w) /\ job' = Queue!Succeeded(job, worker[w].job)
  BY SameStatements DEF Commits, Done
<1> QED
  BY <1>1, <1>2, <1>3 DEF Queue!Commit

LEMMA ContinueMaps ==
  ASSUME Typed, NEW w \in Worker, worker[w].pc \in {"loaded", "decided"}, Commits(w),
         NEW t \in Queue!FollowUp[job[worker[w].job].type],
         NEW a \in AssetId, NEW v \in CaseVersion, NEW k \in Queue!KeysOf(t),
         Continue(w, NewJob(t, a, v, k, IF t = "agent_decide" THEN worker[w].job ELSE None)),
         Release(w), faults' = faults
  PROVE  Queue!CommitAndContinue(w)
<1>1. QueueHand[w].pc = "working" /\ QueueHand[w].job = worker[w].job
  BY HandShows
<1>2. QueueHand' = [QueueHand EXCEPT ![w] = Queue!Idle]
  BY HandFree
<1>3. Queue!HoldsLease(job, worker[w].job, w)
  BY SameStatements DEF Commits
<1>4. PICK i \in JobId :
        /\ NextId(job, i)
        /\ job' = EnsureJobEnqueued(Succeeded(job, worker[w].job), i,
                    NewJob(t, a, v, k, IF t = "agent_decide" THEN worker[w].job ELSE None))
  BY DEF Continue, Done
<1>5. /\ Queue!NextId(job, i) /\ i \in Queue!JobId
      /\ job' = Queue!EnsureJobEnqueued(Queue!Succeeded(job, worker[w].job), i,
                  Queue!NewJob(t, a, v, k, IF t = "agent_decide" THEN worker[w].job ELSE 0))
  BY <1>4, SameStatements, SameRows, SameNames
<1> QED
  BY <1>1, <1>2, <1>3, <1>5 DEF Queue!CommitAndContinue

LEMMA InspectionMaps ==
  ASSUME Typed, order'.cv \in CaseVersion, NEW w \in Worker, CommitInspection(w)
  PROVE  Queue!Commit(w) \/ Queue!CommitAndContinue(w)
<1> DEFINE j == worker[w].job
<1>1. /\ worker[w].pc = "loaded" /\ job[j].type = "inspect" /\ Commits(w) /\ Release(w)
      /\ faults' = faults
      /\ \/ Continue(w, NewJob("prepare_proof", job[j].asset, order.cv + 1, NoKey, None))
         \/ Continue(w, NewJob("agent_decide", job[j].asset, order.cv + 1, NoKey, j))
         \/ job' = Done(w)
  BY DEF CommitInspection, WorksOn
<1>2. job[j].asset \in AssetId
  BY <1>1, CommitFacts DEF Idle
<1>3. order.cv + 1 \in CaseVersion
  BY DEF CommitInspection, Typed, Order
<1>4. /\ "prepare_proof" \in Queue!FollowUp[job[j].type]
      /\ "agent_decide" \in Queue!FollowUp[job[j].type]
      /\ NoKey \in Queue!KeysOf("prepare_proof") /\ NoKey \in Queue!KeysOf("agent_decide")
  BY <1>1, SameNames DEF Queue!FollowUp, Queue!KeysOf
<1> HIDE DEF j
<1>5. CASE Continue(w, NewJob("prepare_proof", job[j].asset, order.cv + 1, NoKey, None))
  BY <1>1, <1>2, <1>3, <1>4, <1>5, ContinueMaps DEF j
<1>6. CASE Continue(w, NewJob("agent_decide", job[j].asset, order.cv + 1, NoKey, j))
  BY <1>1, <1>2, <1>3, <1>4, <1>6, ContinueMaps DEF j
<1>7. CASE job' = Done(w)
  BY <1>1, <1>7, DoneMaps
<1> QED
  BY <1>1, <1>5, <1>6, <1>7

LEMMA RepairedMaps ==
  ASSUME Typed, order'.cv \in CaseVersion, NEW w \in Worker, CommitRepaired(w)
  PROVE  Queue!Commit(w) \/ Queue!CommitAndContinue(w)
<1>1. RepairCommits(w) /\ Release(w) /\ faults' = faults
  BY DEF CommitRepaired
<1>2. worker[w].pc = "loaded" /\ job[worker[w].job].type = "repair" /\ Commits(w)
  BY <1>1 DEF RepairCommits, WorksOn
<1>3. PICK d \in AssetId :
        /\ order'.cv = order.cv + 1
        /\ \/ Continue(w, NewJob("prepare_proof", d, order.cv + 1, NoKey, None))
           \/ job' = Done(w)
  BY DEF CommitRepaired, Typed, Order
<1>4. "prepare_proof" \in Queue!FollowUp["repair"] /\ NoKey \in Queue!KeysOf("prepare_proof")
  BY SameNames DEF Queue!FollowUp, Queue!KeysOf
<1>5. CASE Continue(w, NewJob("prepare_proof", d, order.cv + 1, NoKey, None))
  BY <1>1, <1>2, <1>3, <1>4, <1>5, ContinueMaps
<1>6. CASE job' = Done(w)
  BY <1>1, <1>2, <1>6, DoneMaps
<1> QED
  BY <1>3, <1>5, <1>6

LEMMA AutoRepairMaps ==
  ASSUME Typed, order'.cv \in CaseVersion, NEW w \in Worker, CommitAutoRepair(w)
  PROVE  Queue!CommitAndContinue(w)
<1> DEFINE a == worker[w].asset
<1>1. /\ Decided(w, "request_repair") /\ Commits(w) /\ Release(w) /\ UNCHANGED <<order, faults>>
      /\ Continue(w, NewJob("repair", a, order.cv, AutoKey(a), None))
  BY DEF CommitAutoRepair
<1>2. worker[w].pc = "decided" /\ a \in AssetId /\ order.cv \in CaseVersion
  BY <1>1, Decisive DEF Decided
<1>3. job[worker[w].job].type = "agent_decide"
  BY <1>2 DEF Typed, HandsOK, HandFits, Idle
<1>4. "repair" \in Queue!FollowUp["agent_decide"] /\ AutoKey(a) \in Queue!KeysOf("repair")
  BY <1>2 DEF Queue!FollowUp, Queue!KeysOf, AutoKey, Keys
<1> HIDE DEF a
<1> QED
  BY <1>1, <1>2, <1>3, <1>4, ContinueMaps

LEMMA CommitMaps ==
  ASSUME Typed, order'.cv \in CaseVersion, NEW w \in Worker, CommitStep(w)
  PROVE  Queue!Commit(w) \/ Queue!CommitAndContinue(w)
<1>1. CASE CommitRejected(w)
  <2>1. RepairCommits(w) /\ job' = Done(w) /\ Release(w) /\ faults' = faults
    BY <1>1 DEF CommitRejected
  <2> QED
    BY <2>1, DoneMaps DEF RepairCommits, WorksOn
<1>2. CASE CommitProof(w)
  BY <1>2, DoneMaps DEF CommitProof, WorksOn
<1>3. CASE CommitQuestion(w) \/ CommitEscalation(w)
  BY <1>3, DoneMaps DEF CommitQuestion, CommitEscalation, Decided
<1> QED
  BY <1>1, <1>2, <1>3, InspectionMaps, RepairedMaps, AutoRepairMaps DEF CommitStep

LEMMA LetGoMaps ==
  ASSUME Typed, NEW w \in Worker, Refuse(w) \/ FailWork(w) \/ Lose(w)
  PROVE  Queue!Refuse(w) \/ Queue!FailWork(w) \/ Queue!Lose(w)
<1>0. worker[w] \in InMemory /\ DOMAIN QueueHand = Worker
  BY DEF Typed, HandsOK, QueueHand
<1>1. CASE Refuse(w)
  <2>1. worker[w].pc \in {"loaded", "decided"} /\ UNCHANGED <<job, faults>>
    BY <1>1 DEF Refuse, ReadyToCommit
  <2>2. QueueHand[w].pc = "working" /\ QueueHand[w].job = worker[w].job
    BY <2>1, HandShows
  <2>3. QueueHand' = [QueueHand EXCEPT ![w] = [pc |-> "void", job |-> worker[w].job]]
    <3>1. PICK h : h = [pc |-> "void", job |-> worker[w].job]
      OBVIOUS
    <3>2. HandOf(h) = [pc |-> "void", job |-> worker[w].job]
      BY <3>1 DEF HandOf
    <3>3. worker' = [worker EXCEPT ![w] = h]
      BY <1>1, <3>1 DEF Refuse
    <3> QED
      BY <3>2, <3>3, HandMoves
  <2>4. [QueueHand[w] EXCEPT !.pc = "void"] = [pc |-> "void", job |-> worker[w].job]
    <3>1. PICK p, j : HandOf(worker[w]) = [pc |-> p, job |-> j]
      BY DEF HandOf
    <3>2. QueueHand[w] = [pc |-> p, job |-> j]
      BY <3>1, HandIs
    <3> QED
      BY <2>2, <3>2
  <2>5. QueueHand' = [QueueHand EXCEPT ![w].pc = "void"]
    BY <2>3, <2>4
  <2> QED
    BY <2>1, <2>2, <2>5 DEF Queue!Refuse
<1>2. CASE FailWork(w)
  <2>1. /\ worker[w].pc \in {"void", "claimed", "loaded"} /\ faults' = faults /\ Release(w)
        /\ job' = FailJob(job, worker[w].job, w, "failed")
    BY <1>2 DEF FailWork
  <2>2. QueueHand[w].pc \in {"void", "working"} /\ QueueHand[w].job = worker[w].job
    BY <2>1, HandShows
  <2>3. QueueHand' = [QueueHand EXCEPT ![w] = Queue!Idle]
    BY <2>1, HandFree
  <2>4. job' = Queue!FailJob(job, worker[w].job, w, "failed")
    BY <2>1, SameStatements
  <2> QED
    BY <2>1, <2>2, <2>3, <2>4 DEF Queue!FailWork
<1>3. CASE Lose(w)
  <2>1. worker[w].pc \in {"claimed", "void", "loaded", "decided"}
    BY <1>0, <1>3, HandFacts DEF Lose
  <2>2. QueueHand[w].pc # "idle"
    BY <2>1, HandShows
  <2>3. QueueHand[w] # Queue!Idle
    BY <2>2, SameNames
  <2>4. QueueHand' = [QueueHand EXCEPT ![w] = Queue!Idle]
    BY <1>3, HandFree DEF Lose
  <2> QED
    BY <1>3, <2>3, <2>4 DEF Lose, Queue!Lose
<1> QED
  BY <1>1, <1>2, <1>3

LEMMA StillWorking ==
  ASSUME Typed, NEW w \in Worker, NEW h, worker' = [worker EXCEPT ![w] = h],
         h.pc \in {"loaded", "decided"}, h.job = worker[w].job,
         worker[w].pc \in {"claimed", "loaded"}, UNCHANGED <<job, faults>>
  PROVE  QueueStands
<1>1. HandOf(h) = [pc |-> "working", job |-> worker[w].job]
  BY DEF HandOf
<1>2. QueueHand[w] = [pc |-> "working", job |-> worker[w].job]
  BY HandIs DEF HandOf
<1>3. QueueHand' = [QueueHand EXCEPT ![w] = QueueHand[w]]
  BY <1>1, <1>2, HandMoves
<1>4. QueueHand' = QueueHand
  BY <1>3 DEF QueueHand
<1> QED
  BY <1>4 DEF QueueStands

LEMMA ReadingStands ==
  ASSUME Typed, NEW w \in Worker, Load(w) \/ Decide(w)
  PROVE  QueueStands
<1>1. CASE Load(w)
  <2>1. PICK h : h = [pc |-> "loaded", job |-> worker[w].job, seen |-> View]
    OBVIOUS
  <2>2. h.pc = "loaded" /\ h.job = worker[w].job
    BY <2>1
  <2>3. /\ worker' = [worker EXCEPT ![w] = h] /\ worker[w].pc = "claimed"
        /\ UNCHANGED <<job, faults>>
    BY <1>1, <2>1 DEF Load
  <2> QED
    BY <2>2, <2>3, StillWorking
<1>2. CASE Decide(w)
  <2>1. PICK action, a, h :
          /\ h = [pc |-> "decided", job |-> worker[w].job, action |-> action, asset |-> a]
          /\ worker' = [worker EXCEPT ![w] = h]
    BY <1>2 DEF Decide
  <2>2. h.pc = "decided" /\ h.job = worker[w].job
    BY <2>1
  <2>3. worker[w].pc = "loaded" /\ UNCHANGED <<job, faults>>
    BY <1>2 DEF Decide
  <2> QED
    BY <2>1, <2>2, <2>3, StillWorking
<1> QED
  BY <1>1, <1>2

LEMMA LeaseMaps ==
  ASSUME Typed, NEW i \in JobId, LeaseRunsOut(i) \/ OutrunLease(i)
  PROVE  Queue!LeaseRunsOut(i) \/ Queue!OutrunLease(i)
<1>1. job' = Queue!LeaseExpired(job, i) /\ QueueHand' = QueueHand
  BY SameStatements DEF LeaseRunsOut, OutrunLease, QueueHand
<1> QED
  BY <1>1, HandsHold DEF LeaseRunsOut, OutrunLease, Queue!LeaseRunsOut, Queue!OutrunLease

LEMMA CustomersMap ==
  ASSUME Typed, VersionsCounted, order'.cv \in CaseVersion, Customers
  PROVE  [Queue!Next]_Queue!vars
<1>1. ASSUME job' = job, worker' = worker, faults' = faults
      PROVE  QueueStands
  BY <1>1 DEF QueueStands, QueueHand
<1>2. ASSUME NEW art \in Artworks, Upload(art) PROVE QueueStands
  BY <1>1, <1>2 DEF Upload
<1>3. ASSUME NEW t, NEW v, ConfirmTrim(t, v) \/ EscalateCase(v) PROVE QueueStands
  BY <1>1, <1>3 DEF ConfirmTrim, EscalateCase
<1>4. ASSUME NEW c \in Client, NEW k,
             \/ StartRead(c) \/ RepairReadOrder(c, k) \/ RepairReadDone(c) \/ RepairReadActive(c)
             \/ RepairReadOriginal(c)
      PROVE  QueueStands
  BY <1>1, <1>4 DEF StartRead, RepairReadOrder, RepairReadDone, RepairReadActive, RepairReadOriginal
<1>5. ASSUME NEW c \in Client, StartInsert(c) \/ RepairInsert(c)
      PROVE  [Queue!Next]_Queue!vars
  BY <1>5, SessionMaps DEF Queue!Next
<1> QED
  BY <1>2, <1>3, <1>4, <1>5, AnswerMaps, StandsFor DEF Customers

LEMMA StepMaps ==
  ASSUME Typed, VersionsCounted, order'.cv \in CaseVersion, [Next]_vars
  PROVE  [Queue!Next]_Queue!vars
<1>1. ASSUME NEW w \in Worker, Claim(w) \/ WorkStep(w) \/ Lose(w)
      PROVE  [Queue!Next]_Queue!vars
  <2>1. CASE Load(w) \/ Decide(w)
    BY <2>1, ReadingStands, StandsFor
  <2>2. CASE Claim(w)
    BY <2>2, ClaimMaps DEF Queue!Next
  <2>3. CASE CommitStep(w)
    BY <2>3, CommitMaps DEF Queue!Next, Queue!Finish
  <2>4. CASE Refuse(w) \/ FailWork(w) \/ Lose(w)
    BY <2>4, LetGoMaps DEF Queue!Next, Queue!Finish
  <2> QED
    BY <1>1, <2>1, <2>2, <2>3, <2>4 DEF WorkStep
<1>2. ASSUME NEW i \in JobId, LeaseRunsOut(i) \/ OutrunLease(i)
      PROVE  [Queue!Next]_Queue!vars
  BY <1>2, LeaseMaps, SameNames DEF Queue!Next
<1>3. CASE UNCHANGED vars
  BY <1>3, StandsFor DEF vars, QueueStands, QueueHand
<1> QED
  BY <1>1, <1>2, <1>3, CustomersMap DEF Next

(* The case implements the job queue, step for step: every claim, commit,  *)
(* follow-up, refusal, failure and lost lease of the pipeline is one that  *)
(* JobQueue allows, and no customer's transaction touches the jobs table   *)
(* in another way than by CreateJob and ensureJobEnqueued.  So whatever    *)
(* JobQueueProofs proves of the queue holds of the jobs of the case.       *)
THEOREM CaseImplementsQueue == Spec => QueueSpec
<1>1. Init => Queue!Init
  <2> SUFFICES ASSUME Init
               PROVE  Queue!Init
    OBVIOUS
  <2>1. QueueHand = [w \in Worker |-> Queue!Idle]
    <3>1. \A w \in Worker : HandOf(worker[w]) = Queue!Idle
      BY SameNames DEF Init, HandOf, Idle
    <3>2. QueueHand = [w \in Worker |-> HandOf(worker[w])]
      BY DEF QueueHand, HandOf
    <3> QED
      BY <3>1, <3>2
  <2>2. job = [i \in Queue!JobId |-> Queue!NoJob] /\ faults = 0
    BY SameNames DEF Init
  <2> QED
    BY <2>1, <2>2 DEF Queue!Init
<1>2. Init => VersionsCounted
  <2> SUFFICES ASSUME Init
               PROVE  VersionsCounted
    OBVIOUS
  <2>1. Ended = {}
    BY DEF Init, Ended, NoJob
  <2> QED
    BY <2>1, FS_EmptySet DEF Init, VersionsCounted
<1>3. Typed /\ VersionsCounted /\ [Next]_vars => VersionsCounted'
  BY VersionsStayCounted
<1>4. (Typed /\ VersionsCounted => order.cv \in CaseVersion)'
  BY VersionIsKnown, PTL
<1>5. Typed /\ VersionsCounted /\ Typed' /\ VersionsCounted' /\ [Next]_vars
        => [Queue!Next]_Queue!vars
  BY <1>4, StepMaps DEF CaseVersion
<1> QED
  BY <1>1, <1>2, <1>3, <1>5, AlwaysTyped, PTL DEF Spec, QueueSpec, Queue!Spec
=============================================================================

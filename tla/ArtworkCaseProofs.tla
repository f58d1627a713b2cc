------------------------- MODULE ArtworkCaseProofs -------------------------
(***************************************************************************)
(* The safety of the case.  The argument is about case_version: a job, a   *)
(* worker's memory and a customer's session each carry one, and as long as *)
(* it is the one in the order row, what they were made from is still true  *)
(* (RowBound, HandBound, SessionBound).  Every change of the order row     *)
(* takes the version away from all of them at once, and every commit asks  *)
(* for it.  On top of that, where the artwork comes from is inductive      *)
(* (Lineage), and each theorem adds the one fact it needs of its own:      *)
(* Pending jobs (ProofComes), questions without gaps, RepairRows.          *)
(***************************************************************************)
EXTENDS ArtworkCaseTypes

LatestIn(A, a) ==
    /\ a \in AssetId /\ A[a].kind = "original"
    /\ \A b \in AssetId : A[b].kind = "original" => b <= a

ViewOf(o) == [cur |-> o.cur, trim |-> o.trim, known |-> o.known, av |-> o.av]

(* A job of the current version is about the current artwork, and what was *)
(* found before it was enqueued still holds.  None has run yet, except the *)
(* decision that enqueued a repair.                                        *)
RowBound(r, o, A, fs) ==
    r.cv = o.cv =>
       /\ r.type # "repair" => r.asset = o.cur
       /\ r.type = "repair" => LatestIn(A, r.asset)
       /\ r.type = "repair" /\ r.key[1] = "auto" => o.intent = "full_bleed" /\ o.trim = "yes"
       /\ r.type = "agent_decide" =>
            /\ HasUnconfirmedTrimFinding(fs[r.src]) => o.trim = "unknown"
            /\ HasConfirmedInsufficientBleedFinding(fs[r.src]) =>
                 o.intent = "full_bleed" /\ o.trim = "yes"
       /\ r.type # "agent_decide" => r.status # "SUCCEEDED"
RowsBound == \A j \in JobId : job[j] # NoJob => RowBound(job[j], order, asset, finding)

(* What a worker read, or decided, for a job of the current version. *)
HandBound(h, J, o, A) ==
    (h # Idle /\ J[h.job].cv = o.cv) =>
       /\ h.pc = "loaded" => h.seen = ViewOf(o)
       /\ h.pc = "decided" /\ h.action = "ask_clarification" => o.trim = "unknown"
       /\ h.pc = "decided" /\ h.action = "request_repair" =>
            o.intent = "full_bleed" /\ o.trim = "yes" /\ LatestIn(A, h.asset)
HandsBound == \A w \in Worker : HandBound(worker[w], job, order, asset)

(* What a session read while the current version was the current one. *)
SessionBound(q, o, A) ==
    (q.pc # "idle" /\ q.cv = o.cv) =>
       /\ q.pc = "start" => q.asset = o.cur
       /\ q.pc = "repair insert" => LatestIn(A, q.asset)
SessionsBound == \A c \in Client : SessionBound(client[c], order, asset)

Bound == RowsBound /\ HandsBound /\ SessionsBound

(* Ids are given out without gaps. *)
Gapless(T, vacant) == \A a, b \in DOMAIN T : a < b /\ T[b] # vacant => T[a] # vacant

LEMMA Latest == \A a : IsLatestOriginal(a) <=> LatestIn(asset, a)
  BY DEF IsLatestOriginal, LatestIn, Originals

LEMMA Viewed == View = ViewOf(order)
  BY DEF View, ViewOf
-----------------------------------------------------------------------------
(* Steps that leave everything but jobs, workers and sessions alone, and   *)
(* after which no job has succeeded or been superseded.                    *)
QuietJobs ==
    \A j \in JobId : job[j] # NoJob =>
       \/ job'[j] = job[j]
       \/ /\ IsActive(job[j]) /\ SameJob(job[j], job'[j])
          /\ IsActive(job'[j]) \/ (job'[j].status = "FAILED" /\ job'[j].note = "failed")

Quiet == /\ UNCHANGED <<order, asset, finding, clar, repair, proof>>
         /\ QuietJobs

SessionStep(c) ==
    \/ StartRead(c)
    \/ StartInsert(c)
    \/ \E k \in ClientKey : RepairReadOrder(c, k)
    \/ RepairReadDone(c)
    \/ RepairReadActive(c)
    \/ RepairReadOriginal(c)
    \/ RepairInsert(c)

QuietWork(w) == Claim(w) \/ Load(w) \/ Decide(w) \/ Refuse(w) \/ FailWork(w) \/ Lose(w)

NothingNew == \A j \in JobId : job[j] = NoJob => job'[j] = NoJob

LEMMA QuietSessions ==
  ASSUME Typed, NEW c \in Client, SessionStep(c)
  PROVE  Quiet /\ worker' = worker
<1>1. /\ UNCHANGED <<order, asset, finding, clar, repair, proof, worker>>
  BY DEF SessionStep, StartRead, StartInsert, RepairReadOrder, RepairReadDone, RepairReadActive,
     RepairReadOriginal, RepairInsert
<1>2. CASE StartInsert(c) \/ RepairInsert(c)
  <2>1. PICK i, row : i \in JobId /\ NextId(job, i) /\ job' = CreateJob(job, i, row)
    BY <1>2 DEF StartInsert, RepairInsert
  <2>2. \A j \in JobId : job[j] # NoJob => job'[j] = job[j]
    BY <2>1 DEF CreateJob, NextId, NextRow, Typed, JobsOK, Tables
  <2> QED
    BY <1>1, <2>2 DEF Quiet, QuietJobs
<1>3. CASE ~(StartInsert(c) \/ RepairInsert(c))
  <2>1. job' = job
    BY <1>3 DEF SessionStep, StartRead, RepairReadOrder, RepairReadDone, RepairReadActive,
       RepairReadOriginal
  <2> QED
    BY <1>1, <2>1 DEF Quiet, QuietJobs
<1> QED
  BY <1>1, <1>2, <1>3

LEMMA QuietWorkers ==
  ASSUME Typed, NEW w \in Worker, QuietWork(w)
  PROVE  Quiet /\ client' = client /\ NothingNew
<1>1. job \in Tables
  BY DEF Typed, JobsOK
<1>2. CASE Claim(w)
  <2>1. PICK i \in JobId : IsNextToClaim(job, i) /\ job' = Claimed(job, i, w)
    BY <1>2 DEF Claim
  <2>2. job[i] \in JobRow /\ IsActive(job[i])
    BY <1>1, <2>1, RowFacts DEF IsNextToClaim, Claimable, IsActive
  <2>3. \A j \in JobId \ {i} : job'[j] = job[j]
    BY ONLY <1>1, <2>1, i \in JobId DEF Claimed, Tables
  <2>4. SameJob(job[i], job'[i]) /\ IsActive(job'[i])
    BY ONLY <1>1, <2>1, <2>2, i \in JobId DEF Claimed, Tables, JobRow, SameJob, IsActive
  <2> QED
    BY <1>2, <2>2, <2>3, <2>4 DEF Quiet, QuietJobs, Claim, NothingNew, IsActive, NoJob
<1>3. CASE FailWork(w)
  <2>1. job' = FailJob(job, worker[w].job, w, "failed") /\ worker[w].job \in JobId
    BY <1>3, InHandFacts DEF FailWork, Idle
  <2>2. \A j \in JobId : \/ job'[j] = job[j]
                         \/ /\ job'[j] \in JobRow
                            /\ job'[j].note = "failed" /\ job'[j].status = "FAILED"
    BY ONLY <1>1, <2>1, FailJobDoes
  <2>3. JobsStep(job, job')
    BY ONLY <1>1, <2>1, FailJobDoes
  <2>4. QuietJobs
    BY <2>2, <2>3 DEF QuietJobs, JobsStep
  <2>5. NothingNew
    BY <2>2, <2>3 DEF NothingNew, JobsStep, IsNew, IsActive, NoJob
  <2> QED
    BY <1>3, <2>4, <2>5 DEF Quiet, FailWork
<1>4. CASE Load(w) \/ Decide(w) \/ Refuse(w) \/ Lose(w)
  BY <1>4 DEF Load, Decide, Refuse, Lose, Quiet, QuietJobs, NothingNew
<1> QED
  BY <1>2, <1>3, <1>4 DEF QuietWork

LEMMA QuietLeases ==
  ASSUME Typed, NEW i \in JobId, LeaseRunsOut(i) \/ OutrunLease(i)
  PROVE  Quiet /\ NothingNew /\ client' = client /\ worker' = worker
<1>1. job \in Tables /\ job[i].status = "RUNNING" /\ job' = LeaseExpired(job, i)
  BY DEF Typed, JobsOK, LeaseRunsOut, OutrunLease
<1>2. job[i] \in JobRow
  BY <1>1, RowFacts
<1>3. \A j \in JobId \ {i} : job'[j] = job[j]
  BY ONLY <1>1, i \in JobId DEF LeaseExpired, Tables
<1>4. IsActive(job[i]) /\ SameJob(job[i], job'[i]) /\ IsActive(job'[i])
  BY ONLY <1>1, <1>2, i \in JobId DEF LeaseExpired, Tables, JobRow, SameJob, IsActive
<1> QED
  BY <1>3, <1>4 DEF Quiet, QuietJobs, NothingNew, NoJob, IsActive, LeaseRunsOut, OutrunLease
-----------------------------------------------------------------------------
(* The bounds over a step. *)

LEMMA InitBound == Init => Bound
<1> SUFFICES ASSUME Init PROVE Bound
  OBVIOUS
<1>1. RowsBound
  <2>1. job = [j \in JobId |-> NoJob]
    BY DEF Init
  <2> QED
    BY <2>1 DEF RowsBound
<1>2. HandsBound
  <2>1. worker = [w \in Worker |-> Idle]
    BY DEF Init
  <2> QED
    BY <2>1 DEF HandsBound, HandBound
<1>3. SessionsBound
  <2>1. client = [c \in Client |-> [pc |-> "idle"]]
    BY DEF Init
  <2> QED
    BY <2>1 DEF SessionsBound, SessionBound
<1> QED
  BY <1>1, <1>2, <1>3 DEF Bound

(* A change of the order takes the version away from every job, worker and *)
(* session there is: only the rows it inserts can carry the new one.       *)
LEMMA BoundMoves ==
  ASSUME Typed, CaseStep, order'.cv = order.cv + 1,
         \A j \in JobId : (job[j] = NoJob /\ job'[j] # NoJob) =>
                            RowBound(job'[j], order', asset', finding'),
         \A w \in Worker : worker'[w] = worker[w] \/ worker'[w] = Idle,
         client' = client
  PROVE  Bound'
<1>1. order.cv \in Nat /\ order'.cv \in Nat
  BY JobsKept
<1>2. \A n : n <= order.cv => n # order'.cv
  BY <1>1
<1>3. job \in Tables /\ job' \in Tables
  BY DEF Typed, JobsOK, CaseStep, JobsStep
<1>4. ASSUME NEW j \in JobId, job[j] # NoJob
      PROVE  job'[j].cv # order'.cv /\ job'[j].cv = job[j].cv
  <2>1. job[j].cv <= order.cv
    BY <1>4 DEF Typed, JobsOK, JobFits
  <2>2. job'[j].cv = job[j].cv
    BY <1>4, <1>3, RowFacts DEF CaseStep, JobsStep, SameJob
  <2> QED
    BY <2>1, <2>2, <1>2
<1>5. RowsBound'
  BY <1>4 DEF RowsBound, RowBound
<1>6. HandsBound'
  <2>1. ASSUME NEW w \in Worker
        PROVE  HandBound(worker'[w], job', order', asset')
    <3>1. CASE worker'[w] = Idle
      BY <3>1 DEF HandBound
    <3>2. CASE worker'[w] = worker[w] /\ worker[w] # Idle
      <4>1. worker[w].job \in JobId /\ job[worker[w].job] # NoJob
        BY <3>2, InHandFacts, <1>3, RowFacts
      <4>2. job'[worker[w].job].cv # order'.cv
        BY <4>1, <1>4
      <4> QED
        BY <3>2, <4>2 DEF HandBound
    <3> QED
      BY <3>1, <3>2
  <2> QED
    BY <2>1 DEF HandsBound
<1>7. SessionsBound'
  <2>1. ASSUME NEW c \in Client
        PROVE  SessionBound(client[c], order', asset')
    <3>1. SessionFits(client[c], order, asset)
      BY DEF Typed, SessionsOK
    <3>2. client[c].pc # "idle" => client[c].cv <= order.cv
      BY <3>1 DEF SessionFits
    <3> QED
      BY <3>2, <1>2 DEF SessionBound
  <2> QED
    BY <2>1 DEF SessionsBound
<1> QED
  BY <1>5, <1>6, <1>7 DEF Bound

(* Where the order stays, so does all that is bound to it. *)
LEMMA RowsStay ==
  ASSUME Typed, CaseStep, Bound, UNCHANGED <<order, asset, finding>>,
         \A j \in JobId : job[j] # NoJob =>
           (job'[j].status = "SUCCEEDED" => job[j].status = "SUCCEEDED" \/ job[j].type = "agent_decide"),
         \A j \in JobId : (job[j] = NoJob /\ job'[j] # NoJob) =>
                            RowBound(job'[j], order, asset, finding)
  PROVE  RowsBound'
<1>1. job \in Tables /\ job' \in Tables
  BY DEF Typed, JobsOK, CaseStep, JobsStep
<1>2. ASSUME NEW j \in JobId, job[j] # NoJob
      PROVE  RowBound(job'[j], order, asset, finding)
  <2>1. RowBound(job[j], order, asset, finding)
    BY <1>2 DEF Bound, RowsBound
  <2>2. /\ job'[j].type = job[j].type /\ job'[j].asset = job[j].asset /\ job'[j].cv = job[j].cv
        /\ job'[j].key = job[j].key /\ job'[j].src = job[j].src
    BY <1>2, <1>1, RowFacts DEF CaseStep, JobsStep, SameJob
  <2>3. job'[j].status = "SUCCEEDED" => job[j].status = "SUCCEEDED" \/ job[j].type = "agent_decide"
    BY <1>2
  <2> QED
    BY ONLY <2>1, <2>2, <2>3 DEF RowBound
<1>3. \A j \in JobId : job'[j] # NoJob => RowBound(job'[j], order, asset, finding)
  BY <1>2
<1> QED
  BY <1>3 DEF RowsBound

LEMMA HandsStay ==
  ASSUME Typed, CaseStep, Bound, UNCHANGED <<order, asset>>,
         NEW w \in Worker, worker'[w] = worker[w]
  PROVE  HandBound(worker'[w], job', order', asset')
<1>1. HandBound(worker[w], job, order, asset)
  BY DEF Bound, HandsBound
<1>2. CASE worker[w] = Idle
  BY <1>2 DEF HandBound
<1>3. CASE worker[w] # Idle
  <2>1. job'[worker[w].job].cv = job[worker[w].job].cv
    BY <1>3, InHandFacts, JobsKept DEF SameJob
  <2> QED
    BY <1>1, <2>1 DEF HandBound
<1> QED
  BY <1>2, <1>3

LEMMA SessionsStay ==
  ASSUME Bound, UNCHANGED <<order, asset>>, NEW c \in Client, client'[c] = client[c]
  PROVE  SessionBound(client'[c], order', asset')
  BY DEF Bound, SessionsBound
-----------------------------------------------------------------------------
(* Quiet steps keep the bounds. *)

LEMMA HandsChange ==
  ASSUME Typed, NEW w \in Worker, NEW h, worker' = [worker EXCEPT ![w] = h]
  PROVE  worker'[w] = h /\ \A v \in Worker \ {w} : worker'[v] = worker[v]
  BY DEF Typed, HandsOK

LEMMA SessionsChange ==
  ASSUME Typed, NEW c \in Client, NEW q, client' = [client EXCEPT ![c] = q]
  PROVE  client'[c] = q /\ \A d \in Client \ {c} : client'[d] = client[d]
<1>1. client = [d \in Client |-> client[d]]
  BY DEF Typed, SessionsOK
<1>2. DOMAIN client = Client
  BY <1>1
<1> QED
  BY <1>2

(* Hands and sessions, where one of them moves and the order stays. *)
LEMMA HandGoesOn ==
  ASSUME Typed, CaseStep, Bound, UNCHANGED <<order, asset>>,
         NEW w \in Worker, NEW h, worker' = [worker EXCEPT ![w] = h],
         HandBound(h, job', order, asset)
  PROVE  HandsBound'
<1>1. ASSUME NEW v \in Worker
      PROVE  HandBound(worker'[v], job', order', asset')
  BY HandsChange, HandsStay
<1> QED
  BY <1>1 DEF HandsBound

LEMMA SessionGoesOn ==
  ASSUME Typed, Bound, UNCHANGED <<order, asset>>,
         NEW c \in Client, NEW q, client' = [client EXCEPT ![c] = q],
         SessionBound(q, order, asset)
  PROVE  SessionsBound'
<1>1. ASSUME NEW d \in Client
      PROVE  SessionBound(client'[d], order', asset')
  BY SessionsChange, SessionsStay
<1> QED
  BY <1>1 DEF SessionsBound

LEMMA AllHandsStay ==
  ASSUME Typed, CaseStep, Bound, UNCHANGED <<order, asset, worker>>
  PROVE  HandsBound'
<1>1. ASSUME NEW v \in Worker
      PROVE  HandBound(worker'[v], job', order', asset')
  BY HandsStay
<1> QED
  BY <1>1 DEF HandsBound

LEMMA AllSessionsStay ==
  ASSUME Bound, UNCHANGED <<order, asset, client>>
  PROVE  SessionsBound'
  BY DEF Bound, SessionsBound

LEMMA QuietRows ==
  ASSUME Typed, CaseStep, Bound, Quiet,
         \A j \in JobId : (job[j] = NoJob /\ job'[j] # NoJob) =>
                            RowBound(job'[j], order, asset, finding)
  PROVE  RowsBound'
<1>1. \A j \in JobId : job[j] # NoJob =>
        (job'[j].status = "SUCCEEDED" => job[j].status = "SUCCEEDED" \/ job[j].type = "agent_decide")
  BY DEF Quiet, QuietJobs, IsActive
<1> QED
  BY <1>1, RowsStay DEF Quiet

LEMMA InsertsRow ==
  ASSUME Typed, NEW i \in JobId, NEW row, job' = CreateJob(job, i, row)
  PROVE  \A j \in JobId : job'[j] = job[j] \/ job'[j] = row
  BY DEF CreateJob, Typed, JobsOK, Tables

(* What a session inserts was read under the version the row carries. *)
LEMMA SessionsKeepBound ==
  ASSUME Typed, CaseStep, Bound, NEW c \in Client, SessionStep(c)
  PROVE  Bound'
<1>1. Quiet /\ worker' = worker
  BY QuietSessions
<1>2. HandsBound'
  BY <1>1, AllHandsStay DEF Quiet
<1>3. SessionBound(client[c], order, asset)
  BY DEF Bound, SessionsBound
<1>4. PICK q : client' = [client EXCEPT ![c] = q] /\ SessionBound(q, order, asset)
  <2>1. CASE StartRead(c)
    <3>1. PICK q : q = [pc |-> "start", asset |-> order.cur, cv |-> order.cv]
      OBVIOUS
    <3>2. SessionBound(q, order, asset)
      BY <3>1 DEF SessionBound
    <3>3. client' = [client EXCEPT ![c] = q]
      BY <2>1, <3>1 DEF StartRead
    <3> QED
      BY <3>2, <3>3
  <2>2. CASE StartInsert(c) \/ RepairInsert(c)
    <3>1. SessionBound([pc |-> "idle"], order, asset)
      BY DEF SessionBound
    <3>2. client' = [client EXCEPT ![c] = [pc |-> "idle"]]
      BY <2>2 DEF StartInsert, RepairInsert
    <3> QED
      BY <3>1, <3>2
  <2>3. ASSUME NEW k \in ClientKey, RepairReadOrder(c, k)
        PROVE  \E q : client' = [client EXCEPT ![c] = q] /\ SessionBound(q, order, asset)
    <3>1. PICK q : q = [pc |-> "repair order read", key |-> <<"client", k>>,
                        cv |-> order.cv, cur |-> order.cur]
      OBVIOUS
    <3>2. SessionBound(q, order, asset)
      BY <3>1 DEF SessionBound
    <3>3. client' = [client EXCEPT ![c] = q]
      BY <2>3, <3>1 DEF RepairReadOrder
    <3> QED
      BY <3>2, <3>3
  <2>4. CASE RepairReadDone(c)
    <3>1. PICK n : client' = [client EXCEPT ![c] =
                     [pc |-> "repair done read", key |-> client[c].key,
                      cv |-> client[c].cv, cur |-> client[c].cur, done |-> n]]
      BY <2>4 DEF RepairReadDone
    <3>2. PICK q : q = [pc |-> "repair done read", key |-> client[c].key,
                        cv |-> client[c].cv, cur |-> client[c].cur, done |-> n]
      OBVIOUS
    <3>3. SessionBound(q, order, asset)
      BY <3>2 DEF SessionBound
    <3> QED
      BY <3>1, <3>2, <3>3
  <2>5. CASE RepairReadActive(c)
    <3>1. PICK p, r : /\ p = [pc |-> "repair decided", key |-> client[c].key, cv |-> client[c].cv]
                      /\ r = [pc |-> "idle"]
      OBVIOUS
    <3>2. client' = [client EXCEPT ![c] = p] \/ client' = [client EXCEPT ![c] = r]
      BY <2>5, <3>1 DEF RepairReadActive
    <3>3. SessionBound(p, order, asset)
      BY <3>1 DEF SessionBound
    <3>4. SessionBound(r, order, asset)
      BY <3>1 DEF SessionBound
    <3> QED
      BY <3>2, <3>3, <3>4
  <2>6. CASE RepairReadOriginal(c)
    <3>1. PICK a \in AssetId :
            /\ IsLatestOriginal(a)
            /\ client' = [client EXCEPT ![c] = [pc |-> "repair insert", key |-> client[c].key,
                                                cv |-> client[c].cv, asset |-> a]]
      BY <2>6 DEF RepairReadOriginal
    <3>2. PICK q : q = [pc |-> "repair insert", key |-> client[c].key,
                        cv |-> client[c].cv, asset |-> a]
      OBVIOUS
    <3>3. LatestIn(asset, a)
      BY <3>1, Latest
    <3>4. SessionBound(q, order, asset)
      BY <3>2, <3>3 DEF SessionBound
    <3> QED
      BY <3>1, <3>2, <3>4
  <2> QED
    BY <2>1, <2>2, <2>3, <2>4, <2>5, <2>6 DEF SessionStep
<1>5. SessionsBound'
  BY <1>1, <1>4, SessionGoesOn DEF Quiet
<1>6. \A j \in JobId : (job[j] = NoJob /\ job'[j] # NoJob) =>
                         RowBound(job'[j], order, asset, finding)
  <2>1. ASSUME StartInsert(c) \/ RepairInsert(c)
        PROVE  \A j \in JobId : (job[j] = NoJob /\ job'[j] # NoJob) =>
                                RowBound(job'[j], order, asset, finding)
    <3>1. CASE StartInsert(c)
      <4>1. PICK row : row = NewJob("inspect", client[c].asset, client[c].cv, NoKey, None)
        OBVIOUS
      <4>2. PICK i \in JobId : job' = CreateJob(job, i, row)
        BY <3>1, <4>1 DEF StartInsert
      <4>3. /\ row.asset = client[c].asset /\ row.cv = client[c].cv /\ row.status = "QUEUED"
            /\ row.type = "inspect"
        BY <4>1 DEF NewJob
      <4>4. RowBound(row, order, asset, finding)
        BY <3>1, <1>3, <4>3 DEF RowBound, SessionBound, StartInsert
      <4> QED
        BY <4>2, <4>4, InsertsRow
    <3>2. CASE RepairInsert(c)
      <4>1. PICK row : row = NewJob("repair", client[c].asset, client[c].cv, client[c].key, None)
        OBVIOUS
      <4>2. PICK i \in JobId : job' = CreateJob(job, i, row)
        BY <3>2, <4>1 DEF RepairInsert
      <4>3. /\ row.asset = client[c].asset /\ row.cv = client[c].cv /\ row.status = "QUEUED"
            /\ row.type = "repair" /\ row.key = client[c].key
        BY <4>1 DEF NewJob
      <4>4. client[c].pc = "repair insert"
        BY <3>2 DEF RepairInsert
      <4>5. client[c].key \in ClientKeys
        BY <4>4 DEF Typed, SessionsOK, SessionFits
      <4>6. client[c].key[1] # "auto"
        BY <4>5 DEF ClientKeys
      <4>7. RowBound(row, order, asset, finding)
        BY <1>3, <4>3, <4>4, <4>6 DEF RowBound, SessionBound
      <4> QED
        BY <4>2, <4>7, InsertsRow
    <3> QED
      BY <2>1, <3>1, <3>2
  <2>2. CASE ~(StartInsert(c) \/ RepairInsert(c))
    <3>1. job' = job
      BY <2>2 DEF SessionStep, StartRead, RepairReadOrder, RepairReadDone, RepairReadActive,
         RepairReadOriginal
    <3> QED
      BY <3>1
  <2> QED
    BY <2>1, <2>2
<1>7. RowsBound'
  BY <1>1, <1>6, QuietRows
<1> QED
  BY <1>2, <1>5, <1>7 DEF Bound

LEMMA WorkersKeepBound ==
  ASSUME Typed, CaseStep, Bound, NEW w \in Worker, QuietWork(w)
  PROVE  Bound'
<1>1. Quiet /\ client' = client /\ NothingNew
  BY QuietWorkers
<1>2. RowsBound'
  BY <1>1, QuietRows DEF NothingNew
<1>3. SessionsBound'
  BY <1>1, AllSessionsStay DEF Quiet
<1>4. PICK h : worker' = [worker EXCEPT ![w] = h] /\ HandBound(h, job', order, asset)
  <2>1. CASE Claim(w)
    <3>1. PICK i \in JobId : worker' = [worker EXCEPT ![w] = [pc |-> "claimed", job |-> i]]
      BY <2>1 DEF Claim
    <3>2. PICK h : h = [pc |-> "claimed", job |-> i]
      OBVIOUS
    <3>3. HandBound(h, job', order, asset)
      BY <3>2 DEF HandBound
    <3> QED
      BY <3>1, <3>2, <3>3
  <2>2. CASE Load(w)
    <3>1. PICK h : h = [pc |-> "loaded", job |-> worker[w].job, seen |-> View]
      OBVIOUS
    <3>2. HandBound(h, job', order, asset)
      BY <3>1, Viewed DEF HandBound
    <3>3. worker' = [worker EXCEPT ![w] = h]
      BY <2>2, <3>1 DEF Load
    <3> QED
      BY <3>2, <3>3
  <2>3. CASE Decide(w)
    <3>1. PICK action \in {"ask_clarification", "request_repair", "escalate"}, a \in AssetId \cup {None} :
            /\ Decision(w, action, a)
            /\ worker' = [worker EXCEPT ![w] = [pc |-> "decided", job |-> worker[w].job,
                                                action |-> action, asset |-> a]]
      BY <2>3 DEF Decide
    <3>2. PICK h : h = [pc |-> "decided", job |-> worker[w].job, action |-> action, asset |-> a]
      OBVIOUS
    <3>3. /\ worker[w].job \in JobId /\ job[worker[w].job] # NoJob
          /\ job[worker[w].job].type = "agent_decide" /\ job' = job
      <4>1. worker[w] # Idle /\ job \in Tables
        BY <2>3 DEF Decide, Idle, Typed, JobsOK
      <4> QED
        BY <4>1, <2>3, InHandFacts, RowFacts DEF Decide
    <3>4. RowBound(job[worker[w].job], order, asset, finding)
      BY <3>3 DEF Bound, RowsBound
    <3>5. action = "ask_clarification" =>
            HasUnconfirmedTrimFinding(finding[job[worker[w].job].src])
      BY <3>1 DEF Decision
    <3>6. action = "request_repair" =>
            /\ HasConfirmedInsufficientBleedFinding(finding[job[worker[w].job].src])
            /\ LatestIn(asset, a)
      BY <3>1, Latest DEF Decision
    <3>7. HandBound(h, job', order, asset)
      BY <3>2, <3>3, <3>4, <3>5, <3>6 DEF HandBound, RowBound
    <3> QED
      BY <3>1, <3>2, <3>7
  <2>4. CASE Refuse(w)
    <3>1. PICK h : h = [pc |-> "void", job |-> worker[w].job]
      OBVIOUS
    <3>2. HandBound(h, job', order, asset)
      BY <3>1 DEF HandBound
    <3>3. worker' = [worker EXCEPT ![w] = h]
      BY <2>4, <3>1 DEF Refuse
    <3> QED
      BY <3>2, <3>3
  <2>5. CASE FailWork(w) \/ Lose(w)
    <3>1. HandBound(Idle, job', order, asset)
      BY DEF HandBound
    <3>2. worker' = [worker EXCEPT ![w] = Idle]
      BY <2>5 DEF FailWork, Lose, Release
    <3> QED
      BY <3>1, <3>2
  <2> QED
    BY <2>1, <2>2, <2>3, <2>4, <2>5 DEF QuietWork
<1>5. HandsBound'
  BY <1>1, <1>4, HandGoesOn DEF Quiet
<1> QED
  BY <1>2, <1>3, <1>5 DEF Bound

LEMMA LeasesKeepBound ==
  ASSUME Typed, CaseStep, Bound, NEW i \in JobId, LeaseRunsOut(i) \/ OutrunLease(i)
  PROVE  Bound'
<1>1. Quiet /\ NothingNew /\ client' = client /\ worker' = worker
  BY QuietLeases
<1>2. RowsBound'
  BY <1>1, QuietRows DEF NothingNew
<1> QED
  BY <1>1, <1>2, AllHandsStay, AllSessionsStay DEF Quiet, Bound
-----------------------------------------------------------------------------
(* What the rules say about an artwork. *)

LEMMA ThreeFindings ==
  ASSUME NEW S, NEW f \in S, NEW g \in S, NEW h \in S
  PROVE  LET t == Append(<<f, g>>, h)
         IN  DOMAIN t = 1 .. 3 /\ t[1] = f /\ t[2] = g /\ t[3] = h
  OBVIOUS

LEMMA Reported ==
  ASSUME NEW intent \in Intent, NEW trim \in Trim, NEW explicit \in BOOLEAN, NEW art \in ArtworkKind
  PROVE  LET fs == Inspect(intent, trim, explicit, art)
         IN  /\ 1 \in DOMAIN fs /\ fs[1] = CheckResolution(intent, trim, explicit, art)
             /\ 2 \in DOMAIN fs /\ fs[2] = CheckColor(art)
             /\ intent = "full_bleed" =>
                  3 \in DOMAIN fs /\ fs[3] = CheckBleed(intent, trim, explicit)
             /\ \A n \in DOMAIN fs :
                  \/ fs[n] = CheckResolution(intent, trim, explicit, art)
                  \/ fs[n] = CheckColor(art)
                  \/ intent = "full_bleed" /\ fs[n] = CheckBleed(intent, trim, explicit)
<1>1. PICK f, g, h :
        /\ f = CheckResolution(intent, trim, explicit, art)
        /\ g = CheckColor(art) /\ h = CheckBleed(intent, trim, explicit)
  OBVIOUS
<1>2. Inspect(intent, trim, explicit, art) =
        IF intent = "full_bleed" THEN Append(<<f, g>>, h) ELSE <<f, g>>
  BY <1>1 DEF Inspect
<1>3. CASE intent = "full_bleed"
  <2>1. PICK t : t = Append(<<f, g>>, h)
    OBVIOUS
  <2>2. DOMAIN t = 1 .. 3 /\ t[1] = f /\ t[2] = g /\ t[3] = h
    <3>1. f \in {f, g, h} /\ g \in {f, g, h} /\ h \in {f, g, h}
      OBVIOUS
    <3> QED
      BY ONLY <2>1, <3>1, ThreeFindings
  <2>3. \A n \in DOMAIN t : t[n] = f \/ t[n] = g \/ t[n] = h
    BY <2>2
  <2>4. 1 \in DOMAIN t /\ 2 \in DOMAIN t /\ 3 \in DOMAIN t
    BY <2>2
  <2>5. Inspect(intent, trim, explicit, art) = t
    BY <1>2, <1>3, <2>1
  <2> QED
    BY ONLY <1>1, <1>3, <2>2, <2>3, <2>4, <2>5
<1>4. CASE intent # "full_bleed"
  BY <1>1, <1>2, <1>4
<1> QED
  BY <1>3, <1>4

(* The reasons that let the agent act are only given for what the order    *)
(* says about the trim. *)
LEMMA ReasonsHold ==
  ASSUME NEW intent \in Intent, NEW trim \in Trim, NEW explicit \in BOOLEAN, NEW art \in ArtworkKind
  PROVE  LET fs == Inspect(intent, trim, explicit, art)
         IN  /\ HasUnconfirmedTrimFinding(fs) => trim = "unknown"
             /\ HasConfirmedInsufficientBleedFinding(fs) => intent = "full_bleed" /\ trim = "yes"
<1> DEFINE fs == Inspect(intent, trim, explicit, art)
<1>1. CheckColor(art).why = "none"
  BY DEF CheckColor, F
<1>2. CheckResolution(intent, trim, explicit, art).why = "trim not confirmed" => trim = "unknown"
  BY DEF CheckResolution, F, UnresolvedTrimReason, TrimResolved, Intent, Trim
<1>3. CheckBleed(intent, trim, explicit).why = "trim not confirmed" => trim = "unknown"
  BY DEF CheckBleed, F, UnresolvedTrimReason, TrimResolved, Intent, Trim
<1>4. intent = "full_bleed" /\ CheckBleed(intent, trim, explicit).why = "short bleed" => trim = "yes"
  BY DEF CheckBleed, F, UnresolvedTrimReason, TrimResolved
<1>5. CheckResolution(intent, trim, explicit, art).check = "resolution" /\ CheckColor(art).check = "color"
  BY DEF CheckResolution, CheckColor, F
<1>6. \A n \in DOMAIN fs :
        \/ fs[n] = CheckResolution(intent, trim, explicit, art)
        \/ fs[n] = CheckColor(art)
        \/ intent = "full_bleed" /\ fs[n] = CheckBleed(intent, trim, explicit)
  BY Reported
<1> HIDE DEF fs
<1>7. HasUnconfirmedTrimFinding(fs) => trim = "unknown"
  BY <1>1, <1>2, <1>3, <1>6 DEF HasUnconfirmedTrimFinding
<1>8. HasConfirmedInsufficientBleedFinding(fs) => intent = "full_bleed" /\ trim = "yes"
  BY <1>4, <1>5, <1>6 DEF HasConfirmedInsufficientBleedFinding
<1> QED
  BY <1>7, <1>8 DEF fs

(* What RESOLVED says about the artwork that was inspected. *)
LEMMA ResolvedSays ==
  ASSUME NEW intent \in Intent, NEW trim \in Trim, NEW explicit \in BOOLEAN, NEW art \in ArtworkKind,
         DecideArtworkStatus(Inspect(intent, trim, explicit, art), intent) = "RESOLVED"
  PROVE  art.ppi = "ok" /\ art.color # "NEEDS_REVIEW" /\ (intent = "full_bleed" => explicit)
<1> DEFINE fs == Inspect(intent, trim, explicit, art)
<1>1. /\ 1 \in DOMAIN fs /\ fs[1] = CheckResolution(intent, trim, explicit, art)
      /\ 2 \in DOMAIN fs /\ fs[2] = CheckColor(art)
      /\ intent = "full_bleed" => 3 \in DOMAIN fs /\ fs[3] = CheckBleed(intent, trim, explicit)
  BY Reported
<1> HIDE DEF fs
<1>2. /\ ~Malformed(fs, intent)
      /\ ~HasResult(fs, intent, "NEEDS_REVIEW") /\ ~HasResult(fs, intent, "NEEDS_INPUT")
  BY DEF DecideArtworkStatus, fs
<1>3. \A n \in DOMAIN fs : fs[n].result \notin {"NEEDS_REVIEW", "NEEDS_INPUT"}
  BY <1>2 DEF Malformed, HasResult
<1>4. art.ppi = "ok"
  <2>1. CheckResolution(intent, trim, explicit, art).result # "NEEDS_INPUT"
    BY <1>1, <1>3
  <2> QED
    BY <2>1 DEF CheckResolution, F, ArtworkKind
<1>5. art.color # "NEEDS_REVIEW"
  <2>1. CheckColor(art).result # "NEEDS_REVIEW"
    BY <1>1, <1>3
  <2> QED
    BY <2>1 DEF CheckColor, F
<1>6. intent = "full_bleed" => explicit
  <2>1. intent = "full_bleed" =>
          CheckBleed(intent, trim, explicit).result \notin {"NEEDS_REVIEW", "NEEDS_INPUT"}
    BY <1>1, <1>3
  <2> QED
    BY <2>1 DEF CheckBleed, F
<1> QED
  BY <1>4, <1>5, <1>6
-----------------------------------------------------------------------------
(* Transactions keep the bounds. *)

LEMMA Continued ==
  ASSUME Typed, NEW w \in Worker, worker[w] # Idle, Commits(w),
         NEW row, IsNew(row), Continue(w, row)
  PROVE  /\ job'[worker[w].job].status = "SUCCEEDED"
         /\ \A j \in JobId : job[j] = NoJob => job'[j] = NoJob \/ job'[j] = row
         /\ \A k \in JobId \ {worker[w].job} :
              \/ job'[k] = job[k]
              \/ job[k] = NoJob /\ job'[k] = row
              \/ IsActive(job[k]) /\ job[k].type = row.type /\ job'[k] = Superseded(job[k])
         /\ \E k \in JobId \ {worker[w].job} :
              /\ job'[k] \in JobRow /\ IsActive(job'[k]) /\ job'[k].type = row.type
              /\ job'[k].asset = row.asset /\ job'[k].cv = row.cv
              /\ job'[k] = row \/ job'[k] = job[k]
<1>1. /\ job \in Tables /\ worker[w].job \in JobId /\ job[worker[w].job].status = "RUNNING"
      /\ job[worker[w].job] \in JobRow
  BY CommitFacts
<1>2. IsNew(row) /\ Continue(w, row) /\ w \in Worker
  OBVIOUS
<1>3. job'[worker[w].job].status = "SUCCEEDED"
  BY ONLY <1>1, <1>2, ContinueDoes
<1>4. \A k \in JobId \ {worker[w].job} :
        \/ job'[k] = job[k]
        \/ job[k] = NoJob /\ job'[k] = row
        \/ IsActive(job[k]) /\ job[k].type = row.type /\ job'[k] = Superseded(job[k])
  BY ONLY <1>1, <1>2, ContinueDoes
<1>5. \E k \in JobId \ {worker[w].job} :
        /\ job'[k] \in JobRow /\ IsActive(job'[k]) /\ job'[k].type = row.type
        /\ job'[k].asset = row.asset /\ job'[k].cv = row.cv
        /\ job'[k] = row \/ job'[k] = job[k]
  BY ONLY <1>1, <1>2, ContinueDoes
<1>6. job[worker[w].job] # NoJob
  BY <1>1, RowFacts
<1>7. \A j \in JobId : job[j] = NoJob => job'[j] = NoJob \/ job'[j] = row
  BY <1>4, <1>6 DEF IsActive, NoJob
<1> QED
  BY <1>3, <1>4, <1>5, <1>7

LEMMA HandReleased ==
  ASSUME Typed, NEW w \in Worker, Release(w)
  PROVE  \A v \in Worker : worker'[v] = worker[v] \/ worker'[v] = Idle
  BY DEF Typed, HandsOK, Release

LEMMA NoRowsBound ==
  ASSUME Typed, CaseStep, order'.cv = order.cv + 1, NothingNew,
         \A w \in Worker : worker'[w] = worker[w] \/ worker'[w] = Idle, client' = client
  PROVE  Bound'
  BY BoundMoves DEF NothingNew

LEMMA OneRowBound ==
  ASSUME Typed, CaseStep, order'.cv = order.cv + 1,
         NEW row, \A j \in JobId : job[j] = NoJob => job'[j] = NoJob \/ job'[j] = row,
         RowBound(row, order', asset', finding'),
         \A w \in Worker : worker'[w] = worker[w] \/ worker'[w] = Idle, client' = client
  PROVE  Bound'
<1>1. \A j \in JobId : (job[j] = NoJob /\ job'[j] # NoJob) =>
                         RowBound(job'[j], order', asset', finding')
  OBVIOUS
<1> QED
  BY <1>1, BoundMoves

LEMMA EnqueuesRow ==
  ASSUME NEW T \in Tables, NEW i \in JobId, NEW row, NEW j \in JobId, T[j] = NoJob
  PROVE  EnsureJobEnqueued(T, i, row)[j] \in {NoJob, row}
<1>1. ~IsActive(T[j]) /\ DOMAIN T = JobId
  BY DEF IsActive, NoJob, Tables
<1>2. j \notin ActiveJobs(T, row.type)
  BY <1>1 DEF ActiveJobs
<1> QED
  BY <1>1, <1>2 DEF EnsureJobEnqueued

(* What the order becomes in each of the transactions. *)
LEMMA OrderAfterRequest ==
  ASSUME Typed
  PROVE  /\ \A art \in Artworks : Upload(art) => order'.cv = order.cv + 1
         /\ \A v : \A t \in {"yes", "no"} : ConfirmTrim(t, v) => order'.cv = order.cv + 1
         /\ \A v : EscalateCase(v) => order'.cv = order.cv + 1
         /\ \A v : \A c \in ClarId, r \in Replies :
               AnswerClarification(c, r, v) => order'.cv = order.cv + 1 /\ order'.cur = order.cur
<1>1. order \in Order
  BY DEF Typed
<1>2. ASSUME NEW art \in Artworks, Upload(art)
      PROVE  order'.cv = order.cv + 1
  <2>1. PICK a \in AssetId : order' = Uploaded(order, a)
    BY <1>2 DEF Upload
  <2> QED
    BY <1>1, <2>1, UploadedType
<1>3. \A v : \A t \in {"yes", "no"} : ConfirmTrim(t, v) => order'.cv = order.cv + 1
  BY <1>1, ReopenedType DEF ConfirmTrim
<1>4. \A v : EscalateCase(v) => order'.cv = order.cv + 1
  <2>1. \A v : EscalateCase(v) => order' = [order EXCEPT !.status = "NEEDS_REVIEW", !.cv = @ + 1]
    BY DEF EscalateCase
  <2>2. [order EXCEPT !.status = "NEEDS_REVIEW", !.cv = @ + 1].cv = order.cv + 1
    BY ONLY <1>1, MovedType
  <2> QED
    BY <2>1, <2>2
<1>5. ASSUME NEW c \in ClarId, NEW r \in Replies, NEW v, AnswerClarification(c, r, v)
      PROVE  order'.cv = order.cv + 1 /\ order'.cur = order.cur
  <2>1. PICK t \in {"yes", "no"} : order' = Reopened(order, t)
    BY <1>5, InterpretedReply DEF AnswerClarification
  <2> QED
    BY <1>1, <2>1, ReopenedType
<1> QED
  BY <1>2, <1>3, <1>4, <1>5

LEMMA RequestsKeepBound ==
  ASSUME Typed, CaseStep, Bound,
         \/ \E art \in Artworks : Upload(art)
         \/ \E t \in {"yes", "no"}, v \in 1 .. order.cv : ConfirmTrim(t, v)
         \/ \E v \in 1 .. order.cv : EscalateCase(v)
         \/ \E v \in 1 .. order.cv, c \in ClarId, r \in Replies : AnswerClarification(c, r, v)
  PROVE  Bound'
<1>1. order'.cv = order.cv + 1
  BY OrderAfterRequest
<1>2. worker' = worker /\ client' = client
  BY DEF Upload, ConfirmTrim, EscalateCase, AnswerClarification
<1>3. CASE job' = job
  BY <1>1, <1>2, <1>3, NoRowsBound DEF NothingNew
<1>4. ASSUME NEW v \in 1 .. order.cv, NEW c \in ClarId, NEW r \in Replies,
             AnswerClarification(c, r, v), job' # job
      PROVE  Bound'
  <2>1. PICK row : row = NewJob("inspect", order.cur, order.cv + 1, NoKey, None)
    OBVIOUS
  <2>2. PICK i \in JobId : NextId(job, i) /\ job' = EnsureJobEnqueued(job, i, row)
    BY <1>4, <2>1 DEF AnswerClarification
  <2>3. \A j \in JobId : job[j] = NoJob => job'[j] = NoJob \/ job'[j] = row
    <3>1. job \in Tables
      BY DEF Typed, JobsOK
    <3> QED
      BY <2>2, <3>1, EnqueuesRow
  <2>4. /\ row.asset = order.cur /\ row.cv = order.cv + 1
        /\ row.status = "QUEUED" /\ row.type = "inspect"
    BY <2>1 DEF NewJob
  <2>5. order'.cur = order.cur
    BY <1>4, OrderAfterRequest
  <2>6. RowBound(row, order', asset', finding')
    BY <2>4, <2>5 DEF RowBound
  <2> QED
    BY <1>1, <1>2, <2>3, <2>6, OneRowBound
<1> QED
  BY <1>3, <1>4 DEF Upload, ConfirmTrim, EscalateCase

(* What a commit relies on is what the order row says now. *)
LEMMA SeenIsCurrent ==
  ASSUME Typed, Bound, NEW w \in Worker, worker[w].pc = "loaded", Commits(w)
  PROVE  /\ worker[w].seen = ViewOf(order)
         /\ job[worker[w].job].type # "repair" => job[worker[w].job].asset = order.cur
         /\ job[worker[w].job].type = "repair" => LatestIn(asset, job[worker[w].job].asset)
<1>1. worker[w] # Idle
  BY SeenFacts
<1>2. worker[w].job \in JobId /\ job[worker[w].job] # NoJob /\ job[worker[w].job].cv = order.cv
  BY <1>1, CommitFacts, RowFacts
<1>3. HandBound(worker[w], job, order, asset)
  BY DEF Bound, HandsBound
<1>4. RowBound(job[worker[w].job], order, asset, finding)
  BY <1>2 DEF Bound, RowsBound
<1>5. worker[w].seen = ViewOf(order)
  BY <1>1, <1>2, <1>3 DEF HandBound
<1> QED
  BY <1>2, <1>4, <1>5 DEF RowBound

LEMMA DecisionHolds ==
  ASSUME Typed, Bound, NEW w \in Worker, worker[w].pc = "decided", Commits(w)
  PROVE  /\ worker[w] # Idle /\ job[worker[w].job].type = "agent_decide"
         /\ worker[w].action = "ask_clarification" => order.trim = "unknown"
         /\ worker[w].action = "request_repair" =>
              /\ order.intent = "full_bleed" /\ order.trim = "yes"
              /\ LatestIn(asset, worker[w].asset)
<1>1. worker[w] # Idle
  BY DEF Idle
<1>2. job[worker[w].job].cv = order.cv
  BY <1>1, CommitFacts
<1>3. HandBound(worker[w], job, order, asset)
  BY DEF Bound, HandsBound
<1>4. HandFits(worker[w], job, asset)
  BY DEF Typed, HandsOK
<1>5. job[worker[w].job].type = "agent_decide"
  BY <1>1, <1>4 DEF HandFits
<1> QED
  BY <1>1, <1>2, <1>3, <1>5 DEF HandBound

(* The inputs of the image service, as constants the lemmas about its      *)
(* rules can be applied to.                                                *)
LEMMA InspectsCurrent ==
  ASSUME Typed, Bound, NEW w \in Worker, WorksOn(w, "inspect"), Commits(w)
  PROVE  \E intent \in Intent, trim \in Trim, e \in BOOLEAN, art \in ArtworkKind :
           /\ intent = order.intent /\ trim = order.trim /\ e = order.known
           /\ order.cur \in AssetId /\ asset[order.cur] \in AssetRow /\ art = asset[order.cur].art
           /\ InspectedWith(w) = Inspect(intent, trim, e, art)
<1>1. /\ worker[w].seen = ViewOf(order)
      /\ job[worker[w].job].asset = order.cur
  BY SeenIsCurrent DEF WorksOn
<1>2. order.cur \in AssetId /\ asset[order.cur] \in AssetRow
  <2>1. worker[w] # Idle
    BY SeenFacts DEF WorksOn
  <2> QED
    BY <1>1, <2>1, InHandFacts
<1>3. PICK intent \in Intent, trim \in Trim : intent = order.intent /\ trim = order.trim
  BY DEF Typed, Order
<1>4. PICK art \in ArtworkKind : art = asset[order.cur].art
  BY <1>2 DEF AssetRow
<1>5. order.known \in BOOLEAN
  BY Zenon DEF Typed, Order
<1>6. PICK e \in BOOLEAN : e = order.known
  BY <1>5
<1>7. /\ worker[w].seen.trim = trim /\ worker[w].seen.cur = order.cur /\ worker[w].seen.known = order.known
  BY <1>1, <1>3 DEF ViewOf
<1>8. (worker[w].seen.cur = order.cur /\ worker[w].seen.known) = e
  BY <1>6, <1>7
<1>9. InspectedWith(w) = Inspect(intent, trim, e, art)
  BY <1>1, <1>3, <1>4, <1>7, <1>8 DEF InspectedWith
<1> QED
  BY <1>2, <1>3, <1>4, <1>6, <1>9

LEMMA InspectionKeepsBound ==
  ASSUME Typed, CaseStep, Bound, NEW w \in Worker, CommitInspection(w)
  PROVE  Bound'
<1> DEFINE j == worker[w].job
<1>1. /\ WorksOn(w, "inspect") /\ Commits(w) /\ Release(w) /\ client' = client
      /\ finding' = [finding EXCEPT ![j] = InspectedWith(w)]
      /\ order'   = [order EXCEPT !.status = DecideArtworkStatus(InspectedWith(w), order.intent),
                                  !.proof = "NOT_PREPARED", !.cv = order.cv + 1]
      /\ asset' = asset
      /\ \/ Continue(w, NewJob("prepare_proof", job[j].asset, order.cv + 1, NoKey, None))
         \/ Continue(w, NewJob("agent_decide", job[j].asset, order.cv + 1, NoKey, j))
         \/ job' = Done(w)
  BY DEF CommitInspection
<1>2. worker[w].pc = "loaded" /\ worker[w] # Idle /\ job[j].type = "inspect"
  BY <1>1, SeenFacts DEF WorksOn
<1>3. job[j].asset = order.cur
  BY <1>1, <1>2, SeenIsCurrent
<1>4. j \in JobId /\ order \in Order /\ order.cv \in Nat \ {0} /\ job[j].asset \in AssetId
  BY <1>1, <1>2, CommitFacts
<1>5. /\ order'.cv = order.cv + 1 /\ order'.cur = order.cur
      /\ order'.intent = order.intent /\ order'.trim = order.trim
  BY <1>1, <1>4 DEF Order
<1>6. /\ HasUnconfirmedTrimFinding(InspectedWith(w)) => order.trim = "unknown"
      /\ HasConfirmedInsufficientBleedFinding(InspectedWith(w)) =>
           order.intent = "full_bleed" /\ order.trim = "yes"
  BY <1>1, InspectsCurrent, ReasonsHold
<1>7. finding'[j] = InspectedWith(w)
  BY <1>1, <1>4 DEF Typed
<1>8. ASSUME NEW row, NEW t \in {"prepare_proof", "agent_decide"}, NEW s \in JobId \cup {None},
             t = "agent_decide" => s = j,
             row = NewJob(t, job[j].asset, order.cv + 1, NoKey, s), Continue(w, row)
      PROVE  Bound'
  <2>1. IsNew(row)
    BY <1>4, <1>8 DEF NewJob, IsNew, JobRow, JobType
  <2>2. /\ row.asset = order.cur /\ row.cv = order.cv + 1 /\ row.type = t
        /\ row.src = s /\ row.status = "QUEUED"
    BY <1>3, <1>8 DEF NewJob
  <2>3. \A i \in JobId : job[i] = NoJob => job'[i] = NoJob \/ job'[i] = row
    BY <1>1, <1>2, <1>8, <2>1, Continued
  <2>4. RowBound(row, order', asset', finding')
    BY <1>5, <1>6, <1>7, <1>8, <2>2 DEF RowBound
  <2> QED
    BY <1>1, <1>5, <2>3, <2>4, OneRowBound, HandReleased
<1>9. CASE Continue(w, NewJob("prepare_proof", job[j].asset, order.cv + 1, NoKey, None))
  BY <1>8, <1>9
<1>10. CASE Continue(w, NewJob("agent_decide", job[j].asset, order.cv + 1, NoKey, j))
  BY <1>4, <1>8, <1>10
<1>11. CASE job' = Done(w)
  <2>1. NothingNew
    BY <1>1, <1>2, <1>11, DoneMoves DEF NothingNew
  <2> QED
    BY <1>1, <1>5, <2>1, NoRowsBound, HandReleased
<1> QED
  BY <1>1, <1>9, <1>10, <1>11

LEMMA RepairedKeepsBound ==
  ASSUME Typed, CaseStep, Bound, NEW w \in Worker, CommitRepaired(w)
  PROVE  Bound'
<1>1. /\ WorksOn(w, "repair") /\ Commits(w) /\ Release(w) /\ client' = client
  BY DEF CommitRepaired, RepairCommits
<1>2. PICK d, s :
        /\ d \in AssetId
        /\ order'  = [order EXCEPT !.status = s, !.proof = "NOT_PREPARED",
                                   !.cv = order.cv + 1, !.cur = d, !.known = TRUE]
        /\ \/ Continue(w, NewJob("prepare_proof", d, order.cv + 1, NoKey, None))
           \/ job' = Done(w)
  BY DEF CommitRepaired
<1>3. worker[w] # Idle
  BY <1>1, SeenFacts DEF WorksOn
<1>4. order \in Order /\ order.cv \in Nat \ {0}
  BY <1>1, <1>3, CommitFacts
<1>5. order'.cv = order.cv + 1 /\ order'.cur = d
  BY <1>2, <1>4 DEF Order
<1>6. CASE Continue(w, NewJob("prepare_proof", d, order.cv + 1, NoKey, None))
  <2>1. PICK row : row = NewJob("prepare_proof", d, order.cv + 1, NoKey, None)
    OBVIOUS
  <2>2. IsNew(row)
    BY <1>2, <1>4, <2>1 DEF NewJob, IsNew, JobRow, JobType
  <2>3. /\ row.asset = d /\ row.cv = order.cv + 1 /\ row.type = "prepare_proof"
        /\ row.status = "QUEUED"
    BY <2>1 DEF NewJob
  <2>4. \A i \in JobId : job[i] = NoJob => job'[i] = NoJob \/ job'[i] = row
    BY <1>1, <1>3, <1>6, <2>1, <2>2, Continued
  <2>5. RowBound(row, order', asset', finding')
    BY <1>5, <2>3 DEF RowBound
  <2> QED
    BY <1>1, <1>5, <2>4, <2>5, OneRowBound, HandReleased
<1>7. CASE job' = Done(w)
  <2>1. NothingNew
    BY <1>1, <1>3, <1>7, DoneMoves DEF NothingNew
  <2> QED
    BY <1>1, <1>5, <2>1, NoRowsBound, HandReleased
<1> QED
  BY <1>2, <1>6, <1>7
-----------------------------------------------------------------------------
(* What the transactions do to the order row and to what it points at.     *)

SameArtwork ==
    /\ order'.cur = order.cur /\ order'.av = order.av /\ order'.known = order.known
    /\ order'.intent = order.intent /\ asset' = asset

Stays == UNCHANGED <<order, asset, finding, clar, repair, proof>>

Reopens ==
    /\ SameArtwork /\ order'.cv = order.cv + 1
    /\ order'.status = "BLOCKED" /\ order'.proof = "NOT_PREPARED"
    /\ job' # job => \E v : \E c \in ClarId, r \in Replies : AnswerClarification(c, r, v)
    /\ UNCHANGED <<finding, repair, proof, worker, client>>

MovesOn ==
    /\ SameArtwork /\ order'.cv = order.cv + 1 /\ order'.trim = order.trim
    /\ order'.status \in {"NEEDS_REVIEW", "AWAITING_CLARIFICATION"} /\ order'.proof = order.proof
    /\ order'.status = "AWAITING_CLARIFICATION" => \E w \in Worker : CommitQuestion(w)
    /\ UNCHANGED <<finding, proof, client>>

LEMMA MovedOn ==
  ASSUME Typed, NEW s \in {"NEEDS_REVIEW", "AWAITING_CLARIFICATION"},
         order' = [order EXCEPT !.status = s, !.cv = @ + 1], UNCHANGED <<asset, finding, proof, client>>,
         s = "AWAITING_CLARIFICATION" => \E w \in Worker : CommitQuestion(w)
  PROVE  MovesOn
<1>1. order \in Order
  BY DEF Typed
<1>2. PICK n \in Nat \ {0} : n = order.cv + 1
  BY <1>1 DEF Order
<1>3. order' = [order EXCEPT !.status = s, !.cv = n]
  BY <1>2
<1>4. /\ order'.cur = order.cur /\ order'.av = order.av /\ order'.known = order.known
      /\ order'.intent = order.intent /\ order'.cv = n /\ order'.trim = order.trim
      /\ order'.status = s /\ order'.proof = order.proof
  BY <1>1, <1>3 DEF Order
<1> QED
  BY <1>2, <1>4 DEF MovesOn, SameArtwork

LEMMA RequestKinds ==
  ASSUME Typed
  PROVE  /\ \A v : \A t \in {"yes", "no"} : ConfirmTrim(t, v) => Reopens
         /\ \A v : \A c \in ClarId, r \in Replies : AnswerClarification(c, r, v) => Reopens
         /\ \A v : EscalateCase(v) => MovesOn
<1>1. order \in Order
  BY DEF Typed
<1>2. ASSUME NEW t \in {"yes", "no"}, order' = Reopened(order, t), asset' = asset
      PROVE  /\ SameArtwork /\ order'.cv = order.cv + 1
             /\ order'.status = "BLOCKED" /\ order'.proof = "NOT_PREPARED"
  <2>1. /\ Reopened(order, t).cur = order.cur /\ Reopened(order, t).intent = order.intent
        /\ Reopened(order, t).known = order.known /\ Reopened(order, t).av = order.av
        /\ Reopened(order, t).cv = order.cv + 1
    BY <1>1, ReopenedType
  <2>2. Reopened(order, t).status = "BLOCKED" /\ Reopened(order, t).proof = "NOT_PREPARED"
    BY <1>1, ReopenedType
  <2> QED
    BY <1>2, <2>1, <2>2 DEF SameArtwork
<1>3. \A v : \A t \in {"yes", "no"} : ConfirmTrim(t, v) => Reopens
  BY <1>2 DEF ConfirmTrim, Reopens
<1>4. ASSUME NEW c \in ClarId, NEW r \in Replies, NEW v, AnswerClarification(c, r, v)
      PROVE  Reopens
  <2>1. PICK t \in {"yes", "no"} : order' = Reopened(order, t)
    BY <1>4, InterpretedReply DEF AnswerClarification
  <2>2. UNCHANGED <<asset, finding, repair, proof, worker, client>>
    BY <1>4 DEF AnswerClarification
  <2> QED
    BY <1>2, <1>4, <2>1, <2>2 DEF Reopens
<1>5. ASSUME NEW v, EscalateCase(v)
      PROVE  MovesOn
  <2>1. /\ order' = [order EXCEPT !.status = "NEEDS_REVIEW", !.cv = @ + 1]
        /\ UNCHANGED <<asset, finding, proof, client>>
    BY <1>5 DEF EscalateCase
  <2> QED
    BY <2>1, MovedOn
<1> QED
  BY <1>3, <1>4, <1>5

LEMMA CommitKinds ==
  ASSUME Typed, NEW w \in Worker
  PROVE  /\ CommitRejected(w) \/ CommitQuestion(w) \/ CommitEscalation(w) => MovesOn
         /\ CommitAutoRepair(w) => Stays
<1>1. CASE CommitRejected(w)
  <2>1. /\ order' = [order EXCEPT !.status = "NEEDS_REVIEW", !.cv = @ + 1]
        /\ UNCHANGED <<asset, finding, proof, client>>
    BY <1>1 DEF CommitRejected
  <2> QED
    BY <1>1, <2>1, MovedOn DEF CommitAutoRepair, Decided, CommitRejected, RepairCommits, WorksOn
<1>2. CASE CommitEscalation(w)
  <2>1. /\ order' = [order EXCEPT !.status = "NEEDS_REVIEW", !.cv = @ + 1]
        /\ UNCHANGED <<asset, finding, proof, client>>
    BY <1>2 DEF CommitEscalation
  <2> QED
    BY <1>2, <2>1, MovedOn DEF CommitAutoRepair, CommitEscalation, Decided
<1>3. CASE CommitQuestion(w)
  <2>1. /\ order' = [order EXCEPT !.status = "AWAITING_CLARIFICATION", !.cv = @ + 1]
        /\ UNCHANGED <<asset, finding, proof, client>>
    BY <1>3 DEF CommitQuestion
  <2> QED
    BY <1>3, <2>1, MovedOn DEF CommitAutoRepair, CommitQuestion, Decided
<1>4. CommitAutoRepair(w) => Stays
  BY DEF CommitAutoRepair, Stays
<1> QED
  BY <1>1, <1>2, <1>3, <1>4

LEMMA ProofFields ==
  ASSUME Typed, NEW w \in Worker, CommitProof(w)
  PROVE  /\ SameArtwork /\ order'.cv = order.cv + 1 /\ order'.trim = order.trim
         /\ order'.status = order.status /\ order'.proof = "AWAITING_CUSTOMER_APPROVAL"
<1>1. order \in Order /\ asset' = asset
  BY DEF Typed, CommitProof
<1>2. PICK n \in Nat \ {0} : n = order.cv + 1
  BY <1>1 DEF Order
<1>3. order' = [order EXCEPT !.proof = "AWAITING_CUSTOMER_APPROVAL", !.cv = n]
  BY <1>2 DEF CommitProof
<1> QED
  BY <1>1, <1>2, <1>3 DEF SameArtwork, Order

LEMMA InspectionFields ==
  ASSUME Typed, NEW w \in Worker, CommitInspection(w)
  PROVE  /\ SameArtwork /\ order'.cv = order.cv + 1 /\ order'.trim = order.trim
         /\ order'.status = DecideArtworkStatus(InspectedWith(w), order.intent)
         /\ order'.proof = "NOT_PREPARED"
<1>1. order \in Order /\ asset' = asset
  BY DEF Typed, CommitInspection
<1>2. PICK n \in Nat \ {0} : n = order.cv + 1
  BY <1>1 DEF Order
<1>3. PICK s \in {"BLOCKED", "RESOLVED", "NEEDS_REVIEW"} :
        s = DecideArtworkStatus(InspectedWith(w), order.intent)
  BY DecideType
<1>4. order' = [order EXCEPT !.status = s, !.proof = "NOT_PREPARED", !.cv = n]
  BY <1>2, <1>3 DEF CommitInspection
<1> QED
  BY <1>1, <1>2, <1>3, <1>4 DEF SameArtwork, Order

LEMMA RepairedFields ==
  ASSUME Typed, NEW w \in Worker, CommitRepaired(w)
  PROVE  \E d \in AssetId :
           /\ order'.cur = d /\ order'.av = order.av /\ order'.known /\ order'.intent = order.intent
           /\ order'.cv = order.cv + 1 /\ order'.trim = order.trim
           /\ order'.status = DecideArtworkStatus(RecheckedWith(w), order.intent)
           /\ order'.proof = "NOT_PREPARED"
           /\ NextRow(asset, NoAsset, d) /\ asset[d] = NoAsset
           /\ asset'[d].kind = "repaired"
           /\ asset'[d].art = asset[job[worker[w].job].asset].art
           /\ asset'[d].from = job[worker[w].job].asset
           /\ \A a \in AssetId \ {d} : asset'[a] = asset[a]
           /\ repair' = repair \cup {RepairRow(w, "REPAIRED", d)}
           /\ \/ order'.status = "RESOLVED" /\ Continue(w, NewJob("prepare_proof", d, order.cv + 1, NoKey, None))
              \/ order'.status # "RESOLVED" /\ job' = Done(w)
<1>1. order \in Order /\ asset \in Assets
  BY DEF Typed, AssetsOK
<1>2. PICK n \in Nat \ {0} : n = order.cv + 1
  BY <1>1 DEF Order
<1>3. PICK s \in {"BLOCKED", "RESOLVED", "NEEDS_REVIEW"} :
        s = DecideArtworkStatus(RecheckedWith(w), order.intent)
  BY DecideType
<1>4. PICK d \in AssetId :
        /\ NextRow(asset, NoAsset, d)
        /\ asset'  = [asset EXCEPT ![d] = [kind |-> "repaired", art |-> asset[job[worker[w].job].asset].art,
                                           from |-> job[worker[w].job].asset]]
        /\ repair' = repair \cup {RepairRow(w, "REPAIRED", d)}
        /\ order'  = [order EXCEPT !.status = s, !.proof = "NOT_PREPARED", !.cv = n,
                                   !.cur = d, !.known = TRUE]
        /\ IF s = "RESOLVED" THEN Continue(w, NewJob("prepare_proof", d, n, NoKey, None))
                             ELSE job' = Done(w)
  BY <1>2, <1>3 DEF CommitRepaired
<1>5. /\ order'.cur = d /\ order'.av = order.av /\ order'.intent = order.intent
      /\ order'.cv = n /\ order'.trim = order.trim
      /\ order'.status = s /\ order'.proof = "NOT_PREPARED"
  BY <1>1, <1>4 DEF Order
<1>6. order'.known
  BY <1>1, <1>4 DEF Order
<1>7. /\ asset'[d].kind = "repaired"
      /\ asset'[d].art = asset[job[worker[w].job].asset].art
      /\ asset'[d].from = job[worker[w].job].asset
      /\ asset[d] = NoAsset
      /\ \A a \in AssetId \ {d} : asset'[a] = asset[a]
  BY <1>1, <1>4 DEF Assets, NextRow
<1> QED
  BY <1>2, <1>3, <1>4, <1>5, <1>6, <1>7

(* Every step of the case, as far as the order row is concerned. *)
LEMMA StepKinds ==
  ASSUME Typed, Next
  PROVE  \/ Stays /\ (Quiet \/ \E w \in Worker : CommitAutoRepair(w))
         \/ \E art \in Artworks : Upload(art)
         \/ Reopens
         \/ MovesOn
         \/ \E w \in Worker : CommitProof(w) \/ CommitInspection(w) \/ CommitRepaired(w)
<1>1. CASE Customers
  <2>1. CASE \E art \in Artworks : Upload(art)
    BY <2>1
  <2>2. CASE \E v \in 1 .. order.cv :
               \/ \E t \in {"yes", "no"} : ConfirmTrim(t, v)
               \/ EscalateCase(v)
               \/ \E c \in ClarId, reply \in Replies : AnswerClarification(c, reply, v)
    BY <2>2, RequestKinds
  <2>3. CASE \E c \in Client : SessionStep(c)
    BY <2>3, QuietSessions DEF Quiet, Stays
  <2> QED
    BY <1>1, <2>1, <2>2, <2>3 DEF Customers, SessionStep
<1>2. ASSUME NEW w \in Worker, Claim(w) \/ WorkStep(w) \/ Lose(w)
      PROVE  \/ (Stays /\ (Quiet \/ CommitAutoRepair(w))) \/ MovesOn
             \/ CommitProof(w) \/ CommitInspection(w) \/ CommitRepaired(w)
  <2>1. CASE QuietWork(w)
    BY <2>1, QuietWorkers DEF Quiet, Stays
  <2>2. CASE CommitStep(w)
    BY <2>2, CommitKinds DEF CommitStep
  <2> QED
    BY <1>2, <2>1, <2>2 DEF WorkStep, QuietWork
<1>3. CASE \E i \in JobId : LeaseRunsOut(i) \/ OutrunLease(i)
  BY <1>3, QuietLeases DEF Quiet, Stays
<1> QED
  BY <1>1, <1>2, <1>3 DEF Next

LEMMA AutoRepairKeepsBound ==
  ASSUME Typed, CaseStep, Bound, NEW w \in Worker, CommitAutoRepair(w)
  PROVE  Bound'
<1> DEFINE a == worker[w].asset
<1>1. /\ worker[w].pc = "decided" /\ worker[w].action = "request_repair"
      /\ Commits(w) /\ Release(w) /\ client' = client
      /\ Continue(w, NewJob("repair", a, order.cv, AutoKey(a), None))
      /\ UNCHANGED <<order, asset, finding>>
  BY DEF CommitAutoRepair, Decided
<1>2. /\ worker[w] # Idle /\ job[worker[w].job].type = "agent_decide"
      /\ order.intent = "full_bleed" /\ order.trim = "yes" /\ LatestIn(asset, a)
  BY <1>1, DecisionHolds
<1> HIDE DEF a
<1>3. PICK row : row = NewJob("repair", a, order.cv, AutoKey(a), None)
  OBVIOUS
<1>4. order.cv \in Nat \ {0} /\ a \in AssetId
  BY <1>2 DEF Typed, Order, LatestIn
<1>5. AutoKey(a) \in Keys
  BY <1>4 DEF AutoKey, Keys
<1>6. IsNew(row)
  BY <1>3, <1>4, <1>5 DEF NewJob, IsNew, JobRow, JobType
<1>7. row.asset = a /\ row.cv = order.cv /\ row.type = "repair" /\ row.status = "QUEUED"
  BY <1>3 DEF NewJob
<1>8. RowBound(row, order, asset, finding)
  BY <1>2, <1>7 DEF RowBound
<1>9. /\ \A j \in JobId : job[j] = NoJob => job'[j] = NoJob \/ job'[j] = row
      /\ \A k \in JobId \ {worker[w].job} :
           \/ job'[k] = job[k]
           \/ job[k] = NoJob /\ job'[k] = row
           \/ IsActive(job[k]) /\ job[k].type = row.type /\ job'[k] = Superseded(job[k])
  BY <1>1, <1>2, <1>3, <1>6, Continued
<1>10. \A j \in JobId : job[j] # NoJob =>
         (job'[j].status = "SUCCEEDED" => job[j].status = "SUCCEEDED" \/ job[j].type = "agent_decide")
  <2>1. job \in Tables
    BY DEF Typed, JobsOK
  <2>2. \A j \in JobId : job[j] # NoJob => Superseded(job[j]).status = "FAILED"
    BY <2>1, RowFacts, SupersededRow
  <2> QED
    BY <1>2, <1>9, <2>2
<1>11. RowsBound'
  BY <1>1, <1>8, <1>9, <1>10, RowsStay
<1>12. HandsBound'
  <2>1. HandBound(Idle, job', order, asset)
    BY DEF HandBound
  <2> QED
    BY <1>1, <2>1, HandGoesOn DEF Release
<1> QED
  BY <1>1, <1>11, <1>12, AllSessionsStay DEF Bound

LEMMA CommitsKeepBound ==
  ASSUME Typed, CaseStep, Bound, NEW w \in Worker, CommitStep(w)
  PROVE  Bound'
<1>1. CASE CommitRejected(w) \/ CommitProof(w) \/ CommitQuestion(w) \/ CommitEscalation(w)
  <2>1. /\ Commits(w) /\ Release(w) /\ job' = Done(w) /\ client' = client
        /\ worker[w].pc \in {"loaded", "decided"}
    BY <1>1 DEF CommitRejected, RepairCommits, WorksOn, CommitProof, CommitQuestion,
       CommitEscalation, Decided
  <2>2. NothingNew
    BY <2>1, DoneMoves DEF NothingNew, Idle
  <2>3. order'.cv = order.cv + 1
    <3>1. CASE CommitProof(w)
      BY <3>1, ProofFields
    <3>2. CASE MovesOn
      BY <3>2 DEF MovesOn
    <3> QED
      BY <1>1, <3>1, <3>2, CommitKinds
  <2> QED
    BY <2>1, <2>2, <2>3, NoRowsBound, HandReleased
<1> QED
  BY <1>1, InspectionKeepsBound, RepairedKeepsBound, AutoRepairKeepsBound DEF CommitStep

LEMMA StepBound ==
  ASSUME Typed, Bound, Next
  PROVE  Bound'
<1>1. CaseStep
  BY StepTyped
<1>2. CASE Customers
  <2>1. CASE \/ \E art \in Artworks : Upload(art)
             \/ \E t \in {"yes", "no"}, v \in 1 .. order.cv : ConfirmTrim(t, v)
             \/ \E v \in 1 .. order.cv : EscalateCase(v)
             \/ \E v \in 1 .. order.cv, c \in ClarId, r \in Replies : AnswerClarification(c, r, v)
    BY <1>1, <2>1, RequestsKeepBound
  <2>2. CASE \E c \in Client : SessionStep(c)
    BY <1>1, <2>2, SessionsKeepBound
  <2> QED
    BY <1>2, <2>1, <2>2 DEF Customers, SessionStep
<1>3. ASSUME NEW w \in Worker, Claim(w) \/ WorkStep(w) \/ Lose(w)
      PROVE  Bound'
  BY <1>1, <1>3, WorkersKeepBound, CommitsKeepBound DEF WorkStep, QuietWork
<1>4. CASE \E i \in JobId : LeaseRunsOut(i) \/ OutrunLease(i)
  BY <1>1, <1>4, LeasesKeepBound
<1> QED
  BY <1>2, <1>3, <1>4 DEF Next

LEMMA StutterBound ==
  ASSUME Bound, UNCHANGED vars
  PROVE  Bound'
  BY DEF vars, Bound, RowsBound, HandsBound, SessionsBound

LEMMA AlwaysBound == Spec => [](Typed /\ Bound)
<1>1. Init => Typed /\ Bound
  BY InitTyped, InitBound
<1>2. Typed /\ Bound /\ [Next]_vars => (Typed /\ Bound)'
  BY StepTyped, StutterTyped, StepBound, StutterBound
<1> QED
  BY <1>1, <1>2, PTL DEF Spec
-----------------------------------------------------------------------------
(* A repair the agent enqueued is bound to a case_version, and while that  *)
(* is the version of the case, what the agent decided it on still holds    *)
(* (runAgentDecision, CompleteAgentDecision).                              *)
THEOREM AutoRepairStaysConfirmed == Spec => []AutoRepairIsConfirmed
<1>1. Typed /\ Bound => AutoRepairIsConfirmed
  <2> SUFFICES ASSUME Typed, Bound, NEW j \in JobId, IsActive(job[j]), job[j].type = "repair",
                      job[j].key[1] = "auto", job[j].cv = order.cv
               PROVE  /\ order.intent = "full_bleed" /\ order.trim = "yes"
                      /\ IsLatestOriginal(job[j].asset)
    BY DEF AutoRepairIsConfirmed
  <2>1. job[j] # NoJob
    BY DEF IsActive, NoJob
  <2>2. RowBound(job[j], order, asset, finding)
    BY <2>1 DEF Bound, RowsBound
  <2> QED
    BY <2>2, Latest DEF RowBound
<1> QED
  BY <1>1, AlwaysBound, PTL
-----------------------------------------------------------------------------
LEMMA QuietSucceedsNothing ==
  ASSUME Typed, Quiet, NEW j \in JobId, job[j].status = "RUNNING"
  PROVE  job'[j].status # "SUCCEEDED"
<1>1. job[j] # NoJob
  BY DEF NoJob
<1> QED
  BY <1>1 DEF Quiet, QuietJobs, IsActive

LEMMA CommitsOwnMemory ==
  ASSUME Typed, NEW v \in Worker, CommitStep(v)
  PROVE  Commits(v) /\ Release(v)
  BY DEF CommitStep, CommitInspection, CommitRepaired, CommitRejected, CommitProof, CommitQuestion,
     CommitAutoRepair, CommitEscalation, RepairCommits

(* What a worker commits was computed from the order row as it is: the     *)
(* case_version it asks for is the one its memory was read under           *)
(* (the Complete* transactions of internal/store).                         *)
THEOREM CommitsHold == Spec => CommitsWhatStillHolds
<1>1. ASSUME Typed, Bound, Next, NEW w \in Worker,
             worker[w].pc = "loaded", worker'[w] = Idle,
             job[worker[w].job].status = "RUNNING", job'[worker[w].job].status = "SUCCEEDED"
      PROVE  worker[w].seen = View
  <2>1. worker[w] # Idle /\ worker[w].job \in JobId
    BY <1>1, SeenFacts, InHandFacts
  <2>2. worker' # worker
    BY <1>1, <2>1
  <2>3. ~Quiet
    BY <1>1, <2>1, QuietSucceedsNothing
  <2>4. \E v \in Worker : CommitStep(v)
    <3>1. CASE Customers
      <4>1. CASE \E c \in Client : SessionStep(c)
        BY <2>3, <4>1, QuietSessions, <1>1
      <4>2. CASE ~\E c \in Client : SessionStep(c)
        <5>1. worker' = worker
          BY <3>1, <4>2 DEF Customers, SessionStep, Upload, ConfirmTrim, EscalateCase, AnswerClarification
        <5> QED
          BY <5>1, <2>2
      <4> QED
        BY <4>1, <4>2
    <3>2. CASE \E v \in Worker : Claim(v) \/ WorkStep(v) \/ Lose(v)
      BY <1>1, <2>3, <3>2, QuietWorkers DEF WorkStep, QuietWork
    <3>3. CASE \E i \in JobId : LeaseRunsOut(i) \/ OutrunLease(i)
      BY <1>1, <2>3, <3>3, QuietLeases
    <3> QED
      BY <1>1, <3>1, <3>2, <3>3 DEF Next
  <2>5. PICK v \in Worker : CommitStep(v)
    BY <2>4
  <2>6. Commits(v) /\ Release(v)
    BY <1>1, <2>5, CommitsOwnMemory
  <2>7. v = w
    <3>1. v # w => worker'[w] = worker[w]
      BY <1>1, <2>6 DEF Release, Typed, HandsOK
    <3> QED
      BY <1>1, <2>1, <3>1
  <2> QED
    BY <1>1, <2>6, <2>7, SeenIsCurrent, Viewed
<1>2. Typed /\ Bound /\ [Next]_vars =>
        [\A w \in Worker :
           LET j == worker[w].job
           IN  (/\ worker[w].pc = "loaded" /\ worker'[w] = Idle
                /\ job[j].status = "RUNNING" /\ job'[j].status = "SUCCEEDED")
               => worker[w].seen = View]_vars
  BY <1>1
<1> QED
  BY <1>2, AlwaysBound, PTL DEF Spec, CommitsWhatStillHolds
-----------------------------------------------------------------------------
(* Where the order row and the artwork it points at come from.             *)
Lineage == /\ Gapless(asset, NoAsset)
           /\ order.cur # None => LatestIn(asset, asset[order.cur].from)
           /\ TrimDescribesCurrent

LEMMA InitLineage == Init => Lineage
<1> SUFFICES ASSUME Init PROVE Lineage
  OBVIOUS
<1>1. asset = [a \in AssetId |-> NoAsset] /\ order.cur = None /\ order.known = FALSE
  BY DEF Init
<1> QED
  BY <1>1 DEF Lineage, Gapless, TrimDescribesCurrent

LEMMA InsertKeepsGapless ==
  ASSUME NEW T, NEW vacant, NEW i \in DOMAIN T, NEW row, NextRow(T, vacant, i), Gapless(T, vacant),
         row # vacant, DOMAIN T \subseteq Nat
  PROVE  /\ Gapless([T EXCEPT ![i] = row], vacant)
         /\ \A k \in DOMAIN T : T[k] # vacant => k < i
<1>1. \A k \in DOMAIN T : k < i => T[k] # vacant
  BY DEF NextRow
<1>2. \A k \in DOMAIN T : T[k] # vacant => k < i
  <2> SUFFICES ASSUME NEW k \in DOMAIN T, T[k] # vacant, ~(k < i) PROVE FALSE
    OBVIOUS
  <2>1. k \in Nat /\ i \in Nat /\ T[i] = vacant
    BY DEF NextRow
  <2>2. i < k
    BY <2>1
  <2> QED
    BY <2>1, <2>2 DEF Gapless
<1>3. DOMAIN [T EXCEPT ![i] = row] = DOMAIN T
  OBVIOUS
<1>4. ASSUME NEW a \in DOMAIN T, NEW b \in DOMAIN T, a < b, [T EXCEPT ![i] = row][b] # vacant
      PROVE  [T EXCEPT ![i] = row][a] # vacant
  <2>1. a \in Nat /\ b \in Nat /\ i \in Nat
    OBVIOUS
  <2>2. b = i \/ b < i
    BY <1>2, <1>4
  <2>3. a < i
    BY <1>4, <2>1, <2>2
  <2> QED
    BY <1>1, <2>1, <2>3
<1> QED
  BY <1>2, <1>3, <1>4 DEF Gapless

(* A new original is the latest one. *)
LEMMA UploadFields ==
  ASSUME Typed, Lineage, NEW art \in Artworks, Upload(art)
  PROVE  /\ order'.cur \in AssetId /\ LatestIn(asset', order'.cur)
         /\ asset'[order'.cur].from = order'.cur /\ asset'[order'.cur].kind = "original"
         /\ Gapless(asset', NoAsset)
         /\ order'.status = "BLOCKED" /\ order'.proof = "NOT_PREPARED" /\ order'.known = FALSE
<1>1. PICK a \in AssetId :
        /\ NextRow(asset, NoAsset, a)
        /\ asset' = [asset EXCEPT ![a] = [kind |-> "original", art |-> art, from |-> a]]
        /\ order' = Uploaded(order, a)
  BY DEF Upload
<1>2. PICK row : row = [kind |-> "original", art |-> art, from |-> a]
  OBVIOUS
<1>3. row.kind = "original" /\ row.from = a /\ row # NoAsset
  BY <1>2 DEF NoAsset
<1>4. asset \in Assets /\ order \in Order
  BY DEF Typed, AssetsOK
<1>5. DOMAIN asset = AssetId /\ AssetId \subseteq Nat
  BY <1>4 DEF Assets, AssetId
<1>6. asset' = [asset EXCEPT ![a] = row]
  BY <1>1, <1>2
<1>7. Gapless(asset, NoAsset)
  BY DEF Lineage
<1>8. /\ Gapless(asset', NoAsset)
      /\ \A k \in AssetId : asset[k] # NoAsset => k < a
  <2>1. a \in DOMAIN asset /\ row # NoAsset /\ DOMAIN asset \subseteq Nat
    BY <1>3, <1>5
  <2>2. NextRow(asset, NoAsset, a)
    BY <1>1
  <2>3. Gapless([asset EXCEPT ![a] = row], NoAsset)
    BY ONLY <2>1, <2>2, <1>7, InsertKeepsGapless
  <2>4. \A k \in DOMAIN asset : asset[k] # NoAsset => k < a
    BY ONLY <2>1, <2>2, <1>7, InsertKeepsGapless
  <2> QED
    BY <1>5, <1>6, <2>3, <2>4
<1>9. asset'[a] = row /\ \A k \in AssetId \ {a} : asset'[k] = asset[k]
  BY <1>5, <1>6
<1>10. LatestIn(asset', a)
  <2>1. \A b \in AssetId : asset[b].kind = "original" => asset[b] # NoAsset
    BY DEF NoAsset
  <2>2. \A b \in AssetId : b < a => b <= a
    BY <1>5
  <2> QED
    BY <1>3, <1>5, <1>8, <1>9, <2>1, <2>2 DEF LatestIn
<1>11. /\ order'.cur = a /\ order'.status = "BLOCKED" /\ order'.proof = "NOT_PREPARED"
       /\ order'.known = FALSE
  BY <1>1, <1>4, UploadedType
<1> QED
  BY <1>3, <1>8, <1>9, <1>10, <1>11

(* What a verified repair was made from is the latest original still.      *)
LEMMA RepairedFrom ==
  ASSUME Typed, Bound, NEW w \in Worker, CommitRepaired(w)
  PROVE  LatestIn(asset, job[worker[w].job].asset)
<1>1. WorksOn(w, "repair") /\ Commits(w)
  BY DEF CommitRepaired, RepairCommits
<1> QED
  BY <1>1, SeenIsCurrent DEF WorksOn

LEMMA StepLineage ==
  ASSUME Typed, Bound, Lineage, Next
  PROVE  Lineage'
<1>1. CASE SameArtwork
  BY <1>1 DEF SameArtwork, Lineage, TrimDescribesCurrent, Gapless, LatestIn
<1>2. CASE \E art \in Artworks : Upload(art)
  <2>1. /\ order'.cur \in AssetId /\ LatestIn(asset', order'.cur)
        /\ asset'[order'.cur].from = order'.cur /\ asset'[order'.cur].kind = "original"
        /\ Gapless(asset', NoAsset) /\ order'.known = FALSE
    BY <1>2, UploadFields
  <2> QED
    BY <2>1 DEF Lineage, TrimDescribesCurrent
<1>3. ASSUME NEW w \in Worker, CommitRepaired(w)
      PROVE  Lineage'
  <2>1. PICK d \in AssetId :
          /\ order'.cur = d /\ order'.known
          /\ NextRow(asset, NoAsset, d) /\ asset[d] = NoAsset
          /\ asset'[d].kind = "repaired" /\ asset'[d].from = job[worker[w].job].asset
          /\ \A a \in AssetId \ {d} : asset'[a] = asset[a]
    BY <1>3, RepairedFields
  <2>2. LatestIn(asset, job[worker[w].job].asset)
    BY <1>3, RepairedFrom
  <2>3. asset \in Assets /\ asset' \in Assets
    <3>1. Typed'
      BY StepTyped
    <3> QED
      BY <3>1 DEF Typed, AssetsOK
  <2>4. Gapless(asset', NoAsset)
    <3>1. PICK row : row = asset'[d]
      OBVIOUS
    <3>2. asset' = [asset EXCEPT ![d] = row]
      BY <2>1, <2>3, <3>1 DEF Assets
    <3>3. row # NoAsset
      BY <2>1, <3>1 DEF NoAsset
    <3>4. DOMAIN asset = AssetId /\ AssetId \subseteq Nat
      BY <2>3 DEF Assets, AssetId
    <3>5. Gapless(asset, NoAsset) /\ d \in AssetId /\ NextRow(asset, NoAsset, d)
      BY <2>1 DEF Lineage
    <3> QED
      BY ONLY <3>2, <3>3, <3>4, <3>5, InsertKeepsGapless
  <2>5. LatestIn(asset', asset'[d].from)
    <3>1. asset[d].kind # "original"
      BY <2>1 DEF NoAsset
    <3> QED
      BY <2>1, <2>2, <3>1 DEF LatestIn
  <2>6. d # None
    BY DEF AssetId, None
  <2> QED
    BY <2>1, <2>4, <2>5, <2>6 DEF Lineage, TrimDescribesCurrent
<1>4. CASE Stays
  BY <1>1, <1>4 DEF Stays, SameArtwork
<1>5. CASE Reopens \/ MovesOn
  BY <1>1, <1>5 DEF Reopens, MovesOn
<1>6. CASE \E w \in Worker : CommitProof(w) \/ CommitInspection(w)
  BY <1>1, <1>6, ProofFields, InspectionFields
<1> QED
  BY <1>2, <1>3, <1>4, <1>5, <1>6, StepKinds

LEMMA StutterLineage == ASSUME Lineage, UNCHANGED vars PROVE Lineage'
  BY DEF vars, Lineage, TrimDescribesCurrent, Gapless, LatestIn

LEMMA AlwaysLineage == Spec => [](Typed /\ Bound /\ Lineage)
<1>1. Init => Typed /\ Bound /\ Lineage
  BY InitTyped, InitBound, InitLineage
<1>2. Typed /\ Bound /\ Lineage /\ [Next]_vars => (Typed /\ Bound /\ Lineage)'
  BY StepTyped, StutterTyped, StepBound, StutterBound, StepLineage, StutterLineage
<1> QED
  BY <1>1, <1>2, PTL DEF Spec

(* current_asset_id is the latest upload or a repair of it, however long   *)
(* the repair took (RecordArtworkUpload, CompleteRepair).                  *)
THEOREM CurrentStaysLatest == Spec => []CurrentIsLatestUpload
<1>1. Lineage => CurrentIsLatestUpload
  BY Latest DEF Lineage, CurrentIsLatestUpload
<1> QED
  BY <1>1, AlwaysLineage, PTL

(* The trim coordinates of the order row describe its current asset.       *)
THEOREM TrimStaysDescribed == Spec => []TrimDescribesCurrent
<1>1. Lineage => TrimDescribesCurrent
  BY DEF Lineage
<1> QED
  BY <1>1, AlwaysLineage, PTL
-----------------------------------------------------------------------------
LEMMA InspectionEarns ==
  ASSUME Typed, Bound, Lineage, NEW w \in Worker, CommitInspection(w), order'.status = "RESOLVED"
  PROVE  ResolvedIsEarned'
<1>1. /\ SameArtwork
      /\ order'.status = DecideArtworkStatus(InspectedWith(w), order.intent)
  BY InspectionFields
<1>2. WorksOn(w, "inspect") /\ Commits(w)
  BY DEF CommitInspection
<1>3. PICK intent \in Intent, trim \in Trim, e \in BOOLEAN, art \in ArtworkKind :
           /\ intent = order.intent /\ trim = order.trim /\ e = order.known
           /\ order.cur \in AssetId /\ asset[order.cur] \in AssetRow /\ art = asset[order.cur].art
           /\ InspectedWith(w) = Inspect(intent, trim, e, art)
  BY <1>2, InspectsCurrent
<1>4. DecideArtworkStatus(Inspect(intent, trim, e, art), intent) = "RESOLVED"
  BY <1>1, <1>3
<1>5. art.ppi = "ok" /\ art.color # "NEEDS_REVIEW" /\ (intent = "full_bleed" => e)
  BY <1>4, ResolvedSays
<1>6. order.cur # None
  BY <1>3 DEF AssetId, None
<1>7. order.known => asset[order.cur].kind = "repaired"
  BY DEF Lineage, TrimDescribesCurrent
<1> QED
  BY <1>1, <1>3, <1>5, <1>6, <1>7 DEF SameArtwork, ResolvedIsEarned

LEMMA RepairEarns ==
  ASSUME Typed, Bound, NEW w \in Worker, CommitRepaired(w), order'.status = "RESOLVED"
  PROVE  ResolvedIsEarned'
<1>1. PICK d \in AssetId :
        /\ order'.cur = d /\ order'.intent = order.intent
        /\ order'.status = DecideArtworkStatus(RecheckedWith(w), order.intent)
        /\ asset'[d].kind = "repaired"
        /\ asset'[d].art = asset[job[worker[w].job].asset].art
  BY RepairedFields
<1>2. worker[w].pc = "loaded" /\ worker[w] # Idle /\ worker[w].seen.trim \in Trim
  <2>1. worker[w].pc = "loaded"
    BY DEF CommitRepaired, RepairCommits, WorksOn
  <2> QED
    BY <2>1, SeenFacts
<1>3. asset[job[worker[w].job].asset] \in AssetRow
  BY <1>2, InHandFacts
<1>4. PICK intent \in Intent, trim \in Trim, art \in ArtworkKind :
        /\ intent = order.intent /\ trim = worker[w].seen.trim
        /\ art = asset[job[worker[w].job].asset].art
  <2>1. asset[job[worker[w].job].asset].art \in ArtworkKind
    BY <1>3 DEF AssetRow
  <2> QED
    BY <1>2, <2>1 DEF Typed, Order
<1>5. RecheckedWith(w) = Inspect(intent, trim, TRUE, art)
  BY <1>4 DEF RecheckedWith
<1>6. art.ppi = "ok" /\ art.color # "NEEDS_REVIEW"
  BY <1>1, <1>4, <1>5, ResolvedSays
<1>7. d # None
  BY DEF AssetId, None
<1> QED
  BY <1>1, <1>4, <1>6, <1>7 DEF ResolvedIsEarned

LEMMA StepEarned ==
  ASSUME Typed, Bound, Lineage, ResolvedIsEarned, Next
  PROVE  ResolvedIsEarned'
<1>1. CASE Stays
  BY <1>1 DEF Stays, ResolvedIsEarned
<1>2. CASE (\E art \in Artworks : Upload(art)) \/ Reopens \/ MovesOn
  BY <1>2, UploadFields DEF Reopens, MovesOn, ResolvedIsEarned
<1>3. CASE \E w \in Worker : CommitProof(w)
  BY <1>3, ProofFields DEF SameArtwork, ResolvedIsEarned
<1>4. CASE \E w \in Worker : CommitInspection(w)
  BY <1>4, InspectionEarns DEF ResolvedIsEarned
<1>5. CASE \E w \in Worker : CommitRepaired(w)
  BY <1>5, RepairEarns DEF ResolvedIsEarned
<1> QED
  BY <1>1, <1>2, <1>3, <1>4, <1>5, StepKinds

(* RESOLVED is earned by the artwork the case has now: nothing an upload,  *)
(* a late worker or borrowed trim coordinates can do leaves an unchecked   *)
(* artwork RESOLVED (CompleteInspection, CompleteRepair).                  *)
THEOREM ResolvedStaysEarned == Spec => []ResolvedIsEarned
<1>1. Init => ResolvedIsEarned
  <2>1. ASSUME Init PROVE order.status = "BLOCKED"
    BY <2>1 DEF Init
  <2> QED
    BY <2>1 DEF ResolvedIsEarned
<1>2. Typed /\ Bound /\ Lineage /\ ResolvedIsEarned /\ [Next]_vars => ResolvedIsEarned'
  <2>1. ResolvedIsEarned /\ UNCHANGED vars => ResolvedIsEarned'
    BY DEF vars, ResolvedIsEarned
  <2> QED
    BY <2>1, StepEarned
<1> QED
  BY <1>1, <1>2, AlwaysLineage, PTL DEF Spec
-----------------------------------------------------------------------------
LEMMA ProofOfCurrent ==
  ASSUME Typed, Bound, NEW w \in Worker, CommitProof(w)
  PROVE  /\ Rendered(w) \in proof' /\ Rendered(w).of = order.cur /\ Rendered(w).av = order.av
<1>1. WorksOn(w, "prepare_proof") /\ Commits(w) /\ proof' = proof \cup {Rendered(w)}
  BY DEF CommitProof
<1>2. worker[w].seen = ViewOf(order) /\ job[worker[w].job].asset = order.cur
  BY <1>1, SeenIsCurrent DEF WorksOn
<1>3. worker[w].seen.av = order.av
  BY <1>2 DEF ViewOf
<1> QED
  BY <1>1, <1>2, <1>3 DEF Rendered

LEMMA StepShows ==
  ASSUME Typed, Bound, Lineage, ProofShowsCurrentArtwork, Next
  PROVE  ProofShowsCurrentArtwork'
<1>1. CASE Stays
  BY <1>1 DEF Stays, ProofShowsCurrentArtwork
<1>2. CASE (\E art \in Artworks : Upload(art)) \/ Reopens
  BY <1>2, UploadFields DEF Reopens, ProofShowsCurrentArtwork
<1>3. CASE MovesOn
  BY <1>3 DEF MovesOn, SameArtwork, ProofShowsCurrentArtwork
<1>4. ASSUME NEW w \in Worker, CommitProof(w)
      PROVE  ProofShowsCurrentArtwork'
  <2>1. SameArtwork
    BY <1>4, ProofFields
  <2> QED
    BY <1>4, <2>1, ProofOfCurrent DEF SameArtwork, ProofShowsCurrentArtwork
<1>5. CASE \E w \in Worker : CommitInspection(w) \/ CommitRepaired(w)
  BY <1>5, InspectionFields, RepairedFields DEF ProofShowsCurrentArtwork
<1> QED
  BY <1>1, <1>2, <1>3, <1>4, <1>5, StepKinds

(* proof_status says AWAITING_CUSTOMER_APPROVAL only while a proof of the  *)
(* current artwork and its version exists (CompleteProofPreparation).      *)
THEOREM ProofStaysCurrent == Spec => []ProofShowsCurrentArtwork
<1>1. Init => ProofShowsCurrentArtwork
  <2>1. ASSUME Init PROVE order.proof = "NOT_PREPARED"
    BY <2>1 DEF Init
  <2> QED
    BY <2>1 DEF ProofShowsCurrentArtwork
<1>2. Typed /\ Bound /\ Lineage /\ ProofShowsCurrentArtwork /\ [Next]_vars => ProofShowsCurrentArtwork'
  <2>1. ProofShowsCurrentArtwork /\ UNCHANGED vars => ProofShowsCurrentArtwork'
    BY DEF vars, ProofShowsCurrentArtwork
  <2> QED
    BY <2>1, StepShows
<1> QED
  BY <1>1, <1>2, AlwaysLineage, PTL DEF Spec
-----------------------------------------------------------------------------
(* A job of this type, for this asset and version, that is active, or was  *)
(* failed by its own worker.                                               *)
Pending(J, t, a, v) ==
    \E j \in JobId : /\ J[j] # NoJob
                     /\ J[j].type = t /\ J[j].asset = a /\ J[j].cv = v
                     /\ IsActive(J[j]) \/ J[j].note = "failed"

LEMMA QuietKeepsJob ==
  ASSUME Typed, CaseStep, Quiet, NEW j \in JobId, job[j] # NoJob, IsActive(job[j]) \/ job[j].note = "failed"
  PROVE  /\ job'[j] # NoJob /\ SameJob(job[j], job'[j])
         /\ IsActive(job'[j]) \/ job'[j].note = "failed"
<1>1. \/ job'[j] = job[j]
      \/ /\ IsActive(job[j]) /\ SameJob(job[j], job'[j])
         /\ IsActive(job'[j]) \/ (job'[j].status = "FAILED" /\ job'[j].note = "failed")
  BY DEF Quiet, QuietJobs
<1>2. IsActive(job'[j]) \/ job'[j].status = "FAILED" => job'[j] # NoJob
  BY DEF IsActive, NoJob
<1>3. SameJob(job[j], job[j])
  BY DEF SameJob
<1> QED
  BY <1>1, <1>2, <1>3

(* The repair the agent enqueues, and the jobs its transaction leaves be.  *)
LEMMA AutoRepairRow ==
  ASSUME Typed, Bound, NEW w \in Worker, CommitAutoRepair(w)
  PROVE  /\ worker[w] # Idle /\ Commits(w) /\ job[worker[w].job].type = "agent_decide"
         /\ \E row : /\ IsNew(row) /\ row.type = "repair" /\ row.cv = order.cv /\ Continue(w, row)
<1> DEFINE a == worker[w].asset
<1>1. /\ worker[w].pc = "decided" /\ worker[w].action = "request_repair"
      /\ Commits(w)
      /\ Continue(w, NewJob("repair", a, order.cv, AutoKey(a), None))
  BY DEF CommitAutoRepair, Decided
<1>2. /\ worker[w] # Idle /\ job[worker[w].job].type = "agent_decide"
      /\ LatestIn(asset, a)
  BY <1>1, DecisionHolds
<1> HIDE DEF a
<1>3. PICK row : row = NewJob("repair", a, order.cv, AutoKey(a), None)
  OBVIOUS
<1>4. order.cv \in Nat \ {0} /\ a \in AssetId
  BY <1>2 DEF Typed, Order, LatestIn
<1>5. AutoKey(a) \in Keys
  BY <1>4 DEF AutoKey, Keys
<1>6. IsNew(row)
  BY <1>3, <1>4, <1>5 DEF NewJob, IsNew, JobRow, JobType
<1>7. row.type = "repair" /\ row.cv = order.cv
  BY <1>3 DEF NewJob
<1>8. Continue(w, row)
  BY <1>1, <1>3
<1> QED
  BY <1>1, <1>2, <1>6, <1>7, <1>8

LEMMA AutoRepairKeepsJob ==
  ASSUME Typed, Bound, NEW w \in Worker, CommitAutoRepair(w), NEW j \in JobId, job[j] # NoJob,
         job[j].type \notin {"agent_decide", "repair"}
  PROVE  job'[j] = job[j]
<1>1. /\ worker[w] # Idle /\ Commits(w) /\ job[worker[w].job].type = "agent_decide"
  BY AutoRepairRow
<1>2. PICK row : IsNew(row) /\ row.type = "repair" /\ Continue(w, row)
  BY AutoRepairRow
<1> QED
  BY <1>1, <1>2, Continued

(* The job a transaction continues the case with. *)
LEMMA ContinuedPending ==
  ASSUME Typed, NEW w \in Worker, worker[w] # Idle, Commits(w),
         NEW t \in JobType, NEW a \in AssetId, NEW s \in JobId \cup {None},
         Continue(w, NewJob(t, a, order.cv + 1, NoKey, s))
  PROVE  Pending(job', t, a, order.cv + 1)
<1>1. order.cv \in Nat \ {0}
  BY CommitFacts
<1>2. PICK row : row = NewJob(t, a, order.cv + 1, NoKey, s)
  OBVIOUS
<1>3. IsNew(row)
  BY <1>1, <1>2 DEF NewJob, IsNew, JobRow
<1>4. row.type = t /\ row.asset = a /\ row.cv = order.cv + 1
  BY <1>2 DEF NewJob
<1>5. PICK k \in JobId :
        /\ job'[k] \in JobRow /\ IsActive(job'[k]) /\ job'[k].type = row.type
        /\ job'[k].asset = row.asset /\ job'[k].cv = row.cv
  BY <1>2, <1>3, Continued
<1>6. job'[k] # NoJob
  BY <1>5 DEF JobRow, NoJob
<1> QED
  BY <1>4, <1>5, <1>6 DEF Pending

LEMMA ProofEnqueued ==
  ASSUME Typed, Bound, NEW w \in Worker, CommitInspection(w) \/ CommitRepaired(w),
         order'.status = "RESOLVED"
  PROVE  Pending(job', "prepare_proof", order'.cur, order'.cv)
<1>1. CASE CommitInspection(w)
  <2>1. /\ SameArtwork /\ order'.cv = order.cv + 1
        /\ DecideArtworkStatus(InspectedWith(w), order.intent) = "RESOLVED"
    BY <1>1, InspectionFields
  <2>2. WorksOn(w, "inspect") /\ Commits(w)
    BY <1>1 DEF CommitInspection
  <2>3. worker[w] # Idle /\ job[worker[w].job].asset = order.cur
    BY <2>2, SeenFacts, SeenIsCurrent DEF WorksOn
  <2>4. order.cur \in AssetId
    BY <2>2, <2>3, CommitFacts
  <2>5. Continue(w, NewJob("prepare_proof", order.cur, order.cv + 1, NoKey, None))
    BY <1>1, <2>1, <2>3 DEF CommitInspection
  <2>6. Pending(job', "prepare_proof", order.cur, order.cv + 1)
    BY <2>2, <2>3, <2>4, <2>5, ContinuedPending DEF JobType
  <2> QED
    BY <2>1, <2>6 DEF SameArtwork
<1>2. CASE CommitRepaired(w)
  <2>1. PICK d \in AssetId :
          /\ order'.cur = d /\ order'.cv = order.cv + 1
          /\ Continue(w, NewJob("prepare_proof", d, order.cv + 1, NoKey, None))
    BY <1>2, RepairedFields
  <2>2. Commits(w) /\ worker[w] # Idle
    BY <1>2, SeenFacts DEF CommitRepaired, RepairCommits, WorksOn
  <2>3. Pending(job', "prepare_proof", d, order.cv + 1)
    BY <2>1, <2>2, ContinuedPending DEF JobType
  <2> QED
    BY <2>1, <2>3
<1> QED
  BY <1>1, <1>2

ProofComes ==
    order.status = "RESOLVED" /\ order.proof = "NOT_PREPARED"
      => Pending(job, "prepare_proof", order.cur, order.cv)

LEMMA StepProofComes ==
  ASSUME Typed, Bound, Lineage, ProofComes, Next
  PROVE  ProofComes'
<1>1. CaseStep
  BY StepTyped
<1>2. CASE Stays /\ (Quiet \/ \E w \in Worker : CommitAutoRepair(w))
  <2> SUFFICES ASSUME order.status = "RESOLVED", order.proof = "NOT_PREPARED"
               PROVE  Pending(job', "prepare_proof", order.cur, order.cv)
    BY <1>2 DEF Stays, ProofComes
  <2>1. PICK j \in JobId :
          /\ job[j] # NoJob
          /\ job[j].type = "prepare_proof" /\ job[j].asset = order.cur /\ job[j].cv = order.cv
          /\ IsActive(job[j]) \/ job[j].note = "failed"
    BY DEF ProofComes, Pending
  <2>2. CASE Quiet
    <3>1. /\ job'[j] # NoJob /\ SameJob(job[j], job'[j])
          /\ IsActive(job'[j]) \/ job'[j].note = "failed"
      BY <1>1, <2>1, <2>2, QuietKeepsJob
    <3> QED
      BY <2>1, <3>1 DEF Pending, SameJob
  <2>3. CASE \E w \in Worker : CommitAutoRepair(w)
    <3>1. job'[j] = job[j]
      BY <2>1, <2>3, AutoRepairKeepsJob
    <3> QED
      BY <2>1, <3>1 DEF Pending
  <2> QED
    BY <1>2, <2>2, <2>3
<1>3. CASE (\E art \in Artworks : Upload(art)) \/ Reopens \/ MovesOn
  BY <1>3, UploadFields DEF Reopens, MovesOn, ProofComes
<1>4. CASE \E w \in Worker : CommitProof(w)
  BY <1>4, ProofFields DEF ProofComes
<1>5. CASE \E w \in Worker : CommitInspection(w) \/ CommitRepaired(w)
  BY <1>5, ProofEnqueued DEF ProofComes
<1> QED
  BY <1>2, <1>3, <1>4, <1>5, StepKinds

(* A RESOLVED case without its proof has the job that prepares it, or that *)
(* job was failed by its own worker: it is never skipped as already        *)
(* enqueued, nor superseded (ensureJobEnqueued, runPrepareProof).          *)
THEOREM ResolvedKeepsProofJob == Spec => []ResolvedHasProofJob
<1>1. Init => ProofComes
  <2>1. ASSUME Init PROVE order.status = "BLOCKED"
    BY <2>1 DEF Init
  <2> QED
    BY <2>1 DEF ProofComes
<1>2. Typed /\ Bound /\ Lineage /\ ProofComes /\ [Next]_vars => ProofComes'
  <2>1. ProofComes /\ UNCHANGED vars => ProofComes'
    BY DEF vars, ProofComes, Pending
  <2> QED
    BY <2>1, StepProofComes
<1>3. ProofComes => ResolvedHasProofJob
  BY DEF ProofComes, Pending, ResolvedHasProofJob
<1> QED
  BY <1>1, <1>2, <1>3, AlwaysLineage, PTL DEF Spec
-----------------------------------------------------------------------------
LEMMA ClarMoves ==
  ASSUME Typed, Next
  PROVE  \/ clar' = clar
         \/ \E art \in Artworks : Upload(art)
         \/ \E v : \E c \in ClarId, r \in Replies : AnswerClarification(c, r, v)
         \/ \E w \in Worker : CommitQuestion(w)
<1>1. CASE Customers
  BY <1>1 DEF Customers, ConfirmTrim, EscalateCase, StartRead, StartInsert,
     RepairReadOrder, RepairReadDone, RepairReadActive, RepairReadOriginal, RepairInsert
<1>2. CASE \E w \in Worker : Claim(w) \/ WorkStep(w) \/ Lose(w)
  BY <1>2 DEF Claim, WorkStep, Load, Decide, CommitStep, CommitInspection, CommitRepaired,
     CommitRejected, CommitProof, CommitAutoRepair, CommitEscalation, Refuse, FailWork, Lose
<1>3. CASE \E i \in JobId : LeaseRunsOut(i) \/ OutrunLease(i)
  BY <1>3 DEF LeaseRunsOut, OutrunLease
<1> QED
  BY <1>1, <1>2, <1>3 DEF Next

(* The question an agent's decision asks is the active one, and about the  *)
(* current artwork. *)
LEMMA QuestionAsked ==
  ASSUME Typed, Gapless(clar, NoClar), NEW w \in Worker, CommitQuestion(w)
  PROVE  /\ Gapless(clar', NoClar)
         /\ \E c \in ClarId : /\ clar'[c].state = "open" /\ clar'[c].av = order.av
                              /\ clar'[c].about = order.cur
                              /\ \A d \in ClarId : clar'[d].state = "open" => d <= c
<1>1. PICK c \in ClarId :
        /\ NextRow(clar, NoClar, c)
        /\ clar' = [clar EXCEPT ![c] = [state |-> "open", av |-> order.av, about |-> order.cur]]
  BY DEF CommitQuestion
<1>2. PICK row : row = [state |-> "open", av |-> order.av, about |-> order.cur]
  OBVIOUS
<1>3. row.state = "open" /\ row.av = order.av /\ row.about = order.cur /\ row # NoClar
  BY <1>2 DEF NoClar
<1>4. DOMAIN clar = ClarId /\ ClarId \subseteq Nat
  BY DEF Typed, Clars, ClarId
<1>5. c \in DOMAIN clar /\ row # NoClar /\ DOMAIN clar \subseteq Nat
  BY <1>3, <1>4
<1>6. NextRow(clar, NoClar, c) /\ Gapless(clar, NoClar)
  BY <1>1
<1>7. Gapless([clar EXCEPT ![c] = row], NoClar)
  BY ONLY <1>5, <1>6, InsertKeepsGapless
<1>8. \A d \in DOMAIN clar : clar[d] # NoClar => d < c
  BY ONLY <1>5, <1>6, InsertKeepsGapless
<1>9. clar' = [clar EXCEPT ![c] = row]
  BY <1>1, <1>2
<1>10. clar'[c] = row /\ \A d \in ClarId \ {c} : clar'[d] = clar[d]
  BY <1>4, <1>9
<1>11. \A d \in ClarId : clar'[d].state = "open" => d <= c
  <2> SUFFICES ASSUME NEW d \in ClarId, clar'[d].state = "open" PROVE d <= c
    OBVIOUS
  <2>1. CASE d = c
    BY <1>4, <2>1
  <2>2. CASE d # c
    <3>1. clar[d] # NoClar
      BY <1>10, <2>2 DEF NoClar
    <3>2. d < c
      BY <1>4, <1>8, <3>1
    <3> QED
      BY <1>4, <3>2
  <2> QED
    BY <2>1, <2>2
<1> QED
  BY <1>3, <1>7, <1>9, <1>10, <1>11

LEMMA StepClars ==
  ASSUME Typed, Gapless(clar, NoClar), Next
  PROVE  Gapless(clar', NoClar)
<1>1. DOMAIN clar = ClarId
  BY DEF Typed, Clars
<1>2. ASSUME DOMAIN clar' = ClarId, \A c \in ClarId : clar'[c] = NoClar <=> clar[c] = NoClar
      PROVE  Gapless(clar', NoClar)
  BY <1>1, <1>2 DEF Gapless
<1>3. CASE clar' = clar
  BY <1>3
<1>4. CASE \E art \in Artworks : Upload(art)
  <2>1. clar' = [c \in ClarId |-> IF clar[c].state = "open"
                                  THEN [clar[c] EXCEPT !.state = "invalidated"]
                                  ELSE clar[c]]
    BY <1>4 DEF Upload
  <2>2. \A c \in ClarId : clar[c].state = "open" =>
          clar[c] # NoClar /\ [clar[c] EXCEPT !.state = "invalidated"] # NoClar
    BY DEF Typed, Clars, NoClar
  <2> QED
    BY <1>2, <2>1, <2>2
<1>5. CASE \E v : \E c \in ClarId, r \in Replies : AnswerClarification(c, r, v)
  <2>1. PICK c \in ClarId : /\ clar' = [clar EXCEPT ![c].state = "answered"]
                            /\ clar[c].state = "open"
    BY <1>5 DEF AnswerClarification, Answerable
  <2>2. clar[c] # NoClar /\ [clar[c] EXCEPT !.state = "answered"] # NoClar
    BY <2>1 DEF Typed, Clars, NoClar
  <2> QED
    BY <1>1, <1>2, <2>1, <2>2
<1>6. CASE \E w \in Worker : CommitQuestion(w)
  BY <1>6, QuestionAsked
<1> QED
  BY <1>3, <1>4, <1>5, <1>6, ClarMoves

LEMMA StepAnswerable ==
  ASSUME Typed, Bound, Lineage, Gapless(clar, NoClar), QuestionCanBeAnswered, Next
  PROVE  QuestionCanBeAnswered'
<1>1. CASE Stays
  BY <1>1 DEF Stays, QuestionCanBeAnswered, Answerable
<1>2. CASE (\E art \in Artworks : Upload(art)) \/ Reopens
  BY <1>2, UploadFields DEF Reopens, QuestionCanBeAnswered
<1>3. CASE MovesOn
  <2> SUFFICES ASSUME order'.status = "AWAITING_CLARIFICATION" PROVE QuestionCanBeAnswered'
    BY DEF QuestionCanBeAnswered
  <2>1. PICK w \in Worker : CommitQuestion(w)
    BY <1>3 DEF MovesOn
  <2>2. order.trim = "unknown"
    <3>1. /\ worker[w].pc = "decided" /\ worker[w].action = "ask_clarification" /\ Commits(w)
      BY <2>1 DEF CommitQuestion, Decided
    <3> QED
      BY <3>1, DecisionHolds
  <2>3. PICK c \in ClarId : /\ clar'[c].state = "open" /\ clar'[c].av = order.av
                            /\ clar'[c].about = order.cur
                            /\ \A d \in ClarId : clar'[d].state = "open" => d <= c
    BY <2>1, QuestionAsked
  <2> QED
    BY <1>3, <2>2, <2>3 DEF MovesOn, SameArtwork, QuestionCanBeAnswered, Answerable
<1>4. CASE \E w \in Worker : CommitProof(w)
  <2>1. clar' = clar
    BY <1>4 DEF CommitProof
  <2> QED
    BY <1>4, <2>1, ProofFields DEF SameArtwork, QuestionCanBeAnswered, Answerable
<1>5. CASE \E w \in Worker : CommitInspection(w) \/ CommitRepaired(w)
  <2>1. order'.status # "AWAITING_CLARIFICATION"
    BY <1>5, InspectionFields, RepairedFields, DecideType
  <2> QED
    BY <2>1 DEF QuestionCanBeAnswered
<1> QED
  BY <1>1, <1>2, <1>3, <1>4, <1>5, StepKinds

(* AWAITING_CLARIFICATION means that there is something to answer: an open *)
(* question about the current artwork, whose trim the customer has not     *)
(* confirmed or denied (CompleteAgentDecision, RecordArtworkUpload,        *)
(* AnswerClarificationAndConfirmTrim).                                     *)
THEOREM QuestionStaysAnswerable == Spec => []QuestionCanBeAnswered
<1> DEFINE I == Gapless(clar, NoClar) /\ QuestionCanBeAnswered
<1>1. Init => I
  <2>1. ASSUME Init PROVE order.status = "BLOCKED" /\ clar = [c \in ClarId |-> NoClar]
    BY <2>1 DEF Init
  <2> QED
    BY <2>1 DEF QuestionCanBeAnswered, Gapless
<1>2. Typed /\ Bound /\ Lineage /\ I /\ [Next]_vars => I'
  <2>1. I /\ UNCHANGED vars => I'
    BY DEF vars, QuestionCanBeAnswered, Answerable, Gapless
  <2> QED
    BY <2>1, StepClars, StepAnswerable
<1> QED
  BY <1>1, <1>2, AlwaysLineage, PTL DEF Spec
-----------------------------------------------------------------------------
(* What every transaction of a worker does to the table of jobs: its own   *)
(* job has succeeded, and at most one row follows.                         *)
Follows(w) == job' = Done(w) \/ \E row : IsNew(row) /\ Continue(w, row)

LEMMA CommitFollows ==
  ASSUME Typed, Bound, NEW w \in Worker, CommitStep(w)
  PROVE  worker[w] # Idle /\ Commits(w) /\ Follows(w)
<1>1. Commits(w)
  BY CommitsOwnMemory
<1>2. worker[w] # Idle
  <2>1. worker[w].pc \in {"loaded", "decided"}
    BY DEF CommitStep, CommitInspection, CommitRepaired, CommitRejected, CommitProof, CommitQuestion,
       CommitAutoRepair, CommitEscalation, RepairCommits, WorksOn, Decided
  <2> QED
    BY <2>1 DEF Idle
<1>3. /\ worker[w].job \in JobId /\ order.cv \in Nat \ {0}
      /\ job[worker[w].job].asset \in AssetId
  BY <1>1, <1>2, CommitFacts
<1> SUFFICES Follows(w)
  BY <1>1, <1>2
<1>4. ASSUME NEW t \in JobType, NEW a \in AssetId, NEW s \in JobId \cup {None},
             Continue(w, NewJob(t, a, order.cv + 1, NoKey, s))
      PROVE  Follows(w)
  <2>1. PICK row : row = NewJob(t, a, order.cv + 1, NoKey, s)
    OBVIOUS
  <2>2. IsNew(row)
    BY <1>3, <2>1 DEF NewJob, IsNew, JobRow
  <2> QED
    BY <1>4, <2>1, <2>2 DEF Follows
<1>5. CASE CommitInspection(w)
  <2>1. \/ Continue(w, NewJob("prepare_proof", job[worker[w].job].asset, order.cv + 1, NoKey, None))
        \/ Continue(w, NewJob("agent_decide", job[worker[w].job].asset, order.cv + 1, NoKey, worker[w].job))
        \/ job' = Done(w)
    BY <1>5 DEF CommitInspection
  <2> QED
    BY <1>3, <1>4, <2>1 DEF Follows, JobType
<1>6. CASE CommitRepaired(w)
  <2>1. \E d \in AssetId : \/ Continue(w, NewJob("prepare_proof", d, order.cv + 1, NoKey, None))
                           \/ job' = Done(w)
    BY <1>6 DEF CommitRepaired
  <2> QED
    BY <1>4, <2>1 DEF Follows, JobType
<1>7. CASE CommitAutoRepair(w)
  BY <1>7, AutoRepairRow DEF Follows
<1>8. CASE CommitRejected(w) \/ CommitProof(w) \/ CommitQuestion(w) \/ CommitEscalation(w)
  BY <1>8 DEF CommitRejected, CommitProof, CommitQuestion, CommitEscalation, Follows
<1> QED
  BY <1>1, <1>2, <1>5, <1>6, <1>7, <1>8 DEF CommitStep

(* No step makes a job succeed but the commit of the worker that has it.   *)
LEMMA OthersDoNotSucceed ==
  ASSUME Typed, Bound, Next, NEW j \in JobId, job'[j].status = "SUCCEEDED", job'[j] # job[j]
  PROVE  \E w \in Worker : CommitStep(w) /\ worker[w].job = j
<1>1. CaseStep /\ JobsStep(job, job') /\ job \in Tables
  BY StepTyped DEF CaseStep, Typed, JobsOK
<1>2. job[j] # NoJob /\ job[j] \in JobRow /\ IsActive(job[j])
  <2>1. ~IsNew(job'[j])
    BY DEF IsNew
  <2> QED
    BY <1>1, <2>1, RowFacts DEF JobsStep
<1>3. ~QuietJobs
  BY <1>2 DEF QuietJobs, IsActive
<1>4. CASE Customers
  <2>1. CASE \E c \in Client : SessionStep(c)
    BY <1>3, <2>1, QuietSessions DEF Quiet
  <2>2. CASE \E v : \E c \in ClarId, r \in Replies : AnswerClarification(c, r, v)
    <3>1. PICK i \in JobId :
            job' = EnsureJobEnqueued(job, i, NewJob("inspect", order.cur, order.cv + 1, NoKey, None))
      BY <2>2, <1>2 DEF AnswerClarification
    <3>2. PICK row : row = NewJob("inspect", order.cur, order.cv + 1, NoKey, None)
      OBVIOUS
    <3>3. job' = EnsureJobEnqueued(job, i, row) /\ row.status = "QUEUED"
      BY <3>1, <3>2 DEF NewJob
    <3>4. \/ job'[j] = job[j]
          \/ job'[j] = row
          \/ job'[j] = Superseded(job[j])
      BY <1>1, <3>3 DEF EnsureJobEnqueued, Tables, Superseded
    <3>5. Superseded(job[j]).status = "FAILED"
      BY <1>2, SupersededRow
    <3> QED
      BY <3>3, <3>4, <3>5
  <2>3. CASE job' = job
    BY <2>3
  <2> QED
    BY <1>4, <2>1, <2>2, <2>3 DEF Customers, SessionStep, Upload, ConfirmTrim, EscalateCase
<1>5. ASSUME NEW w \in Worker, Claim(w) \/ WorkStep(w) \/ Lose(w)
      PROVE  CommitStep(w) /\ worker[w].job = j
  <2>1. CommitStep(w)
    BY <1>3, <1>5, QuietWorkers DEF Quiet, WorkStep, QuietWork
  <2>2. worker[w] # Idle /\ Commits(w) /\ Follows(w)
    BY <2>1, CommitFollows
  <2>3. j # worker[w].job => \/ job'[j] = job[j]
                             \/ job[j] = NoJob
                             \/ job'[j] = Superseded(job[j])
    <3>1. CASE job' = Done(w)
      BY <2>2, <3>1, DoneMoves
    <3>2. CASE \E row : IsNew(row) /\ Continue(w, row)
      BY <2>2, <3>2, Continued
    <3> QED
      BY <2>2, <3>1, <3>2 DEF Follows
  <2>4. Superseded(job[j]).status = "FAILED"
    BY <1>2, SupersededRow
  <2> QED
    BY <1>2, <2>1, <2>3, <2>4
<1>6. CASE \E i \in JobId : LeaseRunsOut(i) \/ OutrunLease(i)
  BY <1>3, <1>6, QuietLeases DEF Quiet
<1> QED
  BY <1>4, <1>5, <1>6 DEF Next

(* Every repair has its job, and every job that repaired has its repair.   *)
RepairRows ==
    /\ \A r \in repair : job[r.job].type = "repair" /\ job[r.job].key = r.key
    /\ \A r, s \in repair : r.key = s.key => r = s
    /\ \A j \in JobId : job[j].status = "SUCCEEDED" /\ job[j].type = "repair"
                          => \E r \in repair : r.job = j

LEMMA RepairMoves ==
  ASSUME Typed, Next
  PROVE  repair' = repair \/ \E w \in Worker : CommitRepaired(w) \/ CommitRejected(w)
<1>1. CASE Customers
  BY <1>1 DEF Customers, Upload, ConfirmTrim, EscalateCase, AnswerClarification, StartRead, StartInsert,
     RepairReadOrder, RepairReadDone, RepairReadActive, RepairReadOriginal, RepairInsert
<1>2. CASE \E w \in Worker : Claim(w) \/ WorkStep(w) \/ Lose(w)
  BY <1>2 DEF Claim, WorkStep, Load, Decide, CommitStep, CommitInspection,
     CommitProof, CommitQuestion, CommitAutoRepair, CommitEscalation, Refuse, FailWork, Lose
<1>3. CASE \E i \in JobId : LeaseRunsOut(i) \/ OutrunLease(i)
  BY <1>3 DEF LeaseRunsOut, OutrunLease
<1> QED
  BY <1>1, <1>2, <1>3 DEF Next

LEMMA RepairedKept ==
  ASSUME Typed, Next, NEW r \in repair
  PROVE  r.job \in JobId /\ job'[r.job] = job[r.job]
<1>1. r.job \in JobId /\ job[r.job].status = "SUCCEEDED"
  BY DEF Typed, RepairsOK, Repairs
<1> QED
  BY <1>1, StepTyped, JobsKept

LEMMA StepRepairRows ==
  ASSUME Typed, Bound, RepairRows, Next
  PROVE  RepairRows'
<1>1. \A r \in repair : job'[r.job].type = "repair" /\ job'[r.job].key = r.key
  BY RepairedKept DEF RepairRows
<1>2. CASE repair' = repair /\ ~\E w \in Worker : CommitRepaired(w) \/ CommitRejected(w)
  <2>1. ASSUME NEW j \in JobId, job'[j].status = "SUCCEEDED", job'[j].type = "repair"
        PROVE  job'[j] = job[j]
    <3> SUFFICES ASSUME job'[j] # job[j] PROVE FALSE
      OBVIOUS
    <3>1. PICK w \in Worker : CommitStep(w) /\ worker[w].job = j
      BY <2>1, OthersDoNotSucceed
    <3>2. worker[w] # Idle /\ Commits(w)
      BY <3>1, CommitFollows
    <3>3. job[j].type # "repair"
      <4>1. CASE worker[w].pc = "decided"
        BY <3>1, <3>2, <4>1, DecisionHolds
      <4>2. CASE worker[w].pc # "decided"
        BY <1>2, <3>1, <4>2 DEF CommitStep, CommitInspection, CommitProof, CommitQuestion,
           CommitAutoRepair, CommitEscalation, WorksOn, Decided
      <4> QED
        BY <4>1, <4>2
    <3>4. job'[j].type = job[j].type
      BY <3>1, <3>2, StepTyped, JobsKept, CommitFacts DEF SameJob
    <3> QED
      BY <2>1, <3>3, <3>4
  <2>2. \A j \in JobId : job'[j].status = "SUCCEEDED" /\ job'[j].type = "repair"
                           => \E r \in repair : r.job = j
    BY <2>1 DEF RepairRows
  <2> QED
    BY <1>1, <1>2, <2>2 DEF RepairRows
<1>3. ASSUME NEW w \in Worker, CommitRepaired(w) \/ CommitRejected(w)
      PROVE  RepairRows'
  <2>1. PICK s, d : repair' = repair \cup {RepairRow(w, s, d)}
    BY <1>3 DEF CommitRepaired, CommitRejected
  <2>2. PICK n : n = RepairRow(w, s, d)
    OBVIOUS
  <2>3. n.key = job[worker[w].job].key /\ n.job = worker[w].job
    BY <2>2 DEF RepairRow
  <2>4. CommitStep(w) /\ worker[w] # Idle /\ Commits(w)
    BY <1>3, CommitFollows DEF CommitStep
  <2>5. \A r \in repair : r.key # n.key
    BY <1>3, <2>3 DEF CommitRepaired, CommitRejected, RepairCommits, KeyTaken
  <2>6. job'[n.job].type = "repair" /\ job'[n.job].key = n.key
    <3>1. job[n.job].type = "repair" /\ n.job \in JobId /\ job[n.job].status = "RUNNING"
      BY <1>3, <2>3, <2>4, CommitFacts DEF CommitRepaired, CommitRejected, RepairCommits, WorksOn
    <3>2. SameJob(job[n.job], job'[n.job])
      BY <3>1, StepTyped, JobsKept
    <3> QED
      BY <2>3, <3>1, <3>2 DEF SameJob
  <2>7. ASSUME NEW j \in JobId, job'[j].status = "SUCCEEDED", job'[j].type = "repair"
        PROVE  \E r \in repair' : r.job = j
    <3>1. CASE job'[j] = job[j]
      BY <2>1, <2>7, <3>1 DEF RepairRows
    <3>2. CASE job'[j] # job[j]
      <4>1. PICK v \in Worker : CommitStep(v) /\ worker[v].job = j
        BY <2>7, <3>2, OthersDoNotSucceed
      <4>2. v = w
        <5>1. Release(v) /\ Release(w) /\ worker[v] # Idle /\ worker[w] # Idle
          BY <2>4, <4>1, CommitsOwnMemory, CommitFollows
        <5>2. v # w => worker'[v] = worker[v]
          BY <5>1 DEF Release, Typed, HandsOK
        <5>3. worker'[v] = Idle
          BY <5>1 DEF Release, Typed, HandsOK
        <5> QED
          BY <5>1, <5>2, <5>3
      <4> QED
        BY <2>1, <2>2, <2>3, <4>1, <4>2
    <3> QED
      BY <3>1, <3>2
  <2>8. \A r \in repair' : r \in repair \/ r = n
    BY <2>1, <2>2
  <2>9. \A r, q \in repair' : r.key = q.key => r = q
    BY <2>5, <2>8 DEF RepairRows
  <2>10. \A r \in repair' : job'[r.job].type = "repair" /\ job'[r.job].key = r.key
    BY <1>1, <2>6, <2>8
  <2> QED
    BY <2>7, <2>9, <2>10 DEF RepairRows
<1> QED
  BY <1>2, <1>3, RepairMoves

(* An idempotency key is spent once: one repair, one job that succeeded,   *)
(* over retries, replays and lost workers (completedRepair, CompleteRepair *)
(* and the unique index on repairs).                                       *)
THEOREM KeysAreSpentOnce == Spec => []OneRepairPerKey
<1>1. Init => RepairRows
  <2>1. ASSUME Init PROVE repair = {} /\ job = [j \in JobId |-> NoJob]
    BY <2>1 DEF Init
  <2> QED
    BY <2>1 DEF RepairRows, NoJob
<1>2. Typed /\ Bound /\ RepairRows /\ [Next]_vars => RepairRows'
  <2>1. RepairRows /\ UNCHANGED vars => RepairRows'
    BY DEF vars, RepairRows
  <2> QED
    BY <2>1, StepRepairRows
<1>3. RepairRows => OneRepairPerKey
  BY DEF RepairRows, OneRepairPerKey
<1> QED
  BY <1>1, <1>2, <1>3, AlwaysBound, PTL DEF Spec
-----------------------------------------------------------------------------
LeadsOn(J, v, i) ==
    \E j \in JobId : /\ J[j] # NoJob /\ J[j].cv = v
                     /\ IsActive(J[j]) \/ J[j].note = "failed"
                     /\ \/ J[j].type = "agent_decide" /\ J[j].src = i
                        \/ J[j].type = "repair"

LEMMA InspectionLeads ==
  ASSUME Typed, Bound, NEW w \in Worker, CommitInspection(w), w \in Agentic, order'.status # "RESOLVED"
  PROVE  LeadsOn(job', order.cv + 1, worker[w].job)
<1> DEFINE i == worker[w].job
<1>1. WorksOn(w, "inspect") /\ Commits(w)
  BY DEF CommitInspection
<1>2. worker[w] # Idle
  BY <1>1, SeenFacts DEF WorksOn
<1>3. i \in JobId /\ order.cv \in Nat \ {0} /\ job[i].asset \in AssetId
  BY <1>1, <1>2, CommitFacts
<1>4. DecideArtworkStatus(InspectedWith(w), order.intent) # "RESOLVED"
  BY InspectionFields
<1>5. PICK row : row = NewJob("agent_decide", job[i].asset, order.cv + 1, NoKey, i)
  OBVIOUS
<1>6. Continue(w, row)
  BY <1>4, <1>5 DEF CommitInspection
<1>7. IsNew(row)
  BY <1>3, <1>5 DEF NewJob, IsNew, JobRow, JobType
<1>8. row.type = "agent_decide" /\ row.cv = order.cv + 1 /\ row.src = i
  BY <1>5 DEF NewJob
<1>9. PICK k \in JobId :
        /\ job'[k] \in JobRow /\ IsActive(job'[k]) /\ job'[k].type = row.type
        /\ job'[k].cv = row.cv
        /\ job'[k] = row \/ job'[k] = job[k]
  BY <1>1, <1>2, <1>6, <1>7, Continued
<1>10. job'[k] # NoJob
  BY <1>9 DEF JobRow, NoJob
<1>11. job'[k] = row
  <2> SUFFICES ASSUME job'[k] = job[k] PROVE FALSE
    BY <1>9
  <2>1. job[k].cv <= order.cv
    BY <1>10 DEF Typed, JobsOK, JobFits
  <2> QED
    BY <1>3, <1>8, <1>9, <2>1
<1> QED
  BY <1>8, <1>9, <1>10, <1>11 DEF LeadsOn

LEMMA StepLeadsOn ==
  ASSUME Typed, Bound, InspectionLeadsOn, Next
  PROVE  InspectionLeadsOn'
<1>1. CaseStep
  BY StepTyped
<1> SUFFICES ASSUME NEW i \in JobId, Agentic = Worker,
                    job'[i] # NoJob, job'[i].type = "inspect", job'[i].status = "SUCCEEDED",
                    order'.cv = job'[i].cv + 1, order'.status # "RESOLVED"
             PROVE  LeadsOn(job', order'.cv, i)
  BY DEF InspectionLeadsOn, LeadsOn
<1>2. CASE job'[i] = job[i] /\ order'.cv = order.cv + 1
  <2>1. job[i].cv \in Nat /\ order.cv \in Nat
    <3>1. job[i] \in JobRow
      BY <1>2, RowFacts DEF Typed, JobsOK
    <3> QED
      BY <3>1, <1>1, JobsKept DEF JobRow
  <2>2. job[i].cv = order.cv
    BY <1>2, <2>1
  <2>3. RowBound(job[i], order, asset, finding)
    BY <1>2 DEF Bound, RowsBound
  <2> QED
    BY <1>2, <2>2, <2>3 DEF RowBound
<1>3. CASE job'[i] = job[i] /\ Stays /\ (Quiet \/ \E w \in Worker : CommitAutoRepair(w))
  <2>1. order' = order
    BY <1>3 DEF Stays
  <2>2. PICK j \in JobId : /\ job[j] # NoJob /\ job[j].cv = order.cv
                           /\ IsActive(job[j]) \/ job[j].note = "failed"
                           /\ \/ job[j].type = "agent_decide" /\ job[j].src = i
                              \/ job[j].type = "repair"
    BY <1>3, <2>1 DEF InspectionLeadsOn
  <2>3. CASE Quiet
    <3>1. /\ job'[j] # NoJob /\ SameJob(job[j], job'[j])
          /\ IsActive(job'[j]) \/ job'[j].note = "failed"
      BY <1>1, <2>2, <2>3, QuietKeepsJob
    <3> QED
      BY <2>1, <2>2, <3>1 DEF LeadsOn, SameJob
  <2>4. ASSUME NEW w \in Worker, CommitAutoRepair(w)
        PROVE  LeadsOn(job', order'.cv, i)
    <3>1. PICK row : IsNew(row) /\ row.type = "repair" /\ row.cv = order.cv /\ Continue(w, row)
      BY <2>4, AutoRepairRow
    <3>2. PICK k \in JobId : /\ job'[k] \in JobRow /\ IsActive(job'[k])
                             /\ job'[k].type = row.type /\ job'[k].cv = row.cv
      BY <2>4, <3>1, AutoRepairRow, Continued
    <3>3. job'[k] # NoJob
      BY <3>2 DEF JobRow, NoJob
    <3> QED
      BY <2>1, <3>1, <3>2, <3>3 DEF LeadsOn
  <2> QED
    BY <1>3, <2>3, <2>4
<1>4. CASE job'[i] # job[i]
  <2>1. PICK w \in Worker : CommitStep(w) /\ worker[w].job = i
    BY <1>4, OthersDoNotSucceed
  <2>2. worker[w] # Idle /\ Commits(w)
    BY <2>1, CommitFollows
  <2>3. job[i].type = "inspect"
    BY <2>1, <2>2, <1>1, JobsKept, CommitFacts DEF SameJob
  <2>4. CommitInspection(w)
    <3>1. worker[w].pc # "decided"
      BY <2>1, <2>2, <2>3, DecisionHolds
    <3> QED
      BY <2>1, <2>3, <3>1 DEF CommitStep, CommitRepaired, CommitRejected, RepairCommits, CommitProof,
         CommitQuestion, CommitAutoRepair, CommitEscalation, WorksOn, Decided
  <2>5. order'.cv = order.cv + 1
    BY <2>4, InspectionFields
  <2> QED
    BY <2>1, <2>4, <2>5, InspectionLeads
<1>5. \/ Stays /\ (Quiet \/ \E w \in Worker : CommitAutoRepair(w))
      \/ order'.cv = order.cv + 1
  <2>1. \A art \in Artworks : Upload(art) => order'.cv = order.cv + 1
    BY OrderAfterRequest
  <2> QED
    BY <2>1, StepKinds, ProofFields, InspectionFields, RepairedFields DEF Reopens, MovesOn
<1> QED
  BY <1>2, <1>3, <1>4, <1>5

(* Where every worker has a provider, an inspection that left the case     *)
(* unresolved leads on to a decision or a repair: its follow-up is never   *)
(* swallowed by a job of an earlier version (runInspect,                   *)
(* ensureJobEnqueued).                                                     *)
THEOREM InspectionAlwaysLeadsOn == Spec => []InspectionLeadsOn
<1>1. Init => InspectionLeadsOn
  <2>1. ASSUME Init PROVE job = [j \in JobId |-> NoJob]
    BY <2>1 DEF Init
  <2> QED
    BY <2>1 DEF InspectionLeadsOn
<1>2. Typed /\ Bound /\ InspectionLeadsOn /\ [Next]_vars => InspectionLeadsOn'
  <2>1. InspectionLeadsOn /\ UNCHANGED vars => InspectionLeadsOn'
    BY DEF vars, InspectionLeadsOn
  <2> QED
    BY <2>1, StepLeadsOn
<1> QED
  BY <1>1, <1>2, AlwaysBound, PTL DEF Spec
=============================================================================

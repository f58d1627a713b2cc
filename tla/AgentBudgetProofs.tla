------------------------- MODULE AgentBudgetProofs -------------------------
(***************************************************************************)
(* Proofs about the agent's budget, for any caps, any durations that leave *)
(* the margin, and any number of workers, jobs, uploads and faults.        *)
(***************************************************************************)
EXTENDS AgentBudget, TLAPS

(* What the step lemmas need to know of every state. *)
Counters == /\ used \in [Attempt -> Nat] /\ \A k \in Attempt : used[k] <= Cap[k]
            /\ version \in Nat /\ upload \in 0 .. MaxUploads /\ faults \in 0 .. MaxFaults
            /\ spent \subseteq Token

Rows == /\ job \in [JobId -> JobRow \cup {NoJob}]
        /\ lease \in [JobId -> 0 .. LeaseDuration]
        /\ \A i \in JobId : lease[i] > 0 <=> job[i].status = "RUNNING" /\ job[i].live

Hands == worker \in [Worker -> Hand]

LEMMA TypeParts == TypeOK <=> Counters /\ Hands /\ Rows
  BY DEF TypeOK, Counters, Hands, Rows

Assumptions == /\ MaxAgentToolCalls \in Nat /\ MaxAgentTransientRetries \in Nat
               /\ MaxUploads \in Nat /\ MaxFaults \in Nat /\ MaxJobs \in Nat
               /\ LeaseDuration \in Nat /\ AgentDecisionDeadline \in Nat
               /\ GroqHTTPTimeout \in Nat /\ DbTime \in Nat
               /\ DbTime + AgentDecisionDeadline < LeaseDuration
               /\ NoWorker \notin Worker

LEMMA AllAssumptions == Assumptions
  BY CapsAssumption, BoundsAssumption, TimeAssumption, MarginAssumption, WorkersAssumption
     DEF Assumptions

LEMMA IdleIsHand == Idle \in Hand
  BY AllAssumptions DEF Idle, Hand, NoToken, Token, Attempt, Assumptions

LEMMA InitType == Init => TypeOK
<1> SUFFICES ASSUME Init PROVE Counters /\ Hands /\ Rows
  BY TypeParts
<1>1. Counters
  BY AllAssumptions DEF Init, Counters, Assumptions, Cap, Attempt
<1>2. Hands
  BY IdleIsHand DEF Init, Hands
<1>3. Rows
  BY AllAssumptions DEF Init, Rows, NoJob, Assumptions
<1> QED
  BY <1>1, <1>2, <1>3
-----------------------------------------------------------------------------
(* A reservation leaves the counters within their caps, and the token it   *)
(* hands out is within the cap.                                            *)
LEMMA ReserveType ==
  ASSUME Counters, Hands, NEW w \in Worker, NEW k \in Attempt, Reserve(w, k),
         UNCHANGED <<version, upload, spent, faults>>
  PROVE  /\ Counters' /\ Hands'
         /\ used' = [used EXCEPT ![k] = used[k] + 1]
         /\ used[k] + 1 <= Cap[k]
         /\ worker' = [worker EXCEPT ![w] =
                         [worker[w] EXCEPT !.pc = "reserved",
                                           !.token = [upload |-> upload, kind |-> k, n |-> used[k] + 1]]]
<1>1. used' = [used EXCEPT ![k] = used[k] + 1] /\ used[k] \in Nat /\ used[k] < Cap[k]
  BY DEF Reserve, Reserved, CanReserve, Counters
<1>2. Cap[k] \in Nat
  BY AllAssumptions DEF Assumptions, Cap, Attempt
<1>3. [upload |-> upload, kind |-> k, n |-> used[k] + 1] \in Token
  BY <1>1 DEF Counters, Token
<1>4. worker' = [worker EXCEPT ![w] =
                   [worker[w] EXCEPT !.pc = "reserved",
                                     !.token = [upload |-> upload, kind |-> k, n |-> used[k] + 1]]]
  BY DEF Reserve, Hands, Hand
<1>5. worker[w] \in Hand
  BY DEF Hands
<1>6. [worker[w] EXCEPT !.pc = "reserved",
                        !.token = [upload |-> upload, kind |-> k, n |-> used[k] + 1]] \in Hand
  BY <1>3, <1>5 DEF Hand
<1>7. Hands'
  BY <1>4, <1>6 DEF Hands
<1>8. Counters'
  BY <1>1, <1>2 DEF Counters
<1> QED
  BY <1>1, <1>2, <1>4, <1>7, <1>8

(* The end of the attempts touches nothing but the worker.                 *)
LEMMA EndsType ==
  ASSUME Hands, NEW w \in Worker, NEW pc \in {"decided", "escalating"}, Ends(w, pc)
  PROVE  /\ Hands'
         /\ worker' = [worker EXCEPT ![w] = [worker[w] EXCEPT !.pc = pc, !.token = NoToken,
                                                            !.left = 0, !.http = 0]]
         /\ worker'[w].pc = pc
         /\ \A v \in Worker : v # w => worker'[v] = worker[v]
<1> DEFINE h == [worker[w] EXCEPT !.pc = pc, !.token = NoToken, !.left = 0, !.http = 0]
<1>1. worker[w] \in Hand
  BY DEF Hands
<1>2. NoToken \in Token /\ 0 \in 0 .. AgentDecisionDeadline /\ 0 \in 0 .. GroqHTTPTimeout
  BY AllAssumptions DEF Assumptions, NoToken, Token, Attempt
<1>3. h \in Hand /\ h.pc = pc
  BY <1>1, <1>2 DEF Hand
<1>4. worker' = [worker EXCEPT ![w] = h]
  BY <1>1 DEF Ends, Hands, Hand
<1> QED
  BY <1>3, <1>4 DEF Hands

LEMMA VoidType ==
  ASSUME Hands, NEW w \in Worker, worker' = [worker EXCEPT ![w].pc = "void"]
  PROVE  /\ Hands'
         /\ worker' = [worker EXCEPT ![w] = [worker[w] EXCEPT !.pc = "void"]]
         /\ worker'[w].pc = "void"
         /\ \A v \in Worker : v # w => worker'[v] = worker[v]
  BY DEF Hands, Hand

LEMMA IdleType ==
  ASSUME Hands, NEW w \in Worker, worker' = [worker EXCEPT ![w] = Idle]
  PROVE  Hands'
  BY IdleIsHand DEF Hands

(* A table that only gets rows of JobRow, with leases recomputed, is typed. *)
LEMMA LeasesType ==
  ASSUME Rows, job' \in [JobId -> JobRow \cup {NoJob}], lease' = LeasesOf(job'),
         \A i \in JobId : job'[i].status = "RUNNING" => job'[i] = job[i]
  PROVE  Rows'
<1>1. lease' = [i \in JobId |-> IF job'[i].status = "RUNNING" THEN lease[i] ELSE 0]
  BY DEF LeasesOf
<1>2. \A i \in JobId : lease'[i] \in 0 .. LeaseDuration
  BY <1>1, AllAssumptions DEF Rows, Assumptions
<1>3. \A i \in JobId : lease'[i] > 0 <=> job'[i].status = "RUNNING" /\ job'[i].live
  BY <1>1 DEF Rows
<1> QED
  BY <1>1, <1>2, <1>3 DEF Rows
-----------------------------------------------------------------------------
(* One step keeps the types, one case per action. *)
LEMMA StepType == TypeOK /\ Next => TypeOK'
<1> SUFFICES ASSUME Counters, Hands, Rows, Next PROVE Counters' /\ Hands' /\ Rows'
  BY TypeParts DEF TypeOK, Counters, Hands, Rows
<1> USE AllAssumptions
<1>0. \A w \in Worker : worker[w] \in Hand
  BY DEF Hands
<1>1. CASE Upload
  BY <1>1 DEF Upload, Counters, Hands, Rows, Cap, Attempt, Assumptions
<1>2. CASE Inspected
  <2>1. PICK i \in JobId :
           /\ NextId(job, i)
           /\ version' = version + 1
           /\ job'   = EnsureJobEnqueued(job, i, NewJob("agent_decide", upload, version + 1, NoKey, 0))
           /\ lease' = LeasesOf(job')
           /\ UNCHANGED <<upload, used, worker, spent, faults>>
    BY <1>2 DEF Inspected
  <2> DEFINE row == NewJob("agent_decide", upload, version + 1, NoKey, 0)
  <2>2. row \in JobRow /\ row.status = "QUEUED"
    BY DEF NewJob, JobRow, Counters
  <2>3. DOMAIN job = JobId /\ job[i] = NoJob
    BY <2>1 DEF Rows, NextId, NextRow
  <2>4. \A k \in JobId : /\ job'[k] \in JobRow \cup {NoJob}
                         /\ job'[k].status = "RUNNING" => job'[k] = job[k]
    <3>1. CASE AlreadyEnqueued(job, row)
      BY <2>1, <3>1 DEF EnsureJobEnqueued, Rows
    <3>2. CASE ~AlreadyEnqueued(job, row)
      <4>1. \A k \in JobId :
              job'[k] = IF k = i THEN row
                        ELSE IF k \in ActiveJobs(job, row.type)
                             THEN [job[k] EXCEPT !.status = "FAILED", !.note = "superseded"]
                             ELSE job[k]
        BY <2>1, <2>3, <3>2 DEF EnsureJobEnqueued
      <4>2. \A k \in ActiveJobs(job, row.type) : job[k] \in JobRow
        BY <2>3 DEF ActiveJobs, IsActive, Rows, NoJob
      <4>3. \A r \in JobRow : /\ [r EXCEPT !.status = "FAILED", !.note = "superseded"] \in JobRow
                              /\ [r EXCEPT !.status = "FAILED", !.note = "superseded"].status = "FAILED"
        BY DEF JobRow
      <4> QED
        BY <4>1, <4>2, <4>3, <2>2 DEF Rows
    <3> QED
      BY <3>1, <3>2
  <2>5. job' \in [JobId -> JobRow \cup {NoJob}]
    <3>1. job' = [k \in JobId |-> job'[k]]
      BY <2>1, <2>3 DEF EnsureJobEnqueued, Rows
    <3> QED
      BY <3>1, <2>4
  <2>6. Rows'
    BY <2>1, <2>4, <2>5, LeasesType
  <2>7. Counters' /\ Hands'
    BY <2>1 DEF Counters, Hands
  <2> QED
    BY <2>6, <2>7
<1>3. CASE Tick
  <2>1. Hands'
    <3>1. \A n, N \in Nat : n \in 0 .. N => Minus1(n) \in 0 .. N
      BY DEF Minus1
    <3>2. \A h \in Hand : /\ Minus1(h.left) \in 0 .. AgentDecisionDeadline
                          /\ Minus1(h.http) \in 0 .. GroqHTTPTimeout
                          /\ Minus1(h.db) \in 0 .. DbTime
      BY <3>1 DEF Hand, Assumptions
    <3>3. \A h \in Hand : Waited(h) \in Hand
      BY <3>2 DEF Waited, Hand
    <3> QED
      BY <1>0, <1>3, <3>3 DEF Tick, Hands
  <2>2. Rows'
    <3>1. \A i \in JobId : lease'[i] \in 0 .. LeaseDuration
      BY <1>3 DEF Tick, Minus1, Rows, Assumptions
    <3>2. \A i \in JobId : lease[i] = 1 => job[i] \in JobRow
      BY DEF Rows, NoJob
    <3>3. \A i \in JobId : job'[i] \in JobRow \cup {NoJob}
      <4>1. \A r \in JobRow : [r EXCEPT !.live = FALSE] \in JobRow
        BY DEF JobRow
      <4> QED
        BY <1>3, <3>2, <4>1 DEF Tick, Rows
    <3>4. ASSUME NEW i \in JobId
          PROVE  lease'[i] > 0 <=> job'[i].status = "RUNNING" /\ job'[i].live
      <4>1. CASE lease[i] = 1
        BY <1>3, <3>2, <4>1 DEF Tick, Rows, Minus1, JobRow
      <4>2. CASE lease[i] # 1
        BY <1>3, <4>2, <3>1 DEF Tick, Rows, Minus1, Assumptions
      <4> QED
        BY <4>1, <4>2
    <3> QED
      BY <1>3, <3>1, <3>3, <3>4 DEF Tick, Rows
  <2>3. Counters'
    BY <1>3 DEF Tick, Counters
  <2> QED
    BY <2>1, <2>2, <2>3
<1>4. ASSUME NEW w \in Worker, Claim(w) PROVE Counters' /\ Hands' /\ Rows'
  <2>1. PICK i \in JobId :
           /\ IsNextToClaim(job, i)
           /\ job'    = Claimed(job, i, w)
           /\ lease'  = [lease EXCEPT ![i] = LeaseDuration]
           /\ worker' = [worker EXCEPT ![w] = [Idle EXCEPT !.pc = "claimed", !.job = i, !.db = DbTime]]
    BY <1>4 DEF Claim
  <2>2. job[i] \in JobRow
    BY <2>1 DEF IsNextToClaim, Claimable, Rows, NoJob
  <2>3. job' = [job EXCEPT ![i] = [job[i] EXCEPT !.status = "RUNNING", !.worker = w, !.live = TRUE]]
    BY <2>1, <2>2 DEF Claimed, JobRow, Rows
  <2>4. [job[i] EXCEPT !.status = "RUNNING", !.worker = w, !.live = TRUE] \in JobRow
    BY <2>2 DEF JobRow
  <2>5. Rows'
    BY <2>1, <2>3, <2>4 DEF Rows, Assumptions
  <2>6. [Idle EXCEPT !.pc = "claimed", !.job = i, !.db = DbTime] \in Hand
    <3>1. DbTime \in 0 .. DbTime
      BY DEF Assumptions
    <3> QED
      BY <3>1, IdleIsHand DEF Hand
  <2> QED
    BY <1>4, <2>1, <2>5, <2>6 DEF Claim, Counters, Hands
<1>5. ASSUME NEW w \in Worker, ReserveToolCall(w) PROVE Counters' /\ Hands' /\ Rows'
  <2>1. CASE Reserve(w, "call")
    BY <1>5, <2>1, ReserveType DEF ReserveToolCall, Rows, Attempt
  <2>2. CASE Exhausted(w) /\ UNCHANGED used
    <3>1. Hands'
      BY <2>2, EndsType DEF Exhausted
    <3> QED
      BY <1>5, <2>2, <3>1 DEF ReserveToolCall, Rows, Counters
  <2> QED
    BY <1>5, <2>1, <2>2 DEF ReserveToolCall
<1>6. ASSUME NEW w \in Worker, Call(w) PROVE Counters' /\ Hands' /\ Rows'
  <2>1. DeadlineOf(w) \in 0 .. AgentDecisionDeadline
    BY <1>0 DEF DeadlineOf, Hand, Assumptions
  <2>2. worker' = [worker EXCEPT ![w] = [worker[w] EXCEPT !.pc = "calling", !.http = GroqHTTPTimeout,
                                                          !.left = DeadlineOf(w)]]
    BY <1>6 DEF Call, Hands, Hand
  <2>3. [worker[w] EXCEPT !.pc = "calling", !.http = GroqHTTPTimeout, !.left = DeadlineOf(w)] \in Hand
    <3>1. GroqHTTPTimeout \in 0 .. GroqHTTPTimeout
      BY DEF Assumptions
    <3> QED
      BY <1>0, <2>1, <3>1 DEF Hand
  <2>4. Hands'
    BY <2>2, <2>3 DEF Hands
  <2>5. worker[w].token \in Token
    BY <1>0 DEF Hand
  <2> QED
    BY <1>6, <2>4, <2>5 DEF Call, Counters, Rows
<1>7. ASSUME NEW w \in Worker, Return(w) PROVE Counters' /\ Hands' /\ Rows'
  <2>1. CASE worker' = [worker EXCEPT ![w].pc = "failed", ![w].http = 0]
    <3>1. 0 \in 0 .. GroqHTTPTimeout
      BY DEF Assumptions
    <3>2. [worker[w] EXCEPT !.pc = "failed", !.http = 0] \in Hand
      BY <1>0, <3>1 DEF Hand
    <3>3. worker' = [worker EXCEPT ![w] = [worker[w] EXCEPT !.pc = "failed", !.http = 0]]
      BY <1>0, <2>1 DEF Hands, Hand
    <3> QED
      BY <1>7, <3>2, <3>3 DEF Return, Hands, Counters, Rows
  <2>2. CASE Ends(w, "decided") \/ Ends(w, "escalating")
    <3>1. Hands'
      BY <2>2, EndsType
    <3> QED
      BY <1>7, <3>1 DEF Return, Counters, Rows
  <2> QED
    BY <1>7, <2>1, <2>2 DEF Return
<1>8. ASSUME NEW w \in Worker, ReserveRetry(w) PROVE Counters' /\ Hands' /\ Rows'
  <2>1. CASE Reserve(w, "retry")
    BY <1>8, <2>1, ReserveType DEF ReserveRetry, Rows, Attempt
  <2>2. CASE Ends(w, "escalating") /\ UNCHANGED used
    <3>1. Hands'
      BY <2>2, EndsType
    <3> QED
      BY <1>8, <2>2, <3>1 DEF ReserveRetry, Rows, Counters
  <2> QED
    BY <1>8, <2>1, <2>2 DEF ReserveRetry
<1>9. ASSUME NEW w \in Worker, GiveUp(w) PROVE Counters' /\ Hands' /\ Rows'
  <2>1. Hands'
    BY <1>9, EndsType DEF GiveUp
  <2> QED
    BY <1>9, <2>1 DEF GiveUp, Counters, Rows, Assumptions
<1>10. ASSUME NEW w \in Worker, Commit(w) PROVE Counters' /\ Hands' /\ Rows'
  <2> DEFINE j == worker[w].job
  <2>1. \A k \in JobId : /\ job'[k] \in JobRow \cup {NoJob}
                         /\ job'[k].status = "RUNNING" => job'[k] = job[k]
    BY <1>10 DEF Commit, Commits, HoldsLease, Succeeded, Rows, JobRow, NoJob
  <2>2. job' \in [JobId -> JobRow \cup {NoJob}]
    BY <1>10, <2>1 DEF Commit, Succeeded, Rows
  <2>3. Rows'
    BY <1>10, <2>1, <2>2, LeasesType DEF Commit
  <2>4. Hands'
    BY <1>10, IdleType DEF Commit
  <2> QED
    BY <1>10, <2>3, <2>4 DEF Commit, Counters
<1>11. ASSUME NEW w \in Worker, Refuse(w) PROVE Counters' /\ Hands' /\ Rows'
  <2>1. Hands'
    BY <1>11, VoidType DEF Refuse
  <2> QED
    BY <1>11, <2>1 DEF Refuse, Counters, Rows
<1>12. ASSUME NEW w \in Worker, FailWork(w) PROVE Counters' /\ Hands' /\ Rows'
  <2>1. \A k \in JobId : /\ job'[k] \in JobRow \cup {NoJob}
                         /\ job'[k].status = "RUNNING" => job'[k] = job[k]
    BY <1>12 DEF FailWork, FailJob, Rows, JobRow, NoJob
  <2>2. job' \in [JobId -> JobRow \cup {NoJob}]
    BY <1>12, <2>1 DEF FailWork, FailJob, Rows
  <2>3. Rows'
    BY <1>12, <2>1, <2>2, LeasesType DEF FailWork
  <2> QED
    BY <1>12, <2>3, IdleType DEF FailWork, Counters
<1>13. ASSUME NEW w \in Worker, Lose(w) PROVE Counters' /\ Hands' /\ Rows'
  <2>1. Hands'
    BY <1>13, IdleType DEF Lose
  <2> QED
    BY <1>13, <2>1 DEF Lose, Counters, Rows, Assumptions
<1> QED
  BY <1>1, <1>2, <1>3, <1>4, <1>5, <1>6, <1>7, <1>8, <1>9, <1>10, <1>11, <1>12, <1>13
     DEF Next, Handle

(* Every counter keeps to its cap, every clock to the constant it started  *)
(* from, and a lease runs for RUNNING rows only.                           *)
THEOREM TypeCorrect == Spec => []TypeOK
<1>1. TypeOK /\ UNCHANGED vars => TypeOK'
  BY DEF TypeOK, vars
<1> QED
  BY InitType, StepType, <1>1, PTL DEF Spec
-----------------------------------------------------------------------------
(* The reservations: what was spent on this upload's budget is counted in  *)
(* it, and a worker about to call holds a reservation that is within the   *)
(* cap, counted, unspent and nobody else's.                                *)
Counted(t, up, us) == t.upload <= up /\ (t.upload = up => t.n <= us[t.kind])

Holds(w) == worker[w].pc = "reserved"

Reservations ==
    /\ \A t \in spent : Counted(t, upload, used)
    /\ \A w \in Worker : Holds(w) => /\ Counted(worker[w].token, upload, used)
                                     /\ worker[w].token.n \in 1 .. Cap[worker[w].token.kind]
                                     /\ worker[w].token \notin spent
    /\ \A v, w \in Worker : (Holds(v) /\ Holds(w) /\ worker[v].token = worker[w].token) => v = w

LEMMA InitReservations == Init => Reservations
  BY DEF Init, Reservations, Holds, Idle

(* A step that reserves nothing, spends nothing and uploads nothing.       *)
LEMMA ReservationsKept ==
  ASSUME Reservations, UNCHANGED <<upload, used, spent>>,
         \A w \in Worker : Holds(w)' => Holds(w) /\ worker'[w].token = worker[w].token
  PROVE  Reservations'
  BY DEF Reservations, Counted, Holds

(* The n of a new reservation is beyond every one counted so far.          *)
LEMMA ReservationsGrow ==
  ASSUME Counters, Hands, Reservations, NEW w \in Worker, NEW k \in Attempt, Reserve(w, k),
         UNCHANGED <<version, upload, spent, faults>>
  PROVE  Reservations'
<1> DEFINE t == [upload |-> upload, kind |-> k, n |-> used[k] + 1]
<1>1. /\ used' = [used EXCEPT ![k] = used[k] + 1]
      /\ used[k] + 1 <= Cap[k]
      /\ worker' = [worker EXCEPT ![w] = [worker[w] EXCEPT !.pc = "reserved", !.token = t]]
  BY ReserveType
<1>2. /\ \A v \in Worker : v # w => worker'[v] = worker[v]
      /\ worker'[w].token = t /\ worker'[w].pc = "reserved"
  BY <1>1 DEF Hands, Hand
<1>3. used[k] \in Nat /\ Cap[k] \in Nat
  BY AllAssumptions DEF Counters, Assumptions, Cap, Attempt
<1>4. \A a \in Attempt : used[a] \in Nat /\ used'[a] = IF a = k THEN used[a] + 1 ELSE used[a]
  BY <1>1 DEF Counters
<1>5. \A r \in Token : Counted(r, upload, used) => Counted(r, upload', used') /\ r # t
  BY <1>3, <1>4 DEF Counted, Token
<1>6. \A r \in spent : r \in Token
  BY DEF Counters
<1>7. \A v \in Worker : worker[v].token \in Token
  BY DEF Hands, Hand
<1>8. Counted(t, upload', used') /\ t.n \in 1 .. Cap[t.kind]
  <2>1. t.upload = upload /\ t.kind = k /\ t.n = used[k] + 1
    OBVIOUS
  <2>2. upload \in Nat /\ upload' = upload
    BY DEF Counters
  <2> QED
    BY <1>1, <1>3, <1>4, <2>1, <2>2 DEF Counted
<1>9. t \notin spent
  BY <1>5, <1>6 DEF Reservations
<1>10. \A r \in spent' : Counted(r, upload', used')
  BY <1>5, <1>6 DEF Reservations
<1>11. ASSUME NEW v \in Worker, Holds(v)'
       PROVE  /\ Counted(worker'[v].token, upload', used')
              /\ worker'[v].token.n \in 1 .. Cap[worker'[v].token.kind]
              /\ worker'[v].token \notin spent'
  <2>1. CASE v = w
    BY <1>2, <1>8, <1>9, <2>1
  <2>2. CASE v # w
    BY <1>2, <1>5, <1>7, <1>11, <2>2 DEF Reservations, Holds
  <2> QED
    BY <2>1, <2>2
<1>12. ASSUME NEW u \in Worker, NEW v \in Worker, Holds(u)', Holds(v)',
              worker'[u].token = worker'[v].token
       PROVE  u = v
  BY <1>2, <1>5, <1>7, <1>12 DEF Reservations, Holds
<1> QED
  BY <1>10, <1>11, <1>12 DEF Reservations, Counted, Holds

LEMMA StepReservations == TypeOK /\ Reservations /\ Next => Reservations'
<1> SUFFICES ASSUME Counters, Hands, Rows, Reservations, Next PROVE Reservations'
  BY TypeParts
<1>0. \A w \in Worker : worker[w] \in Hand
  BY DEF Hands
<1>1. CASE Upload
  <2>1. \A t \in Token : Counted(t, upload, used) => Counted(t, upload', used')
    BY <1>1 DEF Upload, Counted, Token, Counters
  <2> QED
    BY <1>0, <1>1, <2>1 DEF Upload, Reservations, Holds, Counters, Hand
<1>2. CASE Inspected
  BY <1>2, ReservationsKept DEF Inspected, Holds
<1>3. CASE Tick
  <2>1. \A h \in Hand : Waited(h).pc = h.pc /\ Waited(h).token = h.token
    BY DEF Waited, Hand
  <2> QED
    BY <1>0, <1>3, <2>1, ReservationsKept DEF Tick, Holds
<1>4. ASSUME NEW w \in Worker, Claim(w) PROVE Reservations'
  <2>1. \A i \in JobId : [Idle EXCEPT !.pc = "claimed", !.job = i, !.db = DbTime].pc = "claimed"
    BY DEF Idle
  <2> QED
    BY <1>4, <2>1, ReservationsKept DEF Claim, Holds, Hands
<1>5. ASSUME NEW w \in Worker, ReserveToolCall(w) PROVE Reservations'
  <2>1. CASE Reserve(w, "call")
    BY <1>5, <2>1, ReservationsGrow DEF ReserveToolCall, Attempt
  <2>2. CASE Exhausted(w) /\ UNCHANGED used
    BY <1>5, <2>2, EndsType, ReservationsKept DEF ReserveToolCall, Exhausted, Holds
  <2> QED
    BY <1>5, <2>1, <2>2 DEF ReserveToolCall
<1>6. ASSUME NEW w \in Worker, Call(w) PROVE Reservations'
  <2>1. /\ Holds(w)
        /\ \A v \in Worker : v # w => worker'[v] = worker[v]
        /\ worker'[w].pc = "calling"
        /\ spent' = spent \cup {worker[w].token} /\ UNCHANGED <<upload, used>>
    BY <1>0, <1>6 DEF Call, Hands, Hand, Holds
  <2> QED
    BY <2>1 DEF Reservations, Holds, Counted
<1>7. ASSUME NEW w \in Worker, Return(w) PROVE Reservations'
  <2>1. CASE worker' = [worker EXCEPT ![w].pc = "failed", ![w].http = 0]
    BY <1>0, <1>7, <2>1, ReservationsKept DEF Return, Holds, Hands, Hand
  <2>2. CASE Ends(w, "decided") \/ Ends(w, "escalating")
    BY <1>7, <2>2, EndsType, ReservationsKept DEF Return, Holds
  <2> QED
    BY <1>7, <2>1, <2>2 DEF Return
<1>8. ASSUME NEW w \in Worker, ReserveRetry(w) PROVE Reservations'
  <2>1. CASE Reserve(w, "retry")
    BY <1>8, <2>1, ReservationsGrow DEF ReserveRetry, Attempt
  <2>2. CASE Ends(w, "escalating") /\ UNCHANGED used
    BY <1>8, <2>2, EndsType, ReservationsKept DEF ReserveRetry, Holds
  <2> QED
    BY <1>8, <2>1, <2>2 DEF ReserveRetry
<1>9. ASSUME NEW w \in Worker, GiveUp(w) PROVE Reservations'
  BY <1>9, EndsType, ReservationsKept DEF GiveUp, Holds
<1>10. ASSUME NEW w \in Worker, Refuse(w) PROVE Reservations'
  BY <1>10, VoidType, ReservationsKept DEF Refuse, Holds
<1>11. ASSUME NEW w \in Worker, Commit(w) \/ FailWork(w) \/ Lose(w) PROVE Reservations'
  <2>1. worker' = [worker EXCEPT ![w] = Idle] /\ UNCHANGED <<upload, used, spent>>
    BY <1>11 DEF Commit, FailWork, Lose
  <2> QED
    BY <2>1, ReservationsKept DEF Holds, Idle, Hands
<1> QED
  BY <1>1, <1>2, <1>3, <1>4, <1>5, <1>6, <1>7, <1>8, <1>9, <1>10, <1>11 DEF Next, Handle

(* Whoever starts waiting for the provider held a reservation just before. *)
LEMMA StepPays ==
  ASSUME TypeOK, Reservations, Next, NEW w \in Worker,
         worker[w].pc # "calling", worker'[w].pc = "calling"
  PROVE  worker'[w].token \notin spent /\ worker'[w].token.n \in 1 .. Cap[worker'[w].token.kind]
<1>0. Hands /\ \A v \in Worker : worker[v] \in Hand
  BY DEF TypeOK, Hands
<1>1. Call(w)
  <2>1. ~Upload /\ ~Inspected
    BY DEF Upload, Inspected
  <2>2. ~Tick
    <3>1. \A h \in Hand : Waited(h).pc = h.pc
      BY DEF Waited, Hand
    <3> QED
      BY <1>0, <3>1 DEF Tick
  <2>3. PICK v \in Worker : Claim(v) \/ Handle(v) \/ Lose(v)
    BY <2>1, <2>2 DEF Next
  <2>4. v = w
    <3>1. \E h : worker' = [worker EXCEPT ![v] = h]
      BY <1>0, <2>3 DEF Claim, Handle, Lose, ReserveToolCall, Reserve, Exhausted, Ends, Call, Return,
                        ReserveRetry, GiveUp, Commit, Refuse, FailWork
    <3> QED
      BY <1>0, <3>1 DEF Hands
  <2>5. ~Claim(w) /\ ~Lose(w) /\ ~Commit(w) /\ ~FailWork(w)
    <3>1. Idle.pc = "idle" /\ \A i \in JobId : [Idle EXCEPT !.pc = "claimed", !.job = i, !.db = DbTime].pc = "claimed"
      BY DEF Idle
    <3> QED
      BY <1>0, <3>1 DEF Claim, Lose, Commit, FailWork, Hands
  <2>6. ~ReserveToolCall(w) /\ ~ReserveRetry(w) /\ ~GiveUp(w) /\ ~Refuse(w)
    BY <1>0, EndsType, VoidType
       DEF ReserveToolCall, ReserveRetry, Reserve, Exhausted, GiveUp, Refuse, Hands, Hand
  <2>7. ~Return(w)
    BY DEF Return
  <2> QED
    BY <2>3, <2>4, <2>5, <2>6, <2>7 DEF Handle
<1>2. Holds(w) /\ worker'[w].token = worker[w].token
  BY <1>0, <1>1 DEF Call, Holds, Hands, Hand
<1> QED
  BY <1>2 DEF Reservations

(* No two calls on one reservation, none beyond the cap.                   *)
THEOREM PaidCalls == Spec => CallsArePaid
<1>1. TypeOK /\ Reservations /\ UNCHANGED vars => Reservations'
  BY DEF Reservations, Counted, Holds, vars
<1>2. TypeOK /\ UNCHANGED vars => TypeOK'
  BY DEF TypeOK, vars
<1>3. TypeOK /\ Reservations /\ [Next]_vars
        => [\A w \in Worker :
              (worker[w].pc # "calling" /\ worker'[w].pc = "calling")
                => /\ worker'[w].token \notin spent
                   /\ worker'[w].token.n \in 1 .. Cap[worker'[w].token.kind]]_vars
  BY StepPays
<1> QED
  BY InitType, InitReservations, StepType, StepReservations, <1>1, <1>2, <1>3, PTL
     DEF Spec, CallsArePaid
-----------------------------------------------------------------------------
(* What a handler may still take before it commits, and that its lease     *)
(* lasts longer, unless its job was superseded.                            *)
Need(h) == IF h.pc = "claimed" \/ (h.pc = "reserved" /\ h.token.kind = "call")
           THEN AgentDecisionDeadline + h.db
           ELSE h.left + h.db

Superseded(T, j) == T[j].status = "FAILED" /\ T[j].note = "superseded"

Busy == {"claimed", "reserved", "calling", "failed"}

OnTime(T, L, h, w) == /\ h.job \in JobId
                      /\ \/ Superseded(T, h.job)
                         \/ HoldsLease(T, h.job, w) /\ L[h.job] > Need(h)

InTime == \A w \in Worker : worker[w].pc \in Busy => OnTime(job, lease, worker[w], w)

LEMMA InitInTime == Init => InTime
  BY DEF Init, InTime, Busy, Idle

(* Steps of w that touch neither table nor clock and do not need more.     *)
LEMMA InTimeWorker ==
  ASSUME Hands, InTime, UNCHANGED <<job, lease>>, NEW w \in Worker, NEW h,
         worker' = [worker EXCEPT ![w] = h],
         h.pc \in Busy => worker[w].pc \in Busy /\ h.job = worker[w].job /\ Need(h) = Need(worker[w])
  PROVE  InTime'
  BY DEF Hands, InTime, OnTime, Superseded, HoldsLease

LEMMA InTimeEnds ==
  ASSUME Hands, InTime, UNCHANGED <<job, lease>>, NEW w \in Worker,
         NEW pc \in {"decided", "escalating"}, Ends(w, pc)
  PROVE  InTime'
<1>1. worker'[w].pc \notin Busy /\ \A v \in Worker : v # w => worker'[v] = worker[v]
  BY EndsType DEF Busy
<1> QED
  BY <1>1 DEF InTime, OnTime, Superseded, HoldsLease

(* Steps that change rows nobody else holds: whoever is on time stays so.  *)
LEMMA InTimeRows ==
  ASSUME Hands, InTime,
         \A v \in Worker : worker'[v].pc \in Busy => worker'[v] = worker[v],
         \A v \in Worker, j \in JobId :
            /\ worker'[v].pc \in Busy /\ worker'[v] = worker[v] /\ worker[v].job = j
            => /\ Superseded(job, j) => Superseded(job', j)
               /\ HoldsLease(job, j, v) =>
                    \/ Superseded(job', j)
                    \/ HoldsLease(job', j, v) /\ lease'[j] = lease[j]
  PROVE  InTime'
<1> SUFFICES ASSUME NEW v \in Worker, worker'[v].pc \in Busy
             PROVE  OnTime(job', lease', worker'[v], v)
  BY DEF InTime, OnTime, Superseded, HoldsLease
<1>1. worker'[v] = worker[v] /\ OnTime(job, lease, worker[v], v)
  BY DEF InTime
<1> QED
  BY <1>1 DEF OnTime

LEMMA StepInTime == TypeOK /\ InTime /\ Next => InTime'
<1> SUFFICES ASSUME Counters, Hands, Rows, InTime, Next PROVE InTime'
  BY TypeParts
<1> USE AllAssumptions
<1>0. /\ \A w \in Worker : worker[w] \in Hand
      /\ \A w \in Worker : worker[w].pc \in Busy => OnTime(job, lease, worker[w], w)
  BY DEF Hands, InTime
<1>1. CASE Upload
  BY <1>1, InTimeRows DEF Upload
<1>2. CASE Inspected
  <2>1. PICK i \in JobId :
           /\ NextId(job, i)
           /\ job'   = EnsureJobEnqueued(job, i, NewJob("agent_decide", upload, version + 1, NoKey, 0))
           /\ lease' = LeasesOf(job')
           /\ worker' = worker
    BY <1>2 DEF Inspected
  <2> DEFINE row == NewJob("agent_decide", upload, version + 1, NoKey, 0)
  <2>2. DOMAIN job = JobId /\ job[i] = NoJob
    BY <2>1 DEF Rows, NextId, NextRow
  <2>3. ASSUME NEW j \in JobId, job[j] \in JobRow
        PROVE  job'[j] = job[j] \/ (Superseded(job', j) /\ IsActive(job[j]))
    <3>1. j # i
      BY <2>2, <2>3 DEF NoJob, JobRow
    <3>2. CASE AlreadyEnqueued(job, row)
      BY <2>1, <3>2 DEF EnsureJobEnqueued
    <3>3. CASE ~AlreadyEnqueued(job, row)
      <4>1. job'[j] = IF j \in ActiveJobs(job, row.type)
                      THEN [job[j] EXCEPT !.status = "FAILED", !.note = "superseded"]
                      ELSE job[j]
        BY <2>1, <2>2, <3>1, <3>3 DEF EnsureJobEnqueued
      <4> QED
        BY <2>3, <4>1 DEF ActiveJobs, JobRow, Superseded
    <3> QED
      BY <3>2, <3>3
  <2>4. ASSUME NEW v \in Worker, NEW j \in JobId
        PROVE  /\ Superseded(job, j) => Superseded(job', j)
               /\ HoldsLease(job, j, v) =>
                    \/ Superseded(job', j)
                    \/ HoldsLease(job', j, v) /\ lease'[j] = lease[j]
    <3>1. Superseded(job, j) \/ HoldsLease(job, j, v) => job[j] \in JobRow
      BY DEF Superseded, HoldsLease, Rows, NoJob
    <3>2. job'[j].status = "RUNNING" => lease'[j] = lease[j]
      BY <2>1 DEF LeasesOf
    <3> QED
      BY <2>3, <3>1, <3>2 DEF Superseded, HoldsLease, IsActive
  <2> QED
    BY <2>1, <2>4, InTimeRows
<1>3. CASE Tick
  <2> SUFFICES ASSUME NEW v \in Worker, worker'[v].pc \in Busy
               PROVE  OnTime(job', lease', worker'[v], v)
    BY DEF InTime, OnTime, Superseded, HoldsLease
  <2> DEFINE h == worker[v]
             j == h.job
  <2>1. worker'[v] = Waited(h) /\ CanWait(h) /\ h \in Hand
    BY <1>0, <1>3 DEF Tick
  <2>2. Waited(h).pc = h.pc /\ Waited(h).job = h.job /\ Waited(h).token = h.token
    BY <2>1 DEF Waited, Hand
  <2>3. h.pc \in Busy /\ j \in JobId
    BY <1>0, <2>1, <2>2 DEF OnTime
  <2>4. h.left \in Nat /\ h.db \in Nat /\ Need(h) \in Nat
    BY <2>1 DEF Hand, Need, Assumptions
  <2>5. CASE Superseded(job, j)
    <3>1. lease[j] # 1
      BY <2>3, <2>5 DEF Rows, Superseded
    <3> QED
      BY <1>3, <2>1, <2>2, <2>3, <2>5, <3>1 DEF Tick, OnTime, Superseded
  <2>6. CASE HoldsLease(job, j, v) /\ lease[j] > Need(h)
    <3>1. Need(Waited(h)) < Need(h)
      <4>1. CASE h.pc = "calling"
        <5>1. Waited(h).left = h.left - 1 /\ Waited(h).db = h.db
          BY <2>1, <2>4, <4>1 DEF Waited, Minus1, CanWait, Hand
        <5> QED
          BY <2>2, <2>4, <4>1, <5>1 DEF Need
      <4>2. CASE h.pc # "calling"
        <5>1. h.db > 0
          BY <2>1, <2>3, <4>2 DEF CanWait, Busy
        <5>2. Waited(h).left = Minus1(h.left) /\ Waited(h).db = h.db - 1
          BY <2>1, <2>4, <4>2, <5>1 DEF Waited, Minus1, Hand
        <5>3. Minus1(h.left) \in Nat /\ Minus1(h.left) <= h.left
          BY <2>4 DEF Minus1
        <5> QED
          BY <2>2, <2>4, <4>2, <5>1, <5>2, <5>3 DEF Need, Assumptions
      <4> QED
        BY <4>1, <4>2
    <3>2. Need(Waited(h)) \in Nat
      <4>1. Waited(h).left \in Nat /\ Waited(h).db \in Nat
        BY <2>1, <2>4 DEF Waited, Minus1, Hand
      <4> QED
        BY <4>1 DEF Need, Assumptions
    <3>3. lease[j] \in Nat /\ lease[j] > 1
      BY <2>3, <2>4, <2>6, <3>1, <3>2 DEF Rows, Assumptions
    <3>4. lease'[j] = lease[j] - 1 /\ job'[j] = job[j]
      BY <1>3, <2>3, <3>3 DEF Tick, Minus1
    <3>5. HoldsLease(job', j, v)
      BY <2>6, <3>4 DEF HoldsLease
    <3>6. lease'[j] > Need(Waited(h))
      BY <2>4, <2>6, <3>1, <3>2, <3>3, <3>4
    <3> QED
      BY <2>1, <2>2, <2>3, <3>5, <3>6 DEF OnTime
  <2> QED
    BY <1>0, <2>3, <2>5, <2>6 DEF OnTime
<1>4. ASSUME NEW w \in Worker, Claim(w) PROVE InTime'
  <2> DEFINE h(i) == [Idle EXCEPT !.pc = "claimed", !.job = i, !.db = DbTime]
  <2>1. PICK i \in JobId :
           /\ i \in Claimable(job)
           /\ job'    = Claimed(job, i, w)
           /\ lease'  = [lease EXCEPT ![i] = LeaseDuration]
           /\ worker' = [worker EXCEPT ![w] = h(i)]
    BY <1>4 DEF Claim, IsNextToClaim
  <2>2. job[i] \in JobRow /\ DOMAIN job = JobId
    BY <2>1 DEF Claimable, Rows, NoJob
  <2>3. job' = [job EXCEPT ![i] = [job[i] EXCEPT !.status = "RUNNING", !.worker = w, !.live = TRUE]]
    BY <2>1, <2>2 DEF Claimed, JobRow
  <2>4. OnTime(job', lease', h(i), w)
    <3>1. h(i).job = i /\ Need(h(i)) = AgentDecisionDeadline + DbTime
      BY DEF Idle, Need
    <3>2. HoldsLease(job', i, w)
      BY <2>2, <2>3 DEF HoldsLease, JobRow
    <3>3. lease'[i] = LeaseDuration
      BY <2>1 DEF Rows
    <3>4. lease'[i] > Need(h(i))
      BY <3>1, <3>3 DEF Assumptions
    <3> QED
      BY <3>1, <3>2, <3>4 DEF OnTime
  <2>5. ASSUME NEW v \in Worker, v # w, worker'[v].pc \in Busy
        PROVE  OnTime(job', lease', worker'[v], v)
    <3>1. worker'[v] = worker[v] /\ OnTime(job, lease, worker[v], v)
      BY <1>0, <2>1, <2>5 DEF Hands
    <3>2. worker[v].job # i
      BY <2>1, <3>1 DEF OnTime, Claimable, Superseded, HoldsLease
    <3> QED
      BY <2>1, <2>3, <3>1, <3>2 DEF OnTime, Superseded, HoldsLease, Rows
  <2>6. worker'[w] = h(i)
    BY <2>1 DEF Hands
  <2> QED
    BY <2>4, <2>5, <2>6 DEF InTime, OnTime, Superseded, HoldsLease
<1>5. ASSUME NEW w \in Worker, ReserveToolCall(w) PROVE InTime'
  <2>1. CASE Reserve(w, "call")
    <3>1. worker' = [worker EXCEPT ![w] =
                       [worker[w] EXCEPT !.pc = "reserved",
                                         !.token = [upload |-> upload, kind |-> "call", n |-> used["call"] + 1]]]
      BY <1>5, <2>1, ReserveType DEF ReserveToolCall, Attempt
    <3> QED
      BY <1>0, <1>5, <3>1, InTimeWorker DEF ReserveToolCall, Need, Busy, Hand
  <2>2. CASE Exhausted(w)
    BY <1>5, <2>2, InTimeEnds DEF ReserveToolCall, Exhausted
  <2> QED
    BY <1>5, <2>1, <2>2 DEF ReserveToolCall
<1>6. ASSUME NEW w \in Worker, Call(w) PROVE InTime'
  <2> DEFINE h == [worker[w] EXCEPT !.pc = "calling", !.http = GroqHTTPTimeout, !.left = DeadlineOf(w)]
  <2>1. worker' = [worker EXCEPT ![w] = h] /\ worker[w].pc = "reserved" /\ UNCHANGED <<job, lease>>
    BY <1>0, <1>6 DEF Call, Hands, Hand
  <2>2. h.job = worker[w].job /\ h.pc = "calling" /\ h.left = DeadlineOf(w) /\ h.db = worker[w].db
    BY <1>0 DEF Hand
  <2>3. Need(h) = Need(worker[w])
    BY <2>1, <2>2 DEF Need, DeadlineOf
  <2> QED
    BY <2>1, <2>2, <2>3, InTimeWorker DEF Busy
<1>7. ASSUME NEW w \in Worker, Return(w) PROVE InTime'
  <2>1. CASE worker' = [worker EXCEPT ![w].pc = "failed", ![w].http = 0]
    <3>1. worker' = [worker EXCEPT ![w] = [worker[w] EXCEPT !.pc = "failed", !.http = 0]]
      BY <1>0, <2>1 DEF Hands, Hand
    <3> QED
      BY <1>0, <1>7, <3>1, InTimeWorker DEF Return, Need, Busy, Hand
  <2>2. CASE Ends(w, "decided") \/ Ends(w, "escalating")
    BY <1>7, <2>2, InTimeEnds DEF Return
  <2> QED
    BY <1>7, <2>1, <2>2 DEF Return
<1>8. ASSUME NEW w \in Worker, ReserveRetry(w) PROVE InTime'
  <2>1. CASE Reserve(w, "retry")
    <3>1. worker' = [worker EXCEPT ![w] =
                       [worker[w] EXCEPT !.pc = "reserved",
                                         !.token = [upload |-> upload, kind |-> "retry", n |-> used["retry"] + 1]]]
      BY <1>8, <2>1, ReserveType DEF ReserveRetry, Attempt
    <3> QED
      BY <1>0, <1>8, <3>1, InTimeWorker DEF ReserveRetry, Need, Busy, Hand
  <2>2. CASE Ends(w, "escalating")
    BY <1>8, <2>2, InTimeEnds DEF ReserveRetry
  <2> QED
    BY <1>8, <2>1, <2>2 DEF ReserveRetry
<1>9. ASSUME NEW w \in Worker, GiveUp(w) PROVE InTime'
  BY <1>9, InTimeEnds DEF GiveUp
<1>10. ASSUME NEW w \in Worker, Refuse(w) PROVE InTime'
  BY <1>0, <1>10, VoidType, InTimeWorker DEF Refuse, Busy, Hand
<1>11. ASSUME NEW w \in Worker, Commit(w) PROVE InTime'
  <2>1. /\ \A v \in Worker : v # w => worker'[v] = worker[v]
        /\ worker'[w].pc \notin Busy
    BY <1>11 DEF Commit, Hands, Idle, Busy
  <2>2. \A j \in JobId : j # worker[w].job => job'[j] = job[j]
    BY <1>11 DEF Commit, Succeeded, Rows
  <2>3. \A j \in JobId : job'[j].status = "RUNNING" => lease'[j] = lease[j]
    BY <1>11 DEF Commit, LeasesOf
  <2>4. HoldsLease(job, worker[w].job, w)
    BY <1>11 DEF Commit, Commits
  <2>5. ASSUME NEW v \in Worker, v # w, NEW j \in JobId,
               Superseded(job, j) \/ HoldsLease(job, j, v)
        PROVE  job'[j] = job[j]
    BY <2>2, <2>4, <2>5 DEF HoldsLease, Superseded
  <2> QED
    BY <2>1, <2>3, <2>5, InTimeRows DEF Superseded, HoldsLease
<1>12. ASSUME NEW w \in Worker, FailWork(w) PROVE InTime'
  <2>1. /\ \A v \in Worker : v # w => worker'[v] = worker[v]
        /\ worker'[w].pc \notin Busy
    BY <1>12 DEF FailWork, Hands, Idle, Busy
  <2>2. \A j \in JobId : job'[j].status = "RUNNING" => lease'[j] = lease[j]
    BY <1>12 DEF FailWork, LeasesOf
  <2>3. ASSUME NEW v \in Worker, v # w, NEW j \in JobId,
               Superseded(job, j) \/ HoldsLease(job, j, v)
        PROVE  job'[j] = job[j]
    BY <1>12, <2>3 DEF FailWork, FailJob, HoldsLease, Superseded, Rows
  <2> QED
    BY <2>1, <2>2, <2>3, InTimeRows DEF Superseded, HoldsLease
<1>13. ASSUME NEW w \in Worker, Lose(w) PROVE InTime'
  BY <1>13, InTimeWorker DEF Lose, Idle, Busy
<1> QED
  BY <1>1, <1>2, <1>3, <1>4, <1>5, <1>6, <1>7, <1>8, <1>9, <1>10, <1>11, <1>12, <1>13
     DEF Next, Handle

(* However slow the provider is, whoever waits for it holds the lease of   *)
(* its job, because the deadline covers all attempts and leaves the margin. *)
THEOREM LeaseCoversCalls == Spec => []CallsUnderLease
<1>1. TypeOK /\ UNCHANGED vars => TypeOK'
  BY DEF TypeOK, vars
<1>2. TypeOK /\ InTime /\ UNCHANGED vars => InTime'
  BY DEF InTime, OnTime, Superseded, HoldsLease, vars
<1>3. InTime => CallsUnderLease
  BY DEF InTime, OnTime, Superseded, Busy, CallsUnderLease
<1> QED
  BY InitType, InitInTime, StepType, StepInTime, <1>1, <1>2, <1>3, PTL DEF Spec
=============================================================================

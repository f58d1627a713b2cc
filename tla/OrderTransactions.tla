------------------------- MODULE OrderTransactions -------------------------
(***************************************************************************)
(* The transactions of internal/store on one order, statement by statement *)
(* under READ COMMITTED.  A statement sees what was committed before it    *)
(* and what its own transaction wrote; UPDATE and SELECT ... FOR UPDATE    *)
(* wait for the row, look at it again, and hold it until the transaction   *)
(* ends.  A row does not change while somebody else holds it, so a         *)
(* transaction's writes are applied here where they become visible, by the *)
(* action of its last statement and COMMIT.                                *)
(*                                                                         *)
(* RecordArtworkUpload, ConfirmTrim, AnswerClarificationAndConfirmTrim,    *)
(* CreateJob, ClaimNextJob, FailJob, CompleteInspection and two decisions  *)
(* of CompleteAgentDecision are here.  CompleteRepair and                  *)
(* CompleteProofPreparation take the rows CompleteInspection takes, in the *)
(* same order.                                                             *)
(***************************************************************************)
EXTENDS Naturals, Sequences, FiniteSets

CONSTANTS Customer,     \* concurrent requests of customers
          Worker,       \* worker processes
          NoOne,
          MaxRequests,  \* bound: requests of customers
          MaxQuestions, \* bound: rows of clarifications
          MaxFaults     \* bound: connections and processes lost, leases outrun

ASSUME ProcessAssumption == Customer \cap Worker = {} /\ NoOne \notin Customer \cup Worker
ASSUME BoundAssumption   == MaxRequests \in Nat /\ MaxQuestions \in Nat /\ MaxFaults \in Nat

VARIABLES order, original, question, job,  \* what is committed
          lock,      \* which transaction holds each row
          tx,        \* where each process is, and what it has read so far
          requests,  \* requests begun so far
          faults     \* faults so far

vars == <<order, original, question, job, lock, tx, requests, faults>>

Process == Customer \cup Worker
AssetId == 1 .. MaxRequests

Atomic == INSTANCE OrderAtomic

JobType == Atomic!JobType
NoJob   == Atomic!NoJob
None    == Atomic!None

TheOrder    == <<"orders", 0>>
JobOf(t)    == <<t, 0>>
Question(q) == <<"clarifications", q>>
Row == {TheOrder} \cup {JobOf(t) : t \in JobType} \cup {Question(q) : q \in 1 .. MaxQuestions}

Idle == [pc |-> "idle"]

Init == /\ Atomic!Init
        /\ lock     = [r \in Row |-> NoOne]
        /\ tx       = [p \in Process |-> Idle]
        /\ requests = 0
        /\ faults   = 0
-----------------------------------------------------------------------------
At(p, pc)  == tx[p].pc = pc
Goes(p, s) == tx' = [tx EXCEPT ![p] = s]
Takes(p, rows) == lock' = [r \in Row |-> IF r \in rows THEN p ELSE lock[r]]
Bug_EndsKeepsRows(p) == UNCHANGED lock /\ Goes(p, Idle)
Ends(p) == /\ lock' = [r \in Row |-> IF lock[r] = p THEN NoOne ELSE lock[r]]
           /\ Goes(p, Idle)

OpenQuestions == {q \in DOMAIN question : question[q].state = "open"}

(* The WHERE clause of the answer, on what is committed now. *)
Bug_AnswersAnyOpen(p) ==
    tx[p].question \in DOMAIN question /\ question[tx[p].question].state = "open"
CanAnswer(p) == Atomic!Answerable(question, tx[p].question, tx[p].av)

(* The rows the next statement of p takes.  An UPDATE whose WHERE clause   *)
(* holds of no committed row takes none.                                   *)
Needs(p) ==
    CASE At(p, "inserted")  -> {TheOrder}
      [] At(p, "reopened")  -> {Question(q) : q \in OpenQuestions}
      [] At(p, "versioned") -> IF CanAnswer(p) THEN {Question(tx[p].question)} ELSE {}
      [] At(p, "answered")  -> IF order.cv = tx[p].cv THEN {TheOrder} ELSE {}
      [] At(p, "trim")      -> IF order.cv = tx[p].cv THEN {TheOrder} ELSE {}
      [] At(p, "confirmed") \/ (At(p, "looked") /\ p \in Customer) ->
             IF job["inspect"] = NoJob THEN {} ELSE {JobOf("inspect")}
      [] At(p, "read")      -> {JobOf("inspect")}
      [] At(p, "working")   -> {JobOf(tx[p].type)}
      [] At(p, "void")      -> {JobOf(tx[p].type)}
      [] At(p, "reported")  -> IF order.cv = tx[p].cv THEN {TheOrder} ELSE {}
      [] At(p, "advanced")  -> IF job["agent_decide"] = NoJob THEN {} ELSE {JobOf("agent_decide")}
      [] At(p, "own") /\ tx[p].type = "agent_decide" -> {TheOrder}
      [] OTHER              -> {}

(* An INSERT that refers to the order shares its row with every holder but *)
(* one that selected it FOR UPDATE, and such a selection waits for it.     *)
SelectedForUpdate == {p \in Process : At(p, "locked")}
RefersToOrder     == {p \in Process : At(p, "inserted") \/ At(p, "reported")}

(* The transactions p waits for. *)
WaitsFor(p) ==
    ({lock[r] : r \in Needs(p)} \ {NoOne, p})
    \cup (IF At(p, "own") /\ tx[p].type = "agent_decide" THEN RefersToOrder ELSE {})
    \cup (IF At(p, "counted") \/ At(p, "read") \/ (At(p, "own") /\ tx[p].type = "inspect")
          THEN SelectedForUpdate ELSE {})

Runs(p, pc) == At(p, pc) /\ WaitsFor(p) = {}

NewRequest == requests < MaxRequests /\ requests' = requests + 1 /\ UNCHANGED faults
Unchanged  == UNCHANGED <<order, original, question, job, requests, faults>>
-----------------------------------------------------------------------------
(* RecordArtworkUpload.  created_at is when the transaction began: the id  *)
(* of the asset is the rank of that moment.                                *)

BeginUpload(p) ==
    /\ At(p, "idle")
    /\ NewRequest
    /\ Goes(p, [pc |-> "begun", id |-> requests'])
    /\ UNCHANGED <<order, original, question, job, lock>>

CountOriginals(p) ==
    /\ At(p, "begun")
    /\ Goes(p, [pc |-> "counted", id |-> tx[p].id, prior |-> original # {}])
    /\ UNCHANGED lock /\ Unchanged

InsertAsset(p) ==
    /\ Runs(p, "counted")
    /\ Goes(p, [tx[p] EXCEPT !.pc = "inserted"])
    /\ UNCHANGED lock /\ Unchanged

ReopenOrder(p) ==
    /\ Runs(p, "inserted")
    /\ Takes(p, Needs(p))
    /\ Goes(p, [tx[p] EXCEPT !.pc = "reopened"])
    /\ Unchanged

InvalidateAndCommit(p) ==
    /\ Runs(p, "reopened")
    /\ original' = original \cup {tx[p].id}
    /\ order'    = Atomic!Uploaded(order, tx[p].id, tx[p].prior)
    /\ question' = Atomic!Invalidated(question)
    /\ Ends(p)
    /\ UNCHANGED <<job, requests, faults>>
-----------------------------------------------------------------------------
(* ConfirmTrim, a transaction of one statement, with the version the       *)
(* customer saw.                                                           *)

BeginTrim(p) ==
    /\ At(p, "idle")
    /\ NewRequest
    /\ Goes(p, [pc |-> "trim", cv |-> order.cv])
    /\ UNCHANGED <<order, original, question, job, lock>>

ConfirmTrim(p) ==
    /\ Runs(p, "trim")
    /\ order' = IF order.cv = tx[p].cv THEN Atomic!Reopened(order) ELSE order
    /\ Ends(p)
    /\ UNCHANGED <<original, question, job, requests, faults>>
-----------------------------------------------------------------------------
(* AnswerClarificationAndConfirmTrim, for a question and a case_version    *)
(* the customer saw together.                                              *)

BeginAnswer(p, q) ==
    /\ At(p, "idle")
    /\ q \in DOMAIN question
    /\ NewRequest
    /\ Goes(p, [pc |-> "answer", question |-> q, cv |-> order.cv])
    /\ UNCHANGED <<order, original, question, job, lock>>

ReadVersion(p) ==
    /\ At(p, "answer")
    /\ Goes(p, [pc |-> "versioned", question |-> tx[p].question, cv |-> tx[p].cv, av |-> order.av])
    /\ UNCHANGED lock /\ Unchanged

AnswerQuestion(p) ==
    /\ Runs(p, "versioned")
    /\ IF CanAnswer(p)
       THEN Takes(p, Needs(p)) /\ Goes(p, [tx[p] EXCEPT !.pc = "answered"])
       ELSE Ends(p)
    /\ Unchanged

ReopenForAnswer(p) ==
    /\ Runs(p, "answered")
    /\ IF order.cv = tx[p].cv
       THEN Takes(p, Needs(p)) /\ Goes(p, [tx[p] EXCEPT !.pc = "confirmed"])
       ELSE Ends(p)
    /\ Unchanged

(* ensureJobEnqueued looks for an active inspection and takes it from its  *)
(* worker; the INSERT is a statement of its own.                           *)
LookForInspection(p) ==
    /\ Runs(p, "confirmed")
    /\ Takes(p, Needs(p))
    /\ Goes(p, [tx[p] EXCEPT !.pc = "looked"])
    /\ Unchanged

(* A job inserted since that look violates the unique index: an error.     *)
InsertAndCommit(p) ==
    /\ Runs(p, "looked") /\ p \in Customer
    /\ IF job["inspect"] # NoJob /\ lock[JobOf("inspect")] # p
       THEN Unchanged
       ELSE /\ question' = Atomic!Answered(question, tx[p].question)
            /\ order'    = Atomic!Reopened(order)
            /\ job'      = [job EXCEPT !["inspect"] = Atomic!NewJob(order.cur, order.cv + 1)]
            /\ UNCHANGED <<original, requests, faults>>
    /\ Ends(p)
-----------------------------------------------------------------------------
(* startResolution: a read of the order, and CreateJob on its own.         *)

ReadOrder(p) ==
    /\ At(p, "idle")
    /\ order.cur # None
    /\ NewRequest
    /\ Goes(p, [pc |-> "read", asset |-> order.cur, cv |-> order.cv])
    /\ UNCHANGED <<order, original, question, job, lock>>

CreateJob(p) ==
    /\ Runs(p, "read")
    /\ job' = IF job["inspect"] = NoJob
              THEN [job EXCEPT !["inspect"] = Atomic!NewJob(tx[p].asset, tx[p].cv)] ELSE job
    /\ Ends(p)
    /\ UNCHANGED <<order, original, question, requests, faults>>
-----------------------------------------------------------------------------
(* Workers.  SKIP LOCKED passes over a job somebody holds.  A lease lasts   *)
(* 30 seconds and a transaction milliseconds: that a job is claimed again  *)
(* while anybody is at work is a fault, afterwards it is the rule.         *)
Quiet == \A p \in Process : tx[p] = Idle

Claim(p, t) ==
    /\ At(p, "idle")
    /\ job[t] # NoJob /\ lock[JobOf(t)] = NoOne
    /\ IF job[t].by # NoOne /\ ~Quiet THEN faults < MaxFaults /\ faults' = faults + 1 ELSE UNCHANGED faults
    /\ job' = [job EXCEPT ![t].by = p]
    /\ Goes(p, [pc |-> "working", type |-> t, cv |-> job[t].cv, asset |-> job[t].asset])
    /\ UNCHANGED <<order, original, question, lock, requests>>

Refused(p) ==
    /\ lock' = [r \in Row |-> IF lock[r] = p THEN NoOne ELSE lock[r]]
    /\ Goes(p, [tx[p] EXCEPT !.pc = "void"])

(* The worker's own job row, the first row every Complete* takes.          *)
OwnJobHeld(p) == job[tx[p].type] # NoJob /\ job[tx[p].type].by = p

TakeOwnJob(p) ==
    /\ Runs(p, "working")
    /\ \/ /\ OwnJobHeld(p)
          /\ Takes(p, Needs(p))
          /\ Goes(p, [tx[p] EXCEPT !.pc = "own"])
       \/ Refused(p)  \* not its job any more, or its lease has run out
    /\ Unchanged

(* CompleteInspection inserts its findings, which refer to the order.      *)
InsertFindings(p) ==
    /\ Runs(p, "own") /\ tx[p].type = "inspect"
    /\ Goes(p, [tx[p] EXCEPT !.pc = "reported"])
    /\ UNCHANGED lock /\ Unchanged

AdvanceOrder(p) ==
    /\ Runs(p, "reported")
    /\ IF order.cv = tx[p].cv
       THEN Takes(p, Needs(p)) /\ Goes(p, [tx[p] EXCEPT !.pc = "advanced"])
       ELSE Refused(p)
    /\ Unchanged

LookForDecision(p) ==
    /\ Runs(p, "advanced")
    /\ Takes(p, Needs(p))
    /\ Goes(p, [tx[p] EXCEPT !.pc = "looked"])
    /\ Unchanged

(* Nothing but an inspection inserts decisions, and it holds the order.    *)
CommitInspection(p) ==
    /\ At(p, "looked") /\ p \in Worker
    /\ order' = Atomic!Moved(order, "NEEDS_REVIEW")
    /\ job'   = [inspect      |-> NoJob,
                 agent_decide |-> Atomic!NewJob(tx[p].asset, tx[p].cv + 1)]
    /\ Ends(p)
    /\ UNCHANGED <<original, question, requests, faults>>

(* CompleteAgentDecision selects the order FOR UPDATE and then compares.   *)
(* It asks while the findings say the trim is unconfirmed, and escalates   *)
(* once the customer has confirmed it.                                     *)
SelectOrder(p) ==
    /\ Runs(p, "own") /\ tx[p].type = "agent_decide"
    /\ IF order.cv = tx[p].cv
       THEN Takes(p, Needs(p)) /\ Goes(p, [tx[p] EXCEPT !.pc = "locked"])
       ELSE Refused(p)
    /\ Unchanged

AskAndCommit(p) ==
    /\ At(p, "locked")
    /\ order.trim = "unknown"
    /\ Len(question) < MaxQuestions
    /\ question' = Atomic!Asked(question, order)
    /\ order'    = Atomic!Moved(order, "AWAITING_CLARIFICATION")
    /\ job'      = [job EXCEPT !["agent_decide"] = NoJob]
    /\ Ends(p)
    /\ UNCHANGED <<original, requests, faults>>

EscalateAndCommit(p) ==
    /\ At(p, "locked")
    /\ order.trim = "confirmed"
    /\ order' = Atomic!Moved(order, "NEEDS_REVIEW")
    /\ job'   = [job EXCEPT !["agent_decide"] = NoJob]
    /\ Ends(p)
    /\ UNCHANGED <<original, question, requests, faults>>

(* w.fail after a refusal. *)
FailJob(p) ==
    /\ Runs(p, "void")
    /\ job' = IF OwnJobHeld(p) THEN [job EXCEPT ![tx[p].type] = NoJob] ELSE job
    /\ Ends(p)
    /\ UNCHANGED <<order, original, question, requests, faults>>
-----------------------------------------------------------------------------
(* Postgres breaks a circle of waiting transactions by rolling one back.   *)
(* The caller gets an error; the worker only logs it.                      *)
Circle(S) == /\ \A p \in S : WaitsFor(p) \cap S # {}
             /\ S \subseteq UNION {WaitsFor(p) : p \in S}
Deadlocked(p) == \E S \in SUBSET Process : p \in S /\ Circle(S)

BreakDeadlock(p) ==
    /\ Deadlocked(p)
    /\ Ends(p)
    /\ Unchanged

(* A lost connection, a cancelled request, a process that dies. *)
RollBack(p) ==
    /\ tx[p] # Idle
    /\ faults < MaxFaults
    /\ faults' = faults + 1
    /\ Ends(p)
    /\ UNCHANGED <<order, original, question, job, requests>>

Statement(p) ==
    \/ CountOriginals(p) \/ InsertAsset(p) \/ ReopenOrder(p) \/ InvalidateAndCommit(p)
    \/ ConfirmTrim(p)
    \/ ReadVersion(p) \/ AnswerQuestion(p) \/ ReopenForAnswer(p)
    \/ LookForInspection(p) \/ InsertAndCommit(p)
    \/ CreateJob(p)
    \/ TakeOwnJob(p) \/ InsertFindings(p) \/ AdvanceOrder(p) \/ LookForDecision(p)
    \/ CommitInspection(p) \/ SelectOrder(p) \/ AskAndCommit(p) \/ EscalateAndCommit(p)
    \/ FailJob(p)

Begin(p) ==
    /\ p \in Customer
    /\ \/ BeginUpload(p) \/ BeginTrim(p) \/ ReadOrder(p)
       \/ \E q \in 1 .. MaxQuestions : BeginAnswer(p, q)

Next ==
    \E p \in Process :
        \/ Begin(p)
        \/ p \in Worker /\ \E t \in JobType : Claim(p, t)
        \/ Statement(p)
        \/ BreakDeadlock(p)
        \/ RollBack(p)

(* The database keeps working: while some statement can run, or a deadlock *)
(* be broken, one is.  Nobody owes a request, and a worker need not claim. *)
Fairness == WF_vars(\E p \in Process : Statement(p) \/ BreakDeadlock(p))

Spec     == Init /\ [][Next]_vars
FairSpec == Spec /\ Fairness
-----------------------------------------------------------------------------

(* Every transaction happens as if at one instant: whatever was read or    *)
(* compared before the last lock was taken still holds when it commits,    *)
(* and a rolled back one leaves nothing.                                   *)
AtomicSpec == Atomic!Spec

(* An answer is only applied while the artwork it was asked about is the   *)
(* current one: also where two first uploads share an artwork_version.     *)
AnswerMeetsItsUpload ==
    [][\A q \in DOMAIN question :
         (question[q].state # "answered" /\ question'[q].state = "answered")
            => question[q].about = order.cur]_vars

(* The rows are taken in opposite orders (an upload takes the order and    *)
(* then the questions, an answer the other way round), and yet whatever    *)
(* is under way ends, and the case is free again.                          *)
EveryTransactionEnds == []<>Quiet

-----------------------------------------------------------------------------
(* LatestAssetByKind finds "the most recent asset of a given kind for an   *)
(* order, e.g. the current original artwork" (assets.go).  created_at is   *)
(* the time a transaction began, the current asset the one that committed  *)
(* last: requestRepair may enqueue the artwork that is not current.        *)
LatestOriginalIsCurrent ==
    \A a \in original : a <= order.cur
=============================================================================

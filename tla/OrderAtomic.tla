---------------------------- MODULE OrderAtomic ----------------------------
(***************************************************************************)
(* What the transactions of internal/store promise about one order, its    *)
(* uploads, its clarifications and its jobs: each of them happens at one   *)
(* instant, with every guard true at that instant.  OrderTransactions runs *)
(* the same transactions statement by statement, with the locks Postgres   *)
(* takes, and implements this specification.                               *)
(***************************************************************************)
EXTENDS Naturals, Sequences

CONSTANTS Process,  \* customers' requests and workers
          NoOne,    \* the owner of what nobody holds
          AssetId   \* ids an upload's asset may get

VARIABLES order,     \* the orders row
          original,  \* ids of the assets of kind original
          question,  \* clarifications, in the order they were asked
          job        \* the active job of each type

vars == <<order, original, question, job>>

JobType == {"inspect", "agent_decide"}
NoJob   == [status |-> "none"]
None    == 0

NewJob(a, v) == [status |-> "active", asset |-> a, cv |-> v, by |-> NoOne]

Init == /\ order    = [cv |-> 1, av |-> 1, cur |-> None, trim |-> "unknown", status |-> "BLOCKED"]
        /\ original = {}
        /\ question = <<>>
        /\ job      = [t \in JobType |-> NoJob]
-----------------------------------------------------------------------------
(* What each transaction writes. *)

Uploaded(o, a, prior) ==
    [o EXCEPT !.av = IF prior THEN @ + 1 ELSE @, !.cv = @ + 1, !.cur = a,
              !.trim = "unknown", !.status = "BLOCKED"]

Bug_InvalidatedNothing(qs) == qs
Invalidated(qs) ==
    [i \in DOMAIN qs |-> IF qs[i].state = "open"
                         THEN [qs[i] EXCEPT !.state = "invalidated"] ELSE qs[i]]

(* trim tells only whether artwork_is_trim_only is set. *)
Reopened(o) == [o EXCEPT !.trim = "confirmed", !.cv = @ + 1, !.status = "BLOCKED"]

Answered(qs, q) == [qs EXCEPT ![q].state = "answered"]

Asked(qs, o) == Append(qs, [state |-> "open", av |-> o.av, about |-> o.cur])

Moved(o, s) == [o EXCEPT !.status = s, !.cv = @ + 1]
-----------------------------------------------------------------------------
(* prior says whether the upload counted an earlier original.  It may have *)
(* counted before the first one was committed.                             *)
Upload(a, prior) ==
    /\ a \notin original
    /\ prior => original # {}
    /\ original' = original \cup {a}
    /\ order'    = Uploaded(order, a, prior)
    /\ question' = Invalidated(question)
    /\ UNCHANGED job

ConfirmTrim ==
    /\ order' = Reopened(order)
    /\ UNCHANGED <<original, question, job>>

(* Open, about the current artwork_version, and the newest open one. *)
Answerable(qs, q, av) ==
    /\ q \in DOMAIN qs
    /\ qs[q].state = "open"
    /\ qs[q].av = av
    /\ \A r \in DOMAIN qs : qs[r].state = "open" => r <= q

Answer(q) ==
    /\ Answerable(question, q, order.av)
    /\ question' = Answered(question, q)
    /\ order'    = Reopened(order)
    /\ job'      = [job EXCEPT !["inspect"] = NewJob(order.cur, order.cv + 1)]
    /\ UNCHANGED original

(* CreateJob with an asset and a version that were current at some time. *)
Start(a, v) ==
    /\ a \in original
    /\ v <= order.cv
    /\ job["inspect"] = NoJob
    /\ job' = [job EXCEPT !["inspect"] = NewJob(a, v)]
    /\ UNCHANGED <<order, original, question>>

Claim(p, t) ==
    /\ job[t] # NoJob
    /\ job' = [job EXCEPT ![t].by = p]
    /\ UNCHANGED <<order, original, question>>

(* The guards of every Complete* transaction: the job is p's, and it is    *)
(* about the state the case is in.                                         *)
Completes(p, t) == job[t] # NoJob /\ job[t].by = p /\ job[t].cv = order.cv

(* CompleteInspection of a case that is not resolved. *)
Inspect(p) ==
    /\ Completes(p, "inspect")
    /\ order' = Moved(order, "NEEDS_REVIEW")
    /\ job'   = [inspect      |-> NoJob,
                 agent_decide |-> NewJob(job["inspect"].asset, order.cv + 1)]
    /\ UNCHANGED <<original, question>>

(* CompleteAgentDecision: a question about an unconfirmed trim. *)
Ask(p) ==
    /\ Completes(p, "agent_decide")
    /\ order.trim = "unknown"
    /\ question' = Asked(question, order)
    /\ order'    = Moved(order, "AWAITING_CLARIFICATION")
    /\ job'      = [job EXCEPT !["agent_decide"] = NoJob]
    /\ UNCHANGED original

Escalate(p) ==
    /\ Completes(p, "agent_decide")
    /\ order' = Moved(order, "NEEDS_REVIEW")
    /\ job'   = [job EXCEPT !["agent_decide"] = NoJob]
    /\ UNCHANGED <<original, question>>

Fail(p, t) ==
    /\ job[t] # NoJob /\ job[t].by = p
    /\ job' = [job EXCEPT ![t] = NoJob]
    /\ UNCHANGED <<order, original, question>>

Next ==
    \/ \E a \in AssetId, prior \in BOOLEAN : Upload(a, prior)
    \/ ConfirmTrim
    \/ \E q \in DOMAIN question : Answer(q)
    \/ \E a \in original, v \in 1 .. order.cv : Start(a, v)
    \/ \E p \in Process :
         \/ Inspect(p)
         \/ Ask(p) \/ Escalate(p)
         \/ \E t \in JobType : Claim(p, t) \/ Fail(p, t)

Spec == Init /\ [][Next]_vars
=============================================================================

-------------------------- MODULE ArtworkCaseQueue --------------------------
(***************************************************************************)
(* The case implements the contract of the job queue: what the workers and *)
(* the transactions of ArtworkCase do to the jobs table is what JobQueue   *)
(* allows, and nothing else.  A worker's steps between claim and commit    *)
(* are one "working" hand there.                                           *)
(***************************************************************************)
EXTENDS ArtworkCase

QueueHand ==
    [w \in Worker |->
        [pc  |-> IF worker[w].pc \in {"idle", "void"} THEN worker[w].pc ELSE "working",
         job |-> worker[w].job]]

(* A case_version is the first one, or due to a request or to a job that   *)
(* SUCCEEDED.                                                              *)
CaseVersion == 1 .. (1 + MaxRequests + MaxJobs)

Queue == INSTANCE JobQueue WITH
            hand    <- QueueHand,
            Asset   <- AssetId,
            Version <- CaseVersion,
            Key     <- Keys

(* Every step of the case is a step of the queue or leaves the queue as it *)
(* is: single claims, completion only under a lease, supersede only to     *)
(* insert, follow-ups only of the types the pipeline knows.                *)
QueueSpec == Queue!Spec

(* Every inspection, decision, repair and proof job of the case finishes.  *)
EveryJobFinishes == Queue!JobsFinish
=============================================================================

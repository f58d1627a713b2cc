---------------------- MODULE OrderTransactionsProofs ----------------------
(***************************************************************************)
(* The statements of the transactions on one order add up to transactions  *)
(* that happen at one instant, for any number of customers, workers and    *)
(* questions.  Two things make it so.  Who holds a row is alone with it    *)
(* (Held, OwnJob), and case_version never comes back: whatever was read    *)
(* together with it is true while the order still has it (CustomerKnows).  *)
(***************************************************************************)
EXTENDS OrderTransactions, SequenceTheorems, TLAPS

Asset       == AssetId \cup {None}
OrderRow    == [cv : Nat \ {0}, av : Nat \ {0}, cur : Asset, trim : {"unknown", "confirmed"},
                status : {"BLOCKED", "NEEDS_REVIEW", "AWAITING_CLARIFICATION"}]
QuestionRow == [state : {"open", "answered", "invalidated"}, av : Nat, about : Asset]
JobRow      == [status : {"active"}, asset : Asset, cv : Nat, by : Process \cup {NoOne}]

(* What a process has in hand. *)
Counting  == [pc : {"begun"}, id : AssetId]
Uploading == [pc : {"counted", "inserted", "reopened"}, id : AssetId, prior : BOOLEAN]
Trimming  == [pc : {"trim"}, cv : Nat]
Asking    == [pc : {"answer"}, question : Nat, cv : Nat]
Answering == [pc : {"versioned", "answered", "confirmed", "looked"},
              question : Nat, cv : Nat, av : Nat]
Starting  == [pc : {"read"}, asset : Asset, cv : Nat]
Working   == [pc : {"working", "own", "void", "reported", "advanced", "looked", "locked"},
              type : JobType, cv : Nat, asset : Asset]
CustomerHand == {Idle} \cup Counting \cup Uploading \cup Trimming \cup Asking \cup Answering \cup Starting
WorkerHand   == {Idle} \cup Working

Typed ==
    /\ order \in OrderRow
    /\ original \in SUBSET AssetId
    /\ question \in Seq(QuestionRow)
    /\ job \in [JobType -> JobRow \cup {NoJob}]
    /\ lock \in [Row -> Process \cup {NoOne}]
    /\ tx \in [Process -> CustomerHand \cup WorkerHand]
    /\ \A p \in Customer : tx[p] \in CustomerHand
    /\ \A p \in Worker : tx[p] \in WorkerHand
    /\ requests \in 0 .. MaxRequests
    /\ faults \in Nat

UploadPc == {"begun", "counted", "inserted", "reopened"}
AnswerPc == {"versioned", "answered", "confirmed", "looked"}

(* Ids of assets are handed out once, and what is current was uploaded. *)
Ids ==
    /\ \A a \in original : a <= requests
    /\ \A p \in Customer : tx[p].pc \in UploadPc => tx[p].id \notin original /\ tx[p].id <= requests
    /\ \A p, q \in Customer :
          tx[p].pc \in UploadPc /\ tx[q].pc \in UploadPc /\ tx[p].id = tx[q].id => p = q
    /\ order.cur # None => order.cur \in original

(* An open question is about the artwork the order has. *)
OpenIsCurrent == \A q \in DOMAIN question : question[q].state = "open" => question[q].about = order.cur

(* What a customer's transaction has read is still so, or the order has    *)
(* another version.                                                        *)
CustomerKnows(p) ==
    /\ tx[p].pc \in {"counted", "inserted", "reopened"} => (tx[p].prior => original # {})
    /\ tx[p].pc \in {"trim", "answer"} \cup AnswerPc => tx[p].cv <= order.cv
    /\ tx[p].pc = "read" => tx[p].asset \in original /\ tx[p].cv \in 1 .. order.cv
    /\ tx[p].pc \in AnswerPc /\ tx[p].cv = order.cv => tx[p].av = order.av
    /\ tx[p].pc \in AnswerPc \ {"versioned"} /\ tx[p].cv = order.cv =>
         Atomic!Answerable(question, tx[p].question, order.av)

(* Whoever is past the statement that takes the order's row has it. *)
Held(p) ==
    /\ tx[p].pc \in {"reopened", "confirmed", "looked", "advanced", "locked"} => lock[TheOrder] = p
    /\ tx[p].pc \in {"confirmed", "looked", "advanced", "locked"} => tx[p].cv = order.cv

(* A job that is still the worker's is the one it claimed, and a worker    *)
(* that has taken its row keeps it.                                        *)
OwnJob(p) ==
    /\ tx[p] # Idle /\ job[tx[p].type] # NoJob /\ job[tx[p].type].by = p =>
         job[tx[p].type].cv = tx[p].cv /\ job[tx[p].type].asset = tx[p].asset
    /\ tx[p].pc \in {"own", "reported", "advanced", "looked", "locked"} =>
         lock[JobOf(tx[p].type)] = p /\ job[tx[p].type] # NoJob /\ job[tx[p].type].by = p
    /\ tx[p].pc \in {"reported", "advanced", "looked"} => tx[p].type = "inspect"
    /\ tx[p].pc = "locked" => tx[p].type = "agent_decide"
    /\ tx[p].pc = "looked" =>
         job["agent_decide"] = NoJob \/ lock[JobOf("agent_decide")] = p

IInv == /\ Typed /\ Ids /\ OpenIsCurrent
        /\ \A p \in Customer : CustomerKnows(p)
        /\ \A p \in Process : Held(p)
        /\ \A p \in Worker : OwnJob(p)
-----------------------------------------------------------------------------
(* What a process has in hand tells what kind of process it is, and where  *)
(* it is tells what it has.                                                *)

LEMMA Processes ==
  /\ Customer \subseteq Process /\ Worker \subseteq Process /\ NoOne \notin Process
  /\ \A p \in Process : p \in Customer \/ p \in Worker
  /\ \A p \in Customer : p \notin Worker
  BY ProcessAssumption DEF Process

LEMMA CustomerHands ==
  ASSUME Typed, NEW p \in Customer
  PROVE  /\ tx[p].pc \in {"idle", "begun", "counted", "inserted", "reopened", "trim", "answer",
                         "versioned", "answered", "confirmed", "looked", "read"}
         /\ tx[p] = Idle <=> tx[p].pc = "idle"
         /\ tx[p].pc = "begun" => tx[p] \in Counting
         /\ tx[p].pc \in {"counted", "inserted", "reopened"} => tx[p] \in Uploading
         /\ tx[p].pc = "trim" => tx[p] \in Trimming
         /\ tx[p].pc = "answer" => tx[p] \in Asking
         /\ tx[p].pc \in AnswerPc => tx[p] \in Answering
         /\ tx[p].pc = "read" => tx[p] \in Starting
<1>1. tx[p] \in CustomerHand
  BY DEF Typed
<1> QED
  BY <1>1 DEF CustomerHand, Idle, Counting, Uploading, Trimming, Asking, Answering, Starting, AnswerPc

LEMMA WorkerHands ==
  ASSUME Typed, NEW p \in Worker
  PROVE  /\ tx[p].pc \in {"idle", "working", "own", "void", "reported", "advanced", "looked", "locked"}
         /\ tx[p] = Idle <=> tx[p].pc = "idle"
         /\ tx[p] # Idle => tx[p] \in Working /\ tx[p].type \in JobType /\ tx[p].cv \in Nat
<1>1. tx[p] \in WorkerHand
  BY DEF Typed
<1> QED
  BY <1>1 DEF WorkerHand, Idle, Working

LEMMA WhoIsThere ==
  ASSUME Typed, NEW p \in Process
  PROVE  /\ tx[p].pc \in {"begun", "counted", "inserted", "reopened", "trim", "answer",
                         "versioned", "answered", "confirmed", "read"} => p \in Customer
         /\ tx[p].pc \in {"working", "own", "void", "reported", "advanced", "locked"} => p \in Worker
         /\ tx[p] = Idle <=> tx[p].pc = "idle"
<1>1. p \in Customer \/ p \in Worker
  BY Processes
<1> QED
  BY <1>1, CustomerHands, WorkerHands

LEMMA UploadGoesOn ==
  ASSUME NEW h \in Uploading, NEW pc \in {"counted", "inserted", "reopened"}
  PROVE  LET n == [h EXCEPT !.pc = pc]
         IN  n \in Uploading /\ n.pc = pc /\ n.id = h.id /\ n.prior = h.prior
  BY DEF Uploading

LEMMA AnswerGoesOn ==
  ASSUME NEW h \in Answering, NEW pc \in AnswerPc
  PROVE  LET n == [h EXCEPT !.pc = pc]
         IN  /\ n \in Answering /\ n.pc = pc
             /\ n.question = h.question /\ n.cv = h.cv /\ n.av = h.av
  BY DEF Answering, AnswerPc

LEMMA WorkGoesOn ==
  ASSUME NEW h \in Working,
         NEW pc \in {"working", "own", "void", "reported", "advanced", "looked", "locked"}
  PROVE  LET n == [h EXCEPT !.pc = pc]
         IN  n \in Working /\ n.pc = pc /\ n.type = h.type /\ n.cv = h.cv /\ n.asset = h.asset
  BY DEF Working
-----------------------------------------------------------------------------
(* Rows.  A statement that runs takes what nobody else has, and nobody but *)
(* the holder of a row lets go of it.                                      *)

Locks(p) ==
    /\ lock' \in [Row -> Process \cup {NoOne}]
    /\ \A r \in Row : lock[r] \notin {NoOne, p} => lock'[r] = lock[r]

LEMMA RowsThere ==
  /\ TheOrder \in Row
  /\ \A t \in JobType : JobOf(t) \in Row
  BY DEF Row

LEMMA Taking ==
  ASSUME Typed, NEW p \in Process, WaitsFor(p) = {}, Takes(p, Needs(p))
  PROVE  /\ Locks(p)
         /\ \A r \in Row : r \in Needs(p) \/ lock[r] = p => lock'[r] = p
<1>1. lock \in [Row -> Process \cup {NoOne}]
  BY DEF Typed
<1>2. \A r \in Needs(p) : lock[r] \in {NoOne, p}
  BY DEF WaitsFor
<1>3. lock' = [r \in Row |-> IF r \in Needs(p) THEN p ELSE lock[r]]
  BY DEF Takes
<1> QED
  BY <1>1, <1>2, <1>3 DEF Locks

LEMMA LettingGo ==
  ASSUME Typed, NEW p \in Process,
         lock' = [r \in Row |-> IF lock[r] = p THEN NoOne ELSE lock[r]]
  PROVE  Locks(p)
  BY DEF Typed, Locks

LEMMA KeepingRows ==
  ASSUME Typed, NEW p \in Process, lock' = lock
  PROVE  Locks(p)
  BY DEF Typed, Locks

(* What the statements of the transactions need. *)
LEMMA NeedsAre ==
  ASSUME NEW p \in Process
  PROVE  /\ At(p, "inserted") => Needs(p) = {TheOrder}
         /\ At(p, "answered") /\ order.cv = tx[p].cv => Needs(p) = {TheOrder}
         /\ At(p, "trim") /\ order.cv = tx[p].cv => Needs(p) = {TheOrder}
         /\ At(p, "reported") /\ order.cv = tx[p].cv => Needs(p) = {TheOrder}
         /\ At(p, "own") /\ tx[p].type = "agent_decide" => Needs(p) = {TheOrder}
         /\ At(p, "working") \/ At(p, "void") => Needs(p) = {JobOf(tx[p].type)}
         /\ At(p, "advanced") /\ job["agent_decide"] # NoJob => Needs(p) = {JobOf("agent_decide")}
  BY DEF Needs, At

LEMMA Going ==
  ASSUME Typed, NEW p \in Process, NEW h, Goes(p, h)
  PROVE  tx' = [tx EXCEPT ![p] = h] /\ tx'[p] = h /\ \A q \in Process \ {p} : tx'[q] = tx[q]
  BY DEF Typed, Goes
-----------------------------------------------------------------------------
(* How far a step of p goes: no row that somebody else holds changes, and  *)
(* the order does not change without its version.                          *)

OrderMoves(p) ==
    \/ order' = order /\ question' = question
    \/ /\ order'.cv = order.cv + 1
       /\ lock[TheOrder] \in {NoOne, p}

JobMoves(p) ==
    /\ \A t \in JobType :
         job'[t] # job[t] => /\ job'[t] = NoJob \/ job'[t].by \in {NoOne, p}
                             /\ job[t] = NoJob \/ lock[JobOf(t)] \in {NoOne, p}
    /\ job["agent_decide"] = NoJob => job'["agent_decide"] = NoJob \/ lock[TheOrder] = p

Frame(p) ==
    /\ \A q \in Process \ {p} : tx'[q] = tx[q]
    /\ Locks(p)
    /\ OrderMoves(p)
    /\ JobMoves(p)
    /\ original \subseteq original'

(* The others keep what they know, hold and work on. *)
LEMMA OthersKnow ==
  ASSUME IInv, Typed', NEW p \in Process, Frame(p), NEW q \in Customer, q # p
  PROVE  CustomerKnows(q)'
<1>1. Typed /\ CustomerKnows(q) /\ tx'[q] = tx[q] /\ original \subseteq original'
  BY Processes DEF IInv, Frame
<1>2. order.cv \in Nat /\ order'.cv \in Nat
  BY <1>1 DEF Typed, OrderRow
<1>3. /\ tx[q].pc \in {"trim", "answer", "read"} \cup AnswerPc => tx[q].cv \in Nat
  BY <1>1, CustomerHands DEF Trimming, Asking, Answering, Starting, AnswerPc
<1>4. CASE order' = order /\ question' = question
  BY <1>1, <1>4 DEF CustomerKnows, Atomic!Answerable
<1>5. CASE order'.cv = order.cv + 1
  <2>1. /\ tx[q].pc \in {"trim", "answer"} \cup AnswerPc => tx[q].cv < order'.cv
        /\ tx[q].pc = "read" => tx[q].cv \in 1 .. order'.cv
    BY <1>1, <1>2, <1>3, <1>5 DEF CustomerKnows, AnswerPc
  <2> QED
    BY <1>1, <1>2, <1>3, <2>1 DEF CustomerKnows, AnswerPc
<1> QED
  BY <1>4, <1>5 DEF Frame, OrderMoves

LEMMA OthersHold ==
  ASSUME IInv, NEW p \in Process, Frame(p), NEW q \in Process, q # p
  PROVE  Held(q)'
<1>1. Held(q) /\ tx'[q] = tx[q] /\ q # NoOne
  BY Processes DEF IInv, Frame
<1>2. lock[TheOrder] = q => lock'[TheOrder] = q /\ order' = order
  BY <1>1, RowsThere DEF Frame, Locks, OrderMoves
<1> QED
  BY <1>1, <1>2 DEF Held

LEMMA OthersWork ==
  ASSUME IInv, NEW p \in Process, Frame(p), NEW q \in Worker, q # p
  PROVE  OwnJob(q)'
<1> USE DEF JobOf
<1>1. Typed /\ OwnJob(q) /\ Held(q) /\ tx'[q] = tx[q] /\ q # NoOne /\ q \in Process
  BY Processes DEF IInv, Frame
<1>2. tx[q] # Idle => tx[q].type \in JobType
  BY <1>1, WorkerHands
<1>3. \A t \in JobType : lock[JobOf(t)] = q => /\ lock'[JobOf(t)] = q
                                               /\ job[t] # NoJob => job'[t] = job[t]
  BY <1>1, RowsThere DEF Frame, Locks, JobMoves
<1>4. \A t \in JobType : job'[t] # NoJob /\ job'[t].by = q => job'[t] = job[t]
  BY <1>1 DEF Frame, JobMoves
<1>5. "agent_decide" \in JobType
  BY DEF JobType, Atomic!JobType
<1>6. tx[q].pc = "looked" /\ job["agent_decide"] = NoJob => job'["agent_decide"] = NoJob
  BY <1>1 DEF Frame, JobMoves, Held
<1>7. tx[q].pc \in {"own", "reported", "advanced", "looked", "locked"} => tx[q] # Idle
  BY DEF Idle
<1>8. OwnJob(q)!1'
  BY <1>1, <1>2, <1>4 DEF OwnJob
<1>9. OwnJob(q)!2'
  BY <1>1, <1>2, <1>3, <1>7 DEF OwnJob
<1>10. OwnJob(q)!3' /\ OwnJob(q)!4'
  BY <1>1 DEF OwnJob
<1>11. OwnJob(q)!5'
  BY <1>1, <1>3, <1>5, <1>6 DEF OwnJob
<1> QED
  BY <1>8, <1>9, <1>10, <1>11 DEF OwnJob

LEMMA OthersKeep ==
  ASSUME IInv, Typed', NEW p \in Process, Frame(p),
         p \in Customer => CustomerKnows(p)',
         Held(p)',
         p \in Worker => OwnJob(p)'
  PROVE  /\ \A q \in Customer : CustomerKnows(q)'
         /\ \A q \in Process : Held(q)'
         /\ \A q \in Worker : OwnJob(q)'
  BY OthersKnow, OthersHold, OthersWork
-----------------------------------------------------------------------------
(* Statements that change no row. *)

Reads == UNCHANGED <<order, original, question, job>>

LEMMA ReadingIsFramed ==
  ASSUME Reads, NEW p \in Process, Locks(p), \A q \in Process \ {p} : tx'[q] = tx[q]
  PROVE  Frame(p)
  BY DEF Reads, Frame, OrderMoves, JobMoves

LEMMA ReadingKeeps ==
  ASSUME IInv, Reads, requests' \in 0 .. MaxRequests, requests <= requests', faults' \in Nat,
         NEW p \in Process, Locks(p), NEW h, Goes(p, h),
         p \in Customer => h \in CustomerHand,
         p \in Worker => h \in WorkerHand,
         h.pc \in UploadPc => \/ tx[p].pc \in UploadPc /\ h.id = tx[p].id
                              \/ h.id = requests' /\ requests < requests',
         p \in Customer => CustomerKnows(p)',
         Held(p)',
         p \in Worker => OwnJob(p)'
  PROVE  IInv'
<1>1. Typed /\ Ids /\ OpenIsCurrent
  BY DEF IInv
<1>2. tx' = [tx EXCEPT ![p] = h] /\ tx'[p] = h /\ \A q \in Process \ {p} : tx'[q] = tx[q]
  BY <1>1, Going
<1>3. Typed'
  <2>1. tx' \in [Process -> CustomerHand \cup WorkerHand]
    BY <1>1, <1>2, Processes DEF Typed
  <2>2. \A q \in Customer : tx'[q] \in CustomerHand
    BY <1>1, <1>2, Processes DEF Typed
  <2>3. \A q \in Worker : tx'[q] \in WorkerHand
    BY <1>1, <1>2, Processes DEF Typed
  <2> QED
    BY <1>1, <2>1, <2>2, <2>3 DEF Typed, Reads, Locks
<1>4. Ids'
  <2>1. /\ requests \in Nat /\ requests' \in Nat /\ original \in SUBSET Nat
        /\ \A q \in Customer : tx[q].pc \in UploadPc => tx[q].id \in Nat
    BY <1>1, CustomerHands, BoundAssumption DEF Typed, AssetId, UploadPc, Counting, Uploading
  <2>2. (\A a \in original : a <= requests)'
    BY <1>1, <2>1 DEF Ids, Reads
  <2>3. \A q \in Customer : tx[q].pc \in UploadPc => tx[q].id <= requests'
    BY <1>1, <2>1 DEF Ids
  <2>4. (\A q \in Customer : tx[q].pc \in UploadPc => tx[q].id \notin original /\ tx[q].id <= requests)'
    BY <1>1, <1>2, <2>1, <2>3, Processes DEF Ids, Reads
  <2>5. (\A q, r \in Customer :
          tx[q].pc \in UploadPc /\ tx[r].pc \in UploadPc /\ tx[q].id = tx[r].id => q = r)'
    BY <1>1, <1>2, <2>1, Processes DEF Ids
  <2> QED
    BY <1>1, <2>2, <2>4, <2>5 DEF Ids, Reads
<1>5. OpenIsCurrent'
  BY <1>1 DEF OpenIsCurrent, Reads
<1>6. Frame(p)
  BY <1>2, ReadingIsFramed
<1> QED
  BY <1>3, <1>4, <1>5, <1>6, OthersKeep DEF IInv
-----------------------------------------------------------------------------
(* Each statement that changes no row keeps the invariant. *)

LEMMA IdleHands ==
  /\ Idle.pc = "idle" /\ Idle \in CustomerHand /\ Idle \in WorkerHand
  BY DEF Idle, CustomerHand, WorkerHand

LEMMA AtRest ==
  ASSUME NEW p \in Process, tx'[p] = Idle
  PROVE  CustomerKnows(p)' /\ Held(p)' /\ OwnJob(p)'
  BY DEF CustomerKnows, Held, OwnJob, AnswerPc, Idle

(* A transaction that ends without a write: refused, rolled back, broken.  *)
LEMMA GivingUpKeeps ==
  ASSUME IInv, Reads, UNCHANGED requests, faults' \in Nat, NEW p \in Process, Ends(p)
  PROVE  IInv'
<1>1. Typed /\ requests' \in 0 .. MaxRequests /\ requests <= requests'
  BY BoundAssumption DEF IInv, Typed
<1>2. Locks(p) /\ Goes(p, Idle)
  BY <1>1, LettingGo DEF Ends
<1>3. tx'[p] = Idle
  BY <1>1, <1>2, Going
<1>4. CustomerKnows(p)' /\ Held(p)' /\ OwnJob(p)'
  BY <1>3, AtRest
<1>5. Idle.pc \notin UploadPc
  BY IdleHands DEF UploadPc
<1> QED
  BY <1>1, <1>2, <1>4, <1>5, IdleHands, ReadingKeeps

(* A customer's request that begins, or reads on, without a row. *)
LEMMA CustomerReadsOn ==
  ASSUME IInv, Reads, requests' \in 0 .. MaxRequests, requests <= requests', faults' \in Nat,
         NEW p \in Customer, Locks(p), NEW h \in CustomerHand, Goes(p, h),
         h.pc \in UploadPc => \/ tx[p].pc \in UploadPc /\ h.id = tx[p].id
                              \/ h.id = requests' /\ requests < requests',
         CustomerKnows(p)', Held(p)'
  PROVE  IInv'
  BY Processes, ReadingKeeps

LEMMA WorkerReadsOn ==
  ASSUME IInv, Reads, UNCHANGED <<requests, faults>>,
         NEW p \in Worker, Locks(p), NEW h \in Working, Goes(p, h),
         Held(p)', OwnJob(p)'
  PROVE  IInv'
<1>1. requests' \in 0 .. MaxRequests /\ requests <= requests' /\ faults' \in Nat
  BY BoundAssumption DEF IInv, Typed
<1>2. h \in WorkerHand /\ h.pc \notin UploadPc
  BY DEF WorkerHand, Working, UploadPc
<1> QED
  BY <1>1, <1>2, Processes, ReadingKeeps

LEMMA BeginKeeps ==
  ASSUME IInv, NEW p \in Process, Begin(p)
  PROVE  IInv'
<1>1. Typed /\ Ids /\ p \in Customer /\ lock' = lock /\ Reads
  BY DEF IInv, Begin, BeginUpload, BeginTrim, BeginAnswer, ReadOrder, Reads
<1>2. /\ requests' \in 0 .. MaxRequests /\ requests <= requests' /\ requests < requests'
      /\ faults' \in Nat /\ requests' \in AssetId
  <2>1. NewRequest
    BY DEF Begin, BeginUpload, BeginTrim, BeginAnswer, ReadOrder
  <2>2. requests \in Nat /\ faults \in Nat
    BY <1>1, BoundAssumption DEF Typed
  <2> QED
    BY <2>1, <2>2, BoundAssumption DEF NewRequest, AssetId
<1>3. Locks(p)
  BY <1>1, KeepingRows
<1>4. order.cv \in Nat /\ order.cv > 0 /\ order.cur \in Asset
  BY <1>1 DEF Typed, OrderRow
<1>5. CASE BeginUpload(p)
  <2>1. PICK h : h = [pc |-> "begun", id |-> requests']
    OBVIOUS
  <2>2. h \in CustomerHand /\ h.pc = "begun" /\ h.id = requests'
    BY <1>2, <2>1 DEF CustomerHand, Counting
  <2>3. Goes(p, h)
    BY <1>5, <2>1 DEF BeginUpload
  <2>4. CustomerKnows(p)' /\ Held(p)'
    BY <1>1, <2>2, <2>3, Going DEF CustomerKnows, Held, AnswerPc
  <2> QED
    BY <1>1, <1>2, <1>3, <2>2, <2>3, <2>4, CustomerReadsOn
<1>6. CASE BeginTrim(p)
  <2>1. PICK h : h = [pc |-> "trim", cv |-> order.cv]
    OBVIOUS
  <2>2. h \in CustomerHand /\ h.pc = "trim" /\ h.cv = order.cv
    BY <1>4, <2>1 DEF CustomerHand, Trimming
  <2>3. Goes(p, h)
    BY <1>6, <2>1 DEF BeginTrim
  <2>4. CustomerKnows(p)' /\ Held(p)'
    BY <1>1, <1>4, <2>2, <2>3, Going DEF CustomerKnows, Held, AnswerPc, Reads
  <2> QED
    BY <1>1, <1>2, <1>3, <2>2, <2>3, <2>4, CustomerReadsOn DEF UploadPc
<1>7. ASSUME NEW q \in 1 .. MaxQuestions, BeginAnswer(p, q)
      PROVE  IInv'
  <2>1. PICK h : h = [pc |-> "answer", question |-> q, cv |-> order.cv]
    OBVIOUS
  <2>2. h \in CustomerHand /\ h.pc = "answer" /\ h.cv = order.cv
    BY <1>4, <2>1 DEF CustomerHand, Asking
  <2>3. Goes(p, h)
    BY <1>7, <2>1 DEF BeginAnswer
  <2>4. CustomerKnows(p)' /\ Held(p)'
    BY <1>1, <1>4, <2>2, <2>3, Going DEF CustomerKnows, Held, AnswerPc, Reads
  <2> QED
    BY <1>1, <1>2, <1>3, <2>2, <2>3, <2>4, CustomerReadsOn DEF UploadPc
<1>8. CASE ReadOrder(p)
  <2>1. PICK h : h = [pc |-> "read", asset |-> order.cur, cv |-> order.cv]
    OBVIOUS
  <2>2. h \in CustomerHand /\ h.pc = "read" /\ h.cv = order.cv /\ h.asset = order.cur
    BY <1>4, <2>1 DEF CustomerHand, Starting
  <2>3. Goes(p, h) /\ order.cur \in original
    BY <1>1, <1>8, <2>1 DEF ReadOrder, Ids
  <2>4. CustomerKnows(p)' /\ Held(p)'
    BY <1>1, <1>4, <2>2, <2>3, Going DEF CustomerKnows, Held, AnswerPc, Reads
  <2> QED
    BY <1>1, <1>2, <1>3, <2>2, <2>3, <2>4, CustomerReadsOn DEF UploadPc
<1> QED
  BY <1>5, <1>6, <1>7, <1>8 DEF Begin

LEMMA UploadReadsKeep ==
  ASSUME IInv, NEW p \in Process, CountOriginals(p) \/ InsertAsset(p) \/ ReopenOrder(p)
  PROVE  IInv'
<1>1. Typed /\ p \in Customer
  BY WhoIsThere DEF IInv, CountOriginals, InsertAsset, ReopenOrder, Runs, At
<1>2. /\ Reads /\ UNCHANGED requests
      /\ requests' \in 0 .. MaxRequests /\ requests <= requests' /\ faults' \in Nat
  BY <1>1, BoundAssumption DEF CountOriginals, InsertAsset, ReopenOrder, Unchanged, Reads, Typed
<1>3. CustomerKnows(p) /\ UploadPc = {"begun", "counted", "inserted", "reopened"}
  BY <1>1 DEF IInv, UploadPc
<1>4. CASE CountOriginals(p)
  <2>1. PICK h : h = [pc |-> "counted", id |-> tx[p].id, prior |-> original # {}]
    OBVIOUS
  <2>2. tx[p].pc = "begun" /\ Goes(p, h) /\ lock' = lock
    BY <1>4, <2>1 DEF CountOriginals, At
  <2>3. tx[p].id \in AssetId
    BY <1>1, <2>2, CustomerHands DEF Counting
  <2>4. h \in CustomerHand /\ h.pc = "counted" /\ h.id = tx[p].id /\ (h.prior => original # {})
    BY <2>1, <2>3 DEF CustomerHand, Uploading
  <2>5. CustomerKnows(p)' /\ Held(p)'
    BY <1>1, <1>2, <2>2, <2>4, Going DEF CustomerKnows, Held, AnswerPc, Reads
  <2> QED
    BY <1>1, <1>2, <1>3, <2>2, <2>4, <2>5, KeepingRows, CustomerReadsOn
<1>5. CASE InsertAsset(p)
  <2>1. PICK h : h = [tx[p] EXCEPT !.pc = "inserted"]
    OBVIOUS
  <2>2. tx[p].pc = "counted" /\ Goes(p, h) /\ lock' = lock
    BY <1>5, <2>1 DEF InsertAsset, Runs, At
  <2>3. h \in Uploading /\ h.pc = "inserted" /\ h.id = tx[p].id /\ h.prior = tx[p].prior
    BY <1>1, <2>1, <2>2, CustomerHands, UploadGoesOn
  <2>4. CustomerKnows(p)' /\ Held(p)'
    BY <1>1, <1>2, <1>3, <2>2, <2>3, Going DEF CustomerKnows, Held, AnswerPc, Reads
  <2> QED
    BY <1>1, <1>2, <1>3, <2>2, <2>3, <2>4, KeepingRows, CustomerReadsOn DEF CustomerHand
<1>6. CASE ReopenOrder(p)
  <2>1. PICK h : h = [tx[p] EXCEPT !.pc = "reopened"]
    OBVIOUS
  <2>2. tx[p].pc = "inserted" /\ Goes(p, h) /\ WaitsFor(p) = {} /\ Takes(p, Needs(p))
    BY <1>6, <2>1 DEF ReopenOrder, Runs, At
  <2>3. h \in Uploading /\ h.pc = "reopened" /\ h.id = tx[p].id /\ h.prior = tx[p].prior
    BY <1>1, <2>1, <2>2, CustomerHands, UploadGoesOn
  <2>4. Locks(p) /\ lock'[TheOrder] = p
    BY <1>1, <2>2, Taking, NeedsAre, RowsThere DEF At
  <2>5. CustomerKnows(p)' /\ Held(p)'
    BY <1>1, <1>2, <1>3, <2>2, <2>3, <2>4, Going DEF CustomerKnows, Held, AnswerPc, Reads
  <2> QED
    BY <1>1, <1>2, <1>3, <2>2, <2>3, <2>4, <2>5, CustomerReadsOn DEF CustomerHand
<1> QED
  BY <1>4, <1>5, <1>6

LEMMA AnswerReadsKeep ==
  ASSUME IInv, NEW p \in Process,
         ReadVersion(p) \/ AnswerQuestion(p) \/ ReopenForAnswer(p) \/ LookForInspection(p)
  PROVE  IInv'
<1>1. Typed /\ p \in Customer
  BY WhoIsThere
     DEF IInv, ReadVersion, AnswerQuestion, ReopenForAnswer, LookForInspection, Runs, At
<1>2. /\ Reads /\ UNCHANGED requests
      /\ requests' \in 0 .. MaxRequests /\ requests <= requests' /\ faults' \in Nat
  BY <1>1, BoundAssumption
     DEF ReadVersion, AnswerQuestion, ReopenForAnswer, LookForInspection, Unchanged, Reads, Typed
<1>3. CustomerKnows(p) /\ Held(p) /\ AnswerPc = {"versioned", "answered", "confirmed", "looked"}
  BY <1>1, Processes DEF IInv, AnswerPc
<1>4. CASE Ends(p)
  BY <1>2, <1>4, GivingUpKeeps
<1>5. CASE ReadVersion(p)
  <2>1. PICK h : h = [pc |-> "versioned", question |-> tx[p].question, cv |-> tx[p].cv, av |-> order.av]
    OBVIOUS
  <2>2. tx[p].pc = "answer" /\ Goes(p, h) /\ lock' = lock
    BY <1>5, <2>1 DEF ReadVersion, At
  <2>3. tx[p].question \in Nat /\ tx[p].cv \in Nat /\ order.av \in Nat
    BY <1>1, <2>2, CustomerHands DEF Asking, Typed, OrderRow
  <2>4. h \in CustomerHand /\ h.pc = "versioned" /\ h.cv = tx[p].cv /\ h.av = order.av
    BY <1>3, <2>1, <2>3 DEF CustomerHand, Answering
  <2>5. CustomerKnows(p)' /\ Held(p)'
    BY <1>1, <1>2, <1>3, <2>2, <2>4, Going DEF CustomerKnows, Held, Reads
  <2> QED
    BY <1>1, <1>2, <2>2, <2>4, <2>5, KeepingRows, CustomerReadsOn DEF UploadPc
<1>6. ASSUME NEW pc \in {"answered", "confirmed", "looked"},
             Goes(p, [tx[p] EXCEPT !.pc = pc]), tx[p].pc \in AnswerPc,
             WaitsFor(p) = {}, Takes(p, Needs(p)),
             tx[p].cv = order.cv => Atomic!Answerable(question, tx[p].question, order.av),
             pc # "answered" => lock'[TheOrder] = p /\ tx[p].cv = order.cv
      PROVE  IInv'
  <2>1. PICK h : h = [tx[p] EXCEPT !.pc = pc]
    OBVIOUS
  <2>2. h \in Answering /\ h.pc = pc /\ h.question = tx[p].question /\ h.cv = tx[p].cv /\ h.av = tx[p].av
    <3>1. tx[p] \in Answering /\ pc \in AnswerPc
      BY <1>1, <1>3, <1>6, CustomerHands
    <3> QED
      BY ONLY <2>1, <3>1, AnswerGoesOn
  <2>3. Goes(p, h) /\ Locks(p)
    BY <1>1, <1>6, <2>1, Taking
  <2>4. tx'[p] = h
    BY <1>1, <2>3, Going
  <2>5. CustomerKnows(p)'
    BY <1>2, <1>3, <1>6, <2>2, <2>4 DEF CustomerKnows, Reads
  <2>6. Held(p)'
    BY <1>2, <1>3, <1>6, <2>2, <2>4 DEF Held, Reads
  <2> QED
    BY <1>1, <1>2, <2>2, <2>3, <2>5, <2>6, CustomerReadsOn DEF CustomerHand, UploadPc
<1>7. CASE AnswerQuestion(p) /\ ~Ends(p)
  <2>1. /\ tx[p].pc = "versioned" /\ WaitsFor(p) = {} /\ CanAnswer(p) /\ Takes(p, Needs(p))
        /\ Goes(p, [tx[p] EXCEPT !.pc = "answered"])
    BY <1>7 DEF AnswerQuestion, Runs, At
  <2>2. tx[p].cv = order.cv => Atomic!Answerable(question, tx[p].question, order.av)
    BY <1>3, <2>1 DEF CanAnswer, CustomerKnows
  <2> QED
    BY <1>3, <1>6, <2>1, <2>2
<1>8. CASE ReopenForAnswer(p) /\ ~Ends(p)
  <2>1. /\ tx[p].pc = "answered" /\ WaitsFor(p) = {} /\ order.cv = tx[p].cv /\ Takes(p, Needs(p))
        /\ Goes(p, [tx[p] EXCEPT !.pc = "confirmed"])
    BY <1>8 DEF ReopenForAnswer, Runs, At
  <2>2. lock'[TheOrder] = p
    BY <1>1, <2>1, Taking, NeedsAre, RowsThere, Processes DEF At
  <2>3. Atomic!Answerable(question, tx[p].question, order.av)
    BY <1>3, <2>1 DEF CustomerKnows
  <2> QED
    BY <1>3, <1>6, <2>1, <2>2, <2>3
<1>9. CASE LookForInspection(p)
  <2>1. /\ tx[p].pc = "confirmed" /\ WaitsFor(p) = {} /\ Takes(p, Needs(p))
        /\ Goes(p, [tx[p] EXCEPT !.pc = "looked"])
    BY <1>9 DEF LookForInspection, Runs, At
  <2>2. lock[TheOrder] = p /\ tx[p].cv = order.cv
    BY <1>3, <2>1 DEF Held
  <2>3. lock'[TheOrder] = p
    BY <1>1, <2>1, <2>2, Taking, RowsThere, Processes
  <2>4. Atomic!Answerable(question, tx[p].question, order.av)
    BY <1>3, <2>1, <2>2 DEF CustomerKnows
  <2> QED
    BY <1>3, <1>6, <2>1, <2>2, <2>3, <2>4
<1> QED
  BY <1>4, <1>5, <1>7, <1>8, <1>9 DEF AnswerQuestion, ReopenForAnswer

LEMMA WorkReadsKeep ==
  ASSUME IInv, NEW p \in Process,
         \/ TakeOwnJob(p) \/ InsertFindings(p) \/ AdvanceOrder(p) \/ LookForDecision(p)
         \/ SelectOrder(p)
  PROVE  IInv'
<1> USE DEF JobOf
<1>1. Typed /\ p \in Worker
  BY WhoIsThere
     DEF IInv, TakeOwnJob, InsertFindings, AdvanceOrder, LookForDecision, SelectOrder, Runs, At
<1>2. Reads /\ UNCHANGED <<requests, faults>>
  BY DEF TakeOwnJob, InsertFindings, AdvanceOrder, LookForDecision, SelectOrder, Unchanged, Reads
<1>3. OwnJob(p) /\ Held(p)
  BY <1>1, Processes DEF IInv
<1>4. tx[p] # Idle /\ tx[p] \in Working /\ tx[p].type \in JobType
  BY <1>1, WorkerHands
     DEF TakeOwnJob, InsertFindings, AdvanceOrder, LookForDecision, SelectOrder, Runs, At
<1>5. ASSUME NEW pc \in {"own", "void", "reported", "advanced", "looked", "locked"},
             Goes(p, [tx[p] EXCEPT !.pc = pc]), Locks(p),
             pc \in {"looked", "advanced", "locked"} => lock'[TheOrder] = p /\ tx[p].cv = order.cv,
             pc # "void" => /\ lock'[JobOf(tx[p].type)] = p
                            /\ job[tx[p].type] # NoJob /\ job[tx[p].type].by = p,
             pc \in {"reported", "advanced", "looked"} => tx[p].type = "inspect",
             pc = "locked" => tx[p].type = "agent_decide",
             pc = "looked" => job["agent_decide"] = NoJob \/ lock'[JobOf("agent_decide")] = p
      PROVE  IInv'
  <2>1. PICK h : h = [tx[p] EXCEPT !.pc = pc]
    OBVIOUS
  <2>2. h \in Working /\ h.pc = pc /\ h.type = tx[p].type /\ h.cv = tx[p].cv /\ h.asset = tx[p].asset
    <3>1. pc \in {"working", "own", "void", "reported", "advanced", "looked", "locked"}
      OBVIOUS
    <3>2. tx[p] \in Working
      BY <1>4
    <3> QED
      BY ONLY <2>1, <3>1, <3>2, WorkGoesOn
  <2>3. Goes(p, h)
    BY <1>5, <2>1
  <2>4. tx'[p] = h
    BY <1>1, <2>3, Going, Processes
  <2>5. Held(p)'
    BY <1>2, <1>5, <2>2, <2>4 DEF Held, Reads
  <2>6. OwnJob(p)'
    <3>1. OwnJob(p)!1'
      BY <1>2, <1>3, <1>4, <2>2, <2>4 DEF OwnJob, Reads
    <3>2. OwnJob(p)!2'
      BY <1>2, <1>5, <2>2, <2>4 DEF OwnJob, Reads
    <3>3. OwnJob(p)!3' /\ OwnJob(p)!4' /\ OwnJob(p)!5'
      BY <1>2, <1>5, <2>2, <2>4 DEF OwnJob, Reads
    <3> QED
      BY <3>1, <3>2, <3>3 DEF OwnJob
  <2> QED
    BY <1>1, <1>2, <1>5, <2>2, <2>3, <2>5, <2>6, WorkerReadsOn
<1>6. CASE Refused(p)
  <2>1. Locks(p)
    BY <1>1, <1>6, LettingGo, Processes DEF Refused
  <2> QED
    BY <1>5, <1>6, <2>1 DEF Refused
<1>7. CASE TakeOwnJob(p) /\ ~Refused(p)
  <2>1. /\ tx[p].pc = "working" /\ WaitsFor(p) = {} /\ Takes(p, Needs(p))
        /\ OwnJobHeld(p) /\ Goes(p, [tx[p] EXCEPT !.pc = "own"])
    BY <1>7 DEF TakeOwnJob, Runs, At
  <2>2. Locks(p) /\ lock'[JobOf(tx[p].type)] = p
    BY <1>1, <1>4, <2>1, Taking, NeedsAre, RowsThere, Processes DEF At
  <2> QED
    BY <1>5, <2>1, <2>2 DEF OwnJobHeld
<1>8. CASE InsertFindings(p)
  <2>1. /\ tx[p].pc = "own" /\ tx[p].type = "inspect" /\ lock' = lock
        /\ Goes(p, [tx[p] EXCEPT !.pc = "reported"])
    BY <1>8 DEF InsertFindings, Runs, At
  <2> QED
    BY <1>1, <1>3, <1>5, <2>1, KeepingRows, Processes DEF OwnJob
<1>9. CASE AdvanceOrder(p) /\ ~Refused(p)
  <2>1. /\ tx[p].pc = "reported" /\ WaitsFor(p) = {} /\ Takes(p, Needs(p)) /\ order.cv = tx[p].cv
        /\ Goes(p, [tx[p] EXCEPT !.pc = "advanced"])
    BY <1>9 DEF AdvanceOrder, Runs, At
  <2>2. /\ lock[JobOf(tx[p].type)] = p /\ job[tx[p].type] # NoJob /\ job[tx[p].type].by = p
        /\ tx[p].type = "inspect"
    BY <1>3, <2>1 DEF OwnJob
  <2>3. Locks(p) /\ lock'[TheOrder] = p /\ lock'[JobOf(tx[p].type)] = p
    BY <1>1, <1>4, <2>1, <2>2, Taking, NeedsAre, RowsThere, Processes DEF At
  <2> QED
    BY <1>5, <2>1, <2>2, <2>3
<1>10. CASE LookForDecision(p)
  <2>1. /\ tx[p].pc = "advanced" /\ WaitsFor(p) = {} /\ Takes(p, Needs(p))
        /\ Goes(p, [tx[p] EXCEPT !.pc = "looked"])
    BY <1>10 DEF LookForDecision, Runs, At
  <2>2. /\ lock[JobOf(tx[p].type)] = p /\ job[tx[p].type] # NoJob /\ job[tx[p].type].by = p
        /\ tx[p].type = "inspect" /\ lock[TheOrder] = p /\ tx[p].cv = order.cv
    BY <1>3, <2>1 DEF OwnJob, Held
  <2>3. Locks(p) /\ lock'[TheOrder] = p /\ lock'[JobOf(tx[p].type)] = p
    BY <1>1, <1>4, <2>1, <2>2, Taking, RowsThere, Processes
  <2>4. job["agent_decide"] = NoJob \/ lock'[JobOf("agent_decide")] = p
    <3>1. "agent_decide" \in JobType
      BY DEF JobType, Atomic!JobType
    <3> QED
      BY <1>1, <2>1, <3>1, Taking, NeedsAre, RowsThere, Processes DEF At
  <2> QED
    BY <1>5, <2>1, <2>2, <2>3, <2>4
<1>11. CASE SelectOrder(p) /\ ~Refused(p)
  <2>1. /\ tx[p].pc = "own" /\ tx[p].type = "agent_decide" /\ WaitsFor(p) = {}
        /\ Takes(p, Needs(p)) /\ order.cv = tx[p].cv
        /\ Goes(p, [tx[p] EXCEPT !.pc = "locked"])
    BY <1>11 DEF SelectOrder, Runs, At
  <2>2. lock[JobOf(tx[p].type)] = p /\ job[tx[p].type] # NoJob /\ job[tx[p].type].by = p
    BY <1>3, <2>1 DEF OwnJob
  <2>3. Locks(p) /\ lock'[TheOrder] = p /\ lock'[JobOf(tx[p].type)] = p
    BY <1>1, <1>4, <2>1, <2>2, Taking, NeedsAre, RowsThere, Processes DEF At
  <2> QED
    BY <1>5, <2>1, <2>2, <2>3
<1> QED
  BY <1>6, <1>7, <1>8, <1>9, <1>10, <1>11
-----------------------------------------------------------------------------
(* What the transactions write is well formed. *)

LEMMA UploadedRow ==
  ASSUME NEW o \in OrderRow, NEW a \in AssetId, NEW prior \in BOOLEAN
  PROVE  LET n == Atomic!Uploaded(o, a, prior)
         IN  n \in OrderRow /\ n.cv = o.cv + 1 /\ n.cur = a
<1>1. PICK v \in Nat \ {0} : v = o.cv + 1
  BY DEF OrderRow
<1>2. PICK w \in Nat \ {0} : w = (IF prior THEN o.av + 1 ELSE o.av)
  BY DEF OrderRow
<1> QED
  BY <1>1, <1>2 DEF OrderRow, Asset, Atomic!Uploaded

LEMMA ReopenedRow ==
  ASSUME NEW o \in OrderRow
  PROVE  LET n == Atomic!Reopened(o)
         IN  n \in OrderRow /\ n.cv = o.cv + 1 /\ n.cur = o.cur
<1>1. PICK v \in Nat \ {0} : v = o.cv + 1
  BY DEF OrderRow
<1> QED
  BY <1>1 DEF OrderRow, Atomic!Reopened

LEMMA MovedRow ==
  ASSUME NEW o \in OrderRow, NEW s \in {"BLOCKED", "NEEDS_REVIEW", "AWAITING_CLARIFICATION"}
  PROVE  LET n == Atomic!Moved(o, s)
         IN  n \in OrderRow /\ n.cv = o.cv + 1 /\ n.cur = o.cur
<1>1. PICK v \in Nat \ {0} : v = o.cv + 1
  BY DEF OrderRow
<1> QED
  BY <1>1 DEF OrderRow, Atomic!Moved

LEMMA NewJobRow ==
  ASSUME NEW a \in Asset, NEW v \in Nat
  PROVE  LET j == Atomic!NewJob(a, v)
         IN  j \in JobRow /\ j # NoJob /\ j.by = NoOne /\ j.cv = v /\ j.asset = a
  BY DEF JobRow, Atomic!NewJob, NoJob, Atomic!NoJob

LEMMA InvalidatedRows ==
  ASSUME NEW qs \in Seq(QuestionRow)
  PROVE  LET n == Atomic!Invalidated(qs)
         IN  /\ n \in Seq(QuestionRow) /\ DOMAIN n = DOMAIN qs
             /\ \A i \in DOMAIN qs : n[i].state # "open" /\ (n[i].state = "answered" => n[i] = qs[i])
<1>1. PICK k \in Nat : qs \in [1 .. k -> QuestionRow]
  BY SeqDef
<1>2. \A i \in 1 .. k : qs[i] \in QuestionRow
  BY <1>1
<1>3. \A r \in QuestionRow : /\ [r EXCEPT !.state = "invalidated"] \in QuestionRow
                             /\ [r EXCEPT !.state = "invalidated"].state = "invalidated"
  BY DEF QuestionRow
<1>4. Atomic!Invalidated(qs) = [i \in 1 .. k |-> IF qs[i].state = "open"
                                 THEN [qs[i] EXCEPT !.state = "invalidated"] ELSE qs[i]]
  BY <1>1 DEF Atomic!Invalidated
<1>5. Atomic!Invalidated(qs) \in [1 .. k -> QuestionRow]
  BY <1>2, <1>3, <1>4
<1>6. \A i \in 1 .. k : /\ Atomic!Invalidated(qs)[i].state # "open"
                        /\ Atomic!Invalidated(qs)[i].state = "answered" => Atomic!Invalidated(qs)[i] = qs[i]
  BY <1>2, <1>3, <1>4
<1> QED
  BY <1>1, <1>5, <1>6, SeqDef

LEMMA AnsweredRows ==
  ASSUME NEW qs \in Seq(QuestionRow), NEW q \in DOMAIN qs
  PROVE  LET n == Atomic!Answered(qs, q)
         IN  /\ n \in Seq(QuestionRow) /\ DOMAIN n = DOMAIN qs /\ n[q].state = "answered"
             /\ \A i \in DOMAIN qs : i # q => n[i] = qs[i]
<1>1. PICK k \in Nat : qs \in [1 .. k -> QuestionRow]
  BY SeqDef
<1>2. PICK r : r = [qs[q] EXCEPT !.state = "answered"]
  OBVIOUS
<1>3. r \in QuestionRow /\ r.state = "answered"
  BY <1>1, <1>2 DEF QuestionRow
<1>4. Atomic!Answered(qs, q) = [qs EXCEPT ![q] = r]
  BY <1>2 DEF Atomic!Answered
<1>5. Atomic!Answered(qs, q) \in [1 .. k -> QuestionRow]
  BY <1>1, <1>3, <1>4
<1> QED
  BY <1>1, <1>3, <1>4, <1>5, SeqDef

LEMMA AskedRows ==
  ASSUME NEW qs \in Seq(QuestionRow), NEW o \in OrderRow
  PROVE  LET n == Atomic!Asked(qs, o)
         IN  /\ n \in Seq(QuestionRow)
             /\ \A i \in DOMAIN n : n[i].about = o.cur \/ (i \in DOMAIN qs /\ n[i] = qs[i])
             /\ \A i \in DOMAIN qs : i \in DOMAIN n /\ n[i] = qs[i]
<1>1. PICK r : r = [state |-> "open", av |-> o.av, about |-> o.cur]
  OBVIOUS
<1>2. r \in QuestionRow /\ r.about = o.cur
  BY <1>1 DEF QuestionRow, OrderRow
<1>3. PICK n : n = Append(qs, r)
  OBVIOUS
<1>4. Atomic!Asked(qs, o) = n
  BY <1>1, <1>3 DEF Atomic!Asked
<1>5. /\ n \in Seq(QuestionRow) /\ DOMAIN n = 1 .. (Len(qs) + 1) /\ n[Len(qs) + 1] = r
      /\ DOMAIN qs = 1 .. Len(qs) /\ Len(qs) \in Nat /\ \A i \in 1 .. Len(qs) : n[i] = qs[i]
  BY <1>2, <1>3
<1>6. \A i \in DOMAIN n : i \in DOMAIN qs \/ i = Len(qs) + 1
  BY <1>5
<1> QED
  BY <1>2, <1>4, <1>5, <1>6
-----------------------------------------------------------------------------
(* A transaction that commits. *)

LEMMA CommitKeeps ==
  ASSUME IInv, NEW p \in Process, Ends(p), UNCHANGED <<requests, faults>>,
         order' \in OrderRow, question' \in Seq(QuestionRow),
         job' \in [JobType -> JobRow \cup {NoJob}],
         OrderMoves(p), JobMoves(p),
         \/ original' = original
         \/ /\ p \in Customer /\ tx[p].pc \in UploadPc
            /\ original' = original \cup {tx[p].id},
         order'.cur # None => order'.cur \in original',
         OpenIsCurrent'
  PROVE  IInv'
<1>1. Typed /\ Ids
  BY DEF IInv
<1>2. Locks(p) /\ Goes(p, Idle)
  BY <1>1, LettingGo DEF Ends
<1>3. tx' = [tx EXCEPT ![p] = Idle] /\ tx'[p] = Idle /\ \A q \in Process \ {p} : tx'[q] = tx[q]
  BY <1>1, <1>2, Going
<1>4. p \in Customer /\ tx[p].pc \in UploadPc => tx[p].id \in AssetId
  BY <1>1, CustomerHands DEF UploadPc, Counting, Uploading
<1>5. Typed'
  <2>1. tx' \in [Process -> CustomerHand \cup WorkerHand]
    BY <1>1, <1>3, IdleHands DEF Typed
  <2>2. (\A q \in Customer : tx'[q] \in CustomerHand) /\ (\A q \in Worker : tx'[q] \in WorkerHand)
    BY <1>1, <1>3, IdleHands, Processes DEF Typed
  <2>3. original' \in SUBSET AssetId
    BY <1>1, <1>4 DEF Typed
  <2> QED
    BY <1>1, <1>2, <2>1, <2>2, <2>3 DEF Typed, Locks
<1>6. Ids'
  <2>1. \A q \in Customer : tx'[q].pc \in UploadPc => q # p /\ tx'[q] = tx[q]
    BY <1>3, IdleHands, Processes DEF UploadPc
  <2>2. (\A a \in original : a <= requests)'
    BY <1>1 DEF Ids
  <2>3. (\A q \in Customer : tx[q].pc \in UploadPc => tx[q].id \notin original /\ tx[q].id <= requests)'
    BY <1>1, <2>1 DEF Ids
  <2>4. (\A q, r \in Customer :
          tx[q].pc \in UploadPc /\ tx[r].pc \in UploadPc /\ tx[q].id = tx[r].id => q = r)'
    BY <1>1, <2>1 DEF Ids
  <2> QED
    BY <2>2, <2>3, <2>4 DEF Ids
<1>7. Frame(p)
  BY <1>2, <1>3 DEF Frame
<1>8. CustomerKnows(p)' /\ Held(p)' /\ OwnJob(p)'
  BY <1>3, AtRest
<1> QED
  BY <1>5, <1>6, <1>7, <1>8, OthersKeep DEF IInv
-----------------------------------------------------------------------------
(* Each transaction commits what the atomic one writes, with the guards of *)
(* the atomic one true at that moment.                                     *)

AtomicStep == [Atomic!Next]_(Atomic!vars)

LEMMA SameIsAtomic ==
  ASSUME Reads
  PROVE  AtomicStep
  BY DEF Reads, AtomicStep, Atomic!vars

LEMMA UploadCommits ==
  ASSUME IInv, NEW p \in Process, InvalidateAndCommit(p)
  PROVE  IInv' /\ AtomicStep
<1>1. Typed /\ Ids /\ p \in Customer /\ tx[p].pc = "reopened"
  BY WhoIsThere DEF IInv, InvalidateAndCommit, Runs, At
<1>2. CustomerKnows(p) /\ Held(p)
  BY <1>1, Processes DEF IInv
<1>3. /\ order' = Atomic!Uploaded(order, tx[p].id, tx[p].prior)
      /\ question' = Atomic!Invalidated(question)
      /\ original' = original \cup {tx[p].id} /\ Ends(p)
      /\ UNCHANGED <<job, requests, faults>>
  BY DEF InvalidateAndCommit
<1>4. tx[p].id \in AssetId /\ tx[p].prior \in BOOLEAN /\ tx[p].pc \in UploadPc
  BY <1>1, CustomerHands DEF Uploading, UploadPc
<1>5. order' \in OrderRow /\ order'.cv = order.cv + 1 /\ order'.cur = tx[p].id
  BY <1>1, <1>3, <1>4, UploadedRow DEF Typed
<1>6. /\ question' \in Seq(QuestionRow)
      /\ \A i \in DOMAIN question' : question'[i].state # "open"
  BY <1>1, <1>3, InvalidatedRows DEF Typed
<1>7. OrderMoves(p) /\ JobMoves(p)
  BY <1>1, <1>2, <1>3, <1>5 DEF OrderMoves, JobMoves, Held
<1>8. OpenIsCurrent'
  BY <1>6 DEF OpenIsCurrent
<1>9. IInv'
  BY <1>1, <1>3, <1>4, <1>5, <1>6, <1>7, <1>8, CommitKeeps DEF Typed
<1>10. Atomic!Upload(tx[p].id, tx[p].prior)
  BY <1>1, <1>2, <1>3, <1>4 DEF Atomic!Upload, Ids, CustomerKnows
<1> QED
  BY <1>4, <1>9, <1>10 DEF AtomicStep, Atomic!Next

LEMMA TrimCommits ==
  ASSUME IInv, NEW p \in Process, ConfirmTrim(p)
  PROVE  IInv' /\ AtomicStep
<1>1. Typed /\ Ids /\ OpenIsCurrent /\ tx[p].pc = "trim" /\ WaitsFor(p) = {}
  BY DEF IInv, ConfirmTrim, Runs, At
<1>2. Ends(p) /\ UNCHANGED <<original, question, job, requests, faults>>
  BY DEF ConfirmTrim
<1>3. CASE order.cv = tx[p].cv
  <2>1. order' = Atomic!Reopened(order)
    BY <1>3 DEF ConfirmTrim
  <2>2. order' \in OrderRow /\ order'.cv = order.cv + 1 /\ order'.cur = order.cur
    BY <1>1, <2>1, ReopenedRow DEF Typed
  <2>3. lock[TheOrder] \in {NoOne, p}
    BY <1>1, <1>3, NeedsAre DEF At, WaitsFor
  <2>4. OrderMoves(p) /\ JobMoves(p)
    BY <1>2, <2>2, <2>3 DEF OrderMoves, JobMoves
  <2>5. OpenIsCurrent'
    BY <1>1, <1>2, <2>2 DEF OpenIsCurrent
  <2>6. IInv'
    BY <1>1, <1>2, <2>2, <2>4, <2>5, CommitKeeps DEF Typed, Ids
  <2>7. Atomic!ConfirmTrim
    BY <1>2, <2>1 DEF Atomic!ConfirmTrim
  <2> QED
    BY <2>6, <2>7 DEF AtomicStep, Atomic!Next
<1>4. CASE order.cv # tx[p].cv
  <2>1. Reads /\ faults' \in Nat
    BY <1>1, <1>2, <1>4 DEF ConfirmTrim, Reads, Typed
  <2> QED
    BY <1>2, <2>1, GivingUpKeeps, SameIsAtomic
<1> QED
  BY <1>3, <1>4

LEMMA AnswerCommits ==
  ASSUME IInv, NEW p \in Process, InsertAndCommit(p)
  PROVE  /\ IInv' /\ AtomicStep
         /\ \/ Reads
            \/ /\ OpenIsCurrent /\ question' = Atomic!Answered(question, tx[p].question)
               /\ Atomic!Answerable(question, tx[p].question, order.av)
<1>1. Typed /\ Ids /\ OpenIsCurrent /\ tx[p].pc = "looked" /\ WaitsFor(p) = {} /\ p \in Customer
  BY DEF IInv, InsertAndCommit, Runs, At
<1>2. CustomerKnows(p) /\ Held(p)
  BY <1>1, Processes DEF IInv
<1>3. Ends(p)
  BY DEF InsertAndCommit
<1>4. CASE job["inspect"] # NoJob /\ lock[JobOf("inspect")] # p
  <2>1. Reads /\ UNCHANGED requests /\ faults' \in Nat
    BY <1>1, <1>4 DEF InsertAndCommit, Unchanged, Reads, Typed
  <2> QED
    BY <1>3, <2>1, GivingUpKeeps, SameIsAtomic
<1>5. CASE job["inspect"] = NoJob \/ lock[JobOf("inspect")] = p
  <2>1. /\ question' = Atomic!Answered(question, tx[p].question)
        /\ order' = Atomic!Reopened(order)
        /\ job' = [job EXCEPT !["inspect"] = Atomic!NewJob(order.cur, order.cv + 1)]
        /\ UNCHANGED <<original, requests, faults>>
    BY <1>5 DEF InsertAndCommit
  <2>2. order' \in OrderRow /\ order'.cv = order.cv + 1 /\ order'.cur = order.cur
    BY <1>1, <2>1, ReopenedRow DEF Typed
  <2>3. lock[TheOrder] = p /\ Atomic!Answerable(question, tx[p].question, order.av)
    BY <1>1, <1>2 DEF Held, CustomerKnows, AnswerPc
  <2>4. tx[p].question \in DOMAIN question /\ question[tx[p].question].state = "open"
    BY <2>3 DEF Atomic!Answerable
  <2>5. /\ question' \in Seq(QuestionRow) /\ DOMAIN question' = DOMAIN question
        /\ question'[tx[p].question].state = "answered"
        /\ \A i \in DOMAIN question : i # tx[p].question => question'[i] = question[i]
    BY <1>1, <2>1, <2>4, AnsweredRows DEF Typed
  <2>6. PICK j : j = Atomic!NewJob(order.cur, order.cv + 1)
    OBVIOUS
  <2>7. j \in JobRow /\ j.by = NoOne
    BY <1>1, <2>6, NewJobRow DEF Typed, OrderRow
  <2>8. /\ job' \in [JobType -> JobRow \cup {NoJob}] /\ job'["agent_decide"] = job["agent_decide"]
        /\ job'["inspect"] = j /\ \A t \in JobType : t # "inspect" => job'[t] = job[t]
    BY <1>1, <2>1, <2>6, <2>7 DEF Typed, JobType, Atomic!JobType
  <2>9. OrderMoves(p)
    BY <2>2, <2>3 DEF OrderMoves
  <2>10. JobMoves(p)
    BY <1>5, <2>7, <2>8 DEF JobMoves
  <2>11. OpenIsCurrent'
    BY <1>1, <2>2, <2>5 DEF OpenIsCurrent
  <2>12. IInv'
    BY <1>1, <1>3, <2>1, <2>2, <2>5, <2>8, <2>9, <2>10, <2>11, CommitKeeps DEF Ids
  <2>13. Atomic!Answer(tx[p].question)
    BY <2>1, <2>3 DEF Atomic!Answer
  <2> QED
    BY <1>1, <2>1, <2>3, <2>4, <2>12, <2>13 DEF AtomicStep, Atomic!Next
<1> QED
  BY <1>4, <1>5

LEMMA StartCommits ==
  ASSUME IInv, NEW p \in Process, CreateJob(p)
  PROVE  IInv' /\ AtomicStep
<1>1. Typed /\ Ids /\ OpenIsCurrent /\ tx[p].pc = "read" /\ p \in Customer
  BY WhoIsThere DEF IInv, CreateJob, Runs, At
<1>2. Ends(p) /\ UNCHANGED <<order, original, question, requests, faults>>
  BY DEF CreateJob
<1>3. tx[p].asset \in original /\ tx[p].cv \in 1 .. order.cv /\ tx[p].asset \in Asset
  BY <1>1, CustomerHands DEF IInv, CustomerKnows, Starting
<1>4. CASE job["inspect"] = NoJob
  <2>1. PICK j : j = Atomic!NewJob(tx[p].asset, tx[p].cv)
    OBVIOUS
  <2>2. job' = [job EXCEPT !["inspect"] = j]
    BY <1>4, <2>1 DEF CreateJob
  <2>3. j \in JobRow /\ j.by = NoOne
    BY <1>1, <1>3, <2>1, NewJobRow DEF Typed, OrderRow
  <2>4. /\ job' \in [JobType -> JobRow \cup {NoJob}] /\ job'["agent_decide"] = job["agent_decide"]
        /\ job'["inspect"] = j /\ \A t \in JobType : t # "inspect" => job'[t] = job[t]
    BY <1>1, <2>2, <2>3 DEF Typed, JobType, Atomic!JobType
  <2>5. OrderMoves(p) /\ JobMoves(p)
    BY <1>2, <1>4, <2>3, <2>4 DEF OrderMoves, JobMoves
  <2>6. OpenIsCurrent'
    BY <1>1, <1>2 DEF OpenIsCurrent
  <2>7. IInv'
    BY <1>1, <1>2, <2>4, <2>5, <2>6, CommitKeeps DEF Typed, Ids
  <2>8. tx[p].cv <= order.cv
    BY <1>3
  <2>9. Atomic!Start(tx[p].asset, tx[p].cv)
    BY <1>2, <1>3, <1>4, <2>1, <2>2, <2>8 DEF Atomic!Start, NoJob
  <2> QED
    BY <1>3, <2>7, <2>9 DEF AtomicStep, Atomic!Next
<1>5. CASE job["inspect"] # NoJob
  <2>1. Reads /\ faults' \in Nat
    BY <1>1, <1>2, <1>5 DEF CreateJob, Reads, Typed
  <2> QED
    BY <1>2, <2>1, GivingUpKeeps, SameIsAtomic
<1> QED
  BY <1>4, <1>5

(* What a worker knows when it commits. *)
LEMMA WorkerKnows ==
  ASSUME IInv, NEW p \in Process, tx[p].pc \in {"looked", "locked"}, p \in Worker
  PROVE  /\ lock[TheOrder] = p /\ job[tx[p].type].cv = order.cv
         /\ lock[JobOf(tx[p].type)] = p /\ job[tx[p].type] # NoJob /\ job[tx[p].type].by = p
         /\ job[tx[p].type].asset = tx[p].asset /\ tx[p].cv = order.cv
         /\ tx[p].asset \in Asset /\ tx[p].type \in JobType
         /\ tx[p].pc = "looked" => tx[p].type = "inspect"
         /\ tx[p].pc = "locked" => tx[p].type = "agent_decide"
<1>1. Typed /\ OwnJob(p) /\ Held(p)
  BY DEF IInv
<1>2. tx[p] # Idle
  BY DEF Idle
<1>3. tx[p] \in Working
  BY <1>1, <1>2, WorkerHands
<1>4. tx[p].asset \in Asset /\ tx[p].type \in JobType
  BY <1>3 DEF Working
<1> QED
  BY <1>1, <1>2, <1>4 DEF OwnJob, Held

LEMMA InspectionCommits ==
  ASSUME IInv, NEW p \in Process, CommitInspection(p)
  PROVE  IInv' /\ AtomicStep
<1>1. Typed /\ Ids /\ OpenIsCurrent /\ tx[p].pc = "looked" /\ p \in Worker /\ OwnJob(p)
  BY DEF IInv, CommitInspection, At
<1>2. PICK j : j = Atomic!NewJob(tx[p].asset, tx[p].cv + 1)
  OBVIOUS
<1>3. /\ order' = Atomic!Moved(order, "NEEDS_REVIEW")
      /\ job' = [inspect |-> NoJob, agent_decide |-> j]
      /\ Ends(p) /\ UNCHANGED <<original, question, requests, faults>>
  BY <1>2 DEF CommitInspection
<1>4. /\ lock[TheOrder] = p /\ tx[p].type = "inspect" /\ lock[JobOf("inspect")] = p
      /\ job["inspect"] # NoJob /\ job["inspect"].by = p /\ job["inspect"].cv = order.cv
      /\ job["inspect"].asset = tx[p].asset /\ tx[p].cv = order.cv /\ tx[p].asset \in Asset
  BY <1>1, WorkerKnows
<1>5. order' \in OrderRow /\ order'.cv = order.cv + 1 /\ order'.cur = order.cur
  BY <1>1, <1>3, MovedRow DEF Typed
<1>6. j \in JobRow /\ j.by = NoOne
  <2>1. tx[p].cv + 1 \in Nat
    BY <1>1, <1>4 DEF Typed, OrderRow
  <2> QED
    BY <1>2, <1>4, <2>1, NewJobRow
<1>7. /\ job' \in [JobType -> JobRow \cup {NoJob}]
      /\ job'["inspect"] = NoJob /\ job'["agent_decide"] = j
  BY <1>3, <1>6 DEF JobType, Atomic!JobType
<1>8. OrderMoves(p)
  BY <1>4, <1>5 DEF OrderMoves
<1>9. JobMoves(p)
  <2>1. job["agent_decide"] = NoJob \/ lock[JobOf("agent_decide")] = p
    BY <1>1 DEF OwnJob
  <2>2. \A t \in JobType : t = "inspect" \/ t = "agent_decide"
    BY DEF JobType, Atomic!JobType
  <2> QED
    BY <1>4, <1>6, <1>7, <2>1, <2>2 DEF JobMoves
<1>10. OpenIsCurrent'
  BY <1>1, <1>3, <1>5 DEF OpenIsCurrent
<1>11. IInv'
  BY <1>1, <1>3, <1>5, <1>7, <1>8, <1>9, <1>10, CommitKeeps DEF Typed, Ids
<1>12. Atomic!Inspect(p)
  BY <1>2, <1>3, <1>4 DEF Atomic!Inspect, Atomic!Completes, NoJob
<1> QED
  BY <1>11, <1>12 DEF AtomicStep, Atomic!Next

(* The two decisions take their job from the table. *)
LEMMA DecisionTaken ==
  ASSUME IInv, NEW p \in Process, tx[p].pc = "locked", p \in Worker, 
         job' = [job EXCEPT !["agent_decide"] = NoJob]
  PROVE  /\ job' \in [JobType -> JobRow \cup {NoJob}]
         /\ JobMoves(p) /\ lock[TheOrder] = p
         /\ Atomic!Completes(p, "agent_decide")
<1>1. Typed
  BY DEF IInv
<1>2. /\ lock[TheOrder] = p /\ lock[JobOf("agent_decide")] = p
      /\ job["agent_decide"] # NoJob /\ job["agent_decide"].by = p /\ job["agent_decide"].cv = order.cv
  BY WorkerKnows
<1>3. /\ job' \in [JobType -> JobRow \cup {NoJob}] /\ job'["agent_decide"] = NoJob
      /\ \A t \in JobType : t # "agent_decide" => job'[t] = job[t]
  BY <1>1 DEF Typed, JobType, Atomic!JobType
<1> QED
  BY <1>2, <1>3 DEF JobMoves, Atomic!Completes, NoJob

LEMMA AskCommits ==
  ASSUME IInv, NEW p \in Process, AskAndCommit(p)
  PROVE  /\ IInv' /\ AtomicStep
         /\ \A q \in DOMAIN question : question'[q] = question[q]
<1>1. Typed /\ Ids /\ OpenIsCurrent /\ tx[p].pc = "locked" /\ p \in Worker
  <2>1. Typed /\ Ids /\ OpenIsCurrent /\ tx[p].pc = "locked"
    BY DEF IInv, AskAndCommit, At
  <2> QED
    BY <2>1, WhoIsThere
<1>2. /\ order' = Atomic!Moved(order, "AWAITING_CLARIFICATION")
      /\ question' = Atomic!Asked(question, order) /\ order.trim = "unknown"
      /\ job' = [job EXCEPT !["agent_decide"] = NoJob]
      /\ Ends(p) /\ UNCHANGED <<original, requests, faults>>
  BY DEF AskAndCommit
<1>3. /\ job' \in [JobType -> JobRow \cup {NoJob}]
      /\ JobMoves(p) /\ lock[TheOrder] = p /\ Atomic!Completes(p, "agent_decide")
  BY <1>1, <1>2, DecisionTaken
<1>4. order' \in OrderRow /\ order'.cv = order.cv + 1 /\ order'.cur = order.cur
  BY <1>1, <1>2, MovedRow DEF Typed
<1>5. /\ question' \in Seq(QuestionRow)
      /\ \A i \in DOMAIN question' : \/ question'[i].about = order.cur
                                     \/ i \in DOMAIN question /\ question'[i] = question[i]
      /\ \A i \in DOMAIN question : question'[i] = question[i]
  BY <1>1, <1>2, AskedRows DEF Typed
<1>6. OrderMoves(p)
  BY <1>3, <1>4 DEF OrderMoves
<1>7. OpenIsCurrent'
  BY <1>1, <1>4, <1>5 DEF OpenIsCurrent
<1>8. IInv'
  BY <1>1, <1>2, <1>3, <1>4, <1>5, <1>6, <1>7, CommitKeeps DEF Ids
<1>9. Atomic!Ask(p)
  BY <1>2, <1>3 DEF Atomic!Ask, NoJob
<1> QED
  BY <1>5, <1>8, <1>9 DEF AtomicStep, Atomic!Next

LEMMA EscalateCommits ==
  ASSUME IInv, NEW p \in Process, EscalateAndCommit(p)
  PROVE  IInv' /\ AtomicStep
<1>1. Typed /\ Ids /\ OpenIsCurrent /\ tx[p].pc = "locked" /\ p \in Worker
  <2>1. Typed /\ Ids /\ OpenIsCurrent /\ tx[p].pc = "locked"
    BY DEF IInv, EscalateAndCommit, At
  <2> QED
    BY <2>1, WhoIsThere
<1>2. /\ order' = Atomic!Moved(order, "NEEDS_REVIEW")
      /\ job' = [job EXCEPT !["agent_decide"] = NoJob]
      /\ Ends(p) /\ UNCHANGED <<original, question, requests, faults>>
  BY DEF EscalateAndCommit
<1>3. /\ job' \in [JobType -> JobRow \cup {NoJob}]
      /\ JobMoves(p) /\ lock[TheOrder] = p /\ Atomic!Completes(p, "agent_decide")
  BY <1>1, <1>2, DecisionTaken
<1>4. order' \in OrderRow /\ order'.cv = order.cv + 1 /\ order'.cur = order.cur
  BY <1>1, <1>2, MovedRow DEF Typed
<1>5. OrderMoves(p)
  BY <1>3, <1>4 DEF OrderMoves
<1>6. OpenIsCurrent'
  BY <1>1, <1>2, <1>4 DEF OpenIsCurrent
<1>7. IInv'
  BY <1>1, <1>2, <1>3, <1>4, <1>5, <1>6, CommitKeeps DEF Typed, Ids
<1>8. Atomic!Escalate(p)
  BY <1>2, <1>3 DEF Atomic!Escalate, NoJob
<1> QED
  BY <1>7, <1>8 DEF AtomicStep, Atomic!Next

LEMMA FailureCommits ==
  ASSUME IInv, NEW p \in Process, FailJob(p)
  PROVE  IInv' /\ AtomicStep
<1>1. Typed /\ Ids /\ OpenIsCurrent /\ tx[p].pc = "void" /\ p \in Worker /\ WaitsFor(p) = {}
  <2>1. Typed /\ Ids /\ OpenIsCurrent /\ tx[p].pc = "void" /\ WaitsFor(p) = {}
    BY DEF IInv, FailJob, Runs, At
  <2> QED
    BY <2>1, WhoIsThere
<1>2. Ends(p) /\ UNCHANGED <<order, original, question, requests, faults>>
  BY DEF FailJob
<1>3. CASE OwnJobHeld(p)
  <2>1. tx[p].type \in JobType
    BY <1>1, WorkerHands
  <2>2. job' = [job EXCEPT ![tx[p].type] = NoJob]
    BY <1>3 DEF FailJob
  <2>3. /\ job' \in [JobType -> JobRow \cup {NoJob}] /\ job'[tx[p].type] = NoJob
        /\ \A t \in JobType : t # tx[p].type => job'[t] = job[t]
    BY <1>1, <2>1, <2>2 DEF Typed
  <2>4. lock[JobOf(tx[p].type)] \in {NoOne, p}
    BY <1>1, NeedsAre DEF At, WaitsFor
  <2>5. "agent_decide" \in JobType
    BY DEF JobType, Atomic!JobType
  <2>6. OrderMoves(p) /\ JobMoves(p)
    BY <1>2, <2>1, <2>3, <2>4, <2>5 DEF OrderMoves, JobMoves
  <2>7. OpenIsCurrent'
    BY <1>1, <1>2 DEF OpenIsCurrent
  <2>8. IInv'
    BY <1>1, <1>2, <2>3, <2>6, <2>7, CommitKeeps DEF Typed, Ids
  <2>9. Atomic!Fail(p, tx[p].type)
    BY <1>2, <1>3, <2>2 DEF Atomic!Fail, OwnJobHeld, NoJob
  <2> QED
    BY <2>1, <2>8, <2>9 DEF AtomicStep, Atomic!Next, JobType
<1>4. CASE ~OwnJobHeld(p)
  <2>1. Reads /\ faults' \in Nat
    BY <1>1, <1>2, <1>4 DEF FailJob, Reads, Typed
  <2> QED
    BY <1>2, <2>1, GivingUpKeeps, SameIsAtomic
<1> QED
  BY <1>3, <1>4

LEMMA ClaimKeeps ==
  ASSUME IInv, NEW p \in Worker, NEW t \in JobType, Claim(p, t)
  PROVE  IInv' /\ AtomicStep
<1>1. Typed /\ Ids /\ OpenIsCurrent /\ p \in Process
  BY Processes DEF IInv
<1>2. PICK h : h = [pc |-> "working", type |-> t, cv |-> job[t].cv, asset |-> job[t].asset]
  OBVIOUS
<1>3. /\ job[t] # NoJob /\ lock[JobOf(t)] = NoOne /\ job' = [job EXCEPT ![t].by = p] /\ Goes(p, h)
      /\ UNCHANGED <<order, original, question, lock, requests>>
      /\ faults' = faults \/ faults' = faults + 1
  BY <1>2 DEF Claim
<1>4. PICK r : r = [job[t] EXCEPT !.by = p]
  OBVIOUS
<1>5. job[t] \in JobRow
  BY <1>1, <1>3 DEF Typed
<1>6. r \in JobRow /\ r.by = p /\ r.cv = job[t].cv /\ r.asset = job[t].asset
  BY <1>1, <1>4, <1>5 DEF JobRow
<1>7. /\ job' = [job EXCEPT ![t] = r] /\ job' \in [JobType -> JobRow \cup {NoJob}] /\ job'[t] = r
      /\ \A u \in JobType : u # t => job'[u] = job[u]
  BY <1>1, <1>3, <1>4, <1>6 DEF Typed
<1>8. h \in WorkerHand /\ h.pc = "working" /\ h.type = t /\ h.cv = r.cv /\ h.asset = r.asset
  BY <1>2, <1>5, <1>6 DEF WorkerHand, Working, JobRow
<1>9. tx' = [tx EXCEPT ![p] = h] /\ tx'[p] = h /\ \A q \in Process \ {p} : tx'[q] = tx[q]
  BY <1>1, <1>3, Going
<1>10. Typed'
  <2>1. tx' \in [Process -> CustomerHand \cup WorkerHand]
    BY <1>1, <1>8, <1>9 DEF Typed
  <2>2. (\A q \in Customer : tx'[q] \in CustomerHand) /\ (\A q \in Worker : tx'[q] \in WorkerHand)
    BY <1>1, <1>8, <1>9, Processes DEF Typed
  <2>3. faults' \in Nat
    BY <1>1, <1>3 DEF Typed
  <2> QED
    BY <1>1, <1>3, <1>7, <2>1, <2>2, <2>3 DEF Typed
<1>11. Ids' /\ OpenIsCurrent'
  <2>1. \A q \in Customer : tx'[q] = tx[q]
    BY <1>9, Processes
  <2> QED
    BY <1>1, <1>3, <2>1 DEF Ids, OpenIsCurrent
<1>12. Frame(p)
  <2>1. JobMoves(p)
    <3>1. "agent_decide" \in JobType /\ r # NoJob /\ job[t] # NoJob
      BY <1>3, <1>6 DEF JobType, Atomic!JobType, JobRow, NoJob, Atomic!NoJob
    <3> QED
      BY <1>3, <1>6, <1>7, <3>1 DEF JobMoves
  <2> QED
    BY <1>1, <1>3, <1>9, <2>1, KeepingRows DEF Frame, OrderMoves
<1>13. Held(p)' /\ OwnJob(p)'
  BY <1>6, <1>7, <1>8, <1>9 DEF Held, OwnJob
<1>14. IInv'
  BY <1>1, <1>10, <1>11, <1>12, <1>13, OthersKeep, Processes DEF IInv
<1>15. Atomic!Claim(p, t)
  BY <1>3 DEF Atomic!Claim, NoJob
<1> QED
  BY <1>1, <1>14, <1>15 DEF AtomicStep, Atomic!Next, JobType
-----------------------------------------------------------------------------
LEMMA StatementKeeps ==
  ASSUME IInv, NEW p \in Process, Statement(p)
  PROVE  IInv' /\ AtomicStep
<1>1. CASE CountOriginals(p) \/ InsertAsset(p) \/ ReopenOrder(p)
  BY <1>1, UploadReadsKeep, SameIsAtomic
     DEF CountOriginals, InsertAsset, ReopenOrder, Unchanged, Reads
<1>2. CASE ReadVersion(p) \/ AnswerQuestion(p) \/ ReopenForAnswer(p) \/ LookForInspection(p)
  BY <1>2, AnswerReadsKeep, SameIsAtomic
     DEF ReadVersion, AnswerQuestion, ReopenForAnswer, LookForInspection, Unchanged, Reads
<1>3. CASE TakeOwnJob(p) \/ InsertFindings(p) \/ AdvanceOrder(p) \/ LookForDecision(p) \/ SelectOrder(p)
  BY <1>3, WorkReadsKeep, SameIsAtomic
     DEF TakeOwnJob, InsertFindings, AdvanceOrder, LookForDecision, SelectOrder, Unchanged, Reads
<1> QED
  BY <1>1, <1>2, <1>3, UploadCommits, TrimCommits, AnswerCommits, StartCommits, InspectionCommits,
     AskCommits, EscalateCommits, FailureCommits DEF Statement

LEMMA StepKeeps ==
  ASSUME IInv, [Next]_vars
  PROVE  IInv' /\ AtomicStep
<1>1. ASSUME NEW p \in Process, Begin(p)
      PROVE  IInv' /\ AtomicStep
  <2>1. Reads
    BY <1>1 DEF Begin, BeginUpload, BeginTrim, BeginAnswer, ReadOrder, Reads
  <2> QED
    BY <1>1, <2>1, BeginKeeps, SameIsAtomic
<1>2. ASSUME NEW p \in Process, BreakDeadlock(p) \/ RollBack(p)
      PROVE  IInv' /\ AtomicStep
  <2>1. Reads /\ UNCHANGED requests /\ Ends(p)
    BY <1>2 DEF BreakDeadlock, RollBack, Unchanged, Reads
  <2>2. faults' \in Nat
    BY <1>2 DEF BreakDeadlock, RollBack, Unchanged, IInv, Typed
  <2> QED
    BY <2>1, <2>2, GivingUpKeeps, SameIsAtomic
<1>3. CASE UNCHANGED vars
  BY <1>3 DEF vars, IInv, Typed, Ids, OpenIsCurrent, CustomerKnows, Held, OwnJob, Atomic!Answerable,
              AtomicStep, Atomic!vars
<1> QED
  BY <1>1, <1>2, <1>3, StatementKeeps, ClaimKeeps DEF Next

LEMMA Starts ==
  ASSUME Init
  PROVE  IInv
<1>1. /\ order = [cv |-> 1, av |-> 1, cur |-> None, trim |-> "unknown", status |-> "BLOCKED"]
      /\ original = {} /\ question = <<>> /\ job = [t \in JobType |-> NoJob]
      /\ lock = [r \in Row |-> NoOne] /\ tx = [p \in Process |-> Idle]
      /\ requests = 0 /\ faults = 0
  BY DEF Init, Atomic!Init, None, NoJob, JobType
<1>2. order \in OrderRow /\ order.cur = None
  BY <1>1 DEF OrderRow, Asset
<1>3. Typed
  BY <1>1, <1>2, IdleHands, BoundAssumption, Processes DEF Typed
<1>4. Ids /\ OpenIsCurrent
  BY <1>1, <1>2, IdleHands, Processes DEF Ids, OpenIsCurrent, UploadPc
<1>5. \A p \in Process : tx[p] = Idle
  BY <1>1
<1>6. \A p \in Process : CustomerKnows(p) /\ Held(p) /\ OwnJob(p)
  BY <1>5 DEF CustomerKnows, Held, OwnJob, AnswerPc, Idle
<1> QED
  BY <1>3, <1>4, <1>6, Processes DEF IInv

(* Whatever is read in one statement and used in a later one, and whoever  *)
(* else is under way: each transaction of internal/store that commits does *)
(* what it would do alone, at the moment it commits, and one that does not *)
(* commit does nothing.  That is what the locks and case_version are for.  *)
THEOREM TransactionsAreAtomic == Spec => AtomicSpec
<1>1. Init => IInv /\ Atomic!Init
  BY Starts DEF Init
<1>2. IInv /\ [Next]_vars => IInv' /\ [Atomic!Next]_(Atomic!vars)
  BY StepKeeps DEF AtomicStep
<1> QED
  BY <1>1, <1>2, PTL DEF Spec, AtomicSpec, Atomic!Spec

(* A question is answered only while the artwork it was asked about is the *)
(* current one: an upload takes every open question with it, and an answer *)
(* that crosses an upload is refused by the version.                       *)
THEOREM AnswersMeetTheirUpload == Spec => AnswerMeetsItsUpload
<1> DEFINE Meets ==
      \A q \in DOMAIN question :
         (question[q].state # "answered" /\ question'[q].state = "answered")
            => question[q].about = order.cur
<1>1. Init => IInv
  BY Starts
<1>2. IInv /\ [Next]_vars => IInv'
  BY StepKeeps
<1>3. IInv /\ [Next]_vars => [Meets]_vars
  <2> SUFFICES ASSUME IInv, Next
               PROVE  Meets
    OBVIOUS
  <2>1. Typed /\ OpenIsCurrent /\ (question' = question => Meets)
    BY DEF IInv
  <2>2. ASSUME NEW p \in Process, InsertAndCommit(p)
        PROVE  Meets
    <3>1. CASE Reads
      BY <2>1, <3>1 DEF Reads
    <3>2. CASE /\ question' = Atomic!Answered(question, tx[p].question)
               /\ Atomic!Answerable(question, tx[p].question, order.av)
      <4>1. /\ tx[p].question \in DOMAIN question /\ question[tx[p].question].state = "open"
        BY <3>2 DEF Atomic!Answerable
      <4>2. \A i \in DOMAIN question : i # tx[p].question => question'[i] = question[i]
        BY <2>1, <3>2, <4>1, AnsweredRows DEF Typed
      <4> QED
        BY <2>1, <4>1, <4>2 DEF OpenIsCurrent
    <3> QED
      BY <2>2, <3>1, <3>2, AnswerCommits
  <2>3. ASSUME NEW p \in Process, InvalidateAndCommit(p)
        PROVE  Meets
    BY <2>1, <2>3, InvalidatedRows DEF InvalidateAndCommit, Typed
  <2>4. ASSUME NEW p \in Process, AskAndCommit(p)
        PROVE  Meets
    BY <2>4, AskCommits
  <2>5. \/ \E p \in Process : InsertAndCommit(p) \/ InvalidateAndCommit(p) \/ AskAndCommit(p)
        \/ question' = question
    BY DEF Next, Begin, BeginUpload, BeginTrim, BeginAnswer, ReadOrder, Claim, Statement,
           CountOriginals, InsertAsset, ReopenOrder, ConfirmTrim, ReadVersion, AnswerQuestion,
           ReopenForAnswer, LookForInspection, CreateJob, TakeOwnJob, InsertFindings, AdvanceOrder,
           LookForDecision, CommitInspection, SelectOrder, EscalateAndCommit, FailJob,
           BreakDeadlock, RollBack, Unchanged
  <2> QED
    BY <2>1, <2>2, <2>3, <2>4, <2>5
<1> QED
  BY <1>1, <1>2, <1>3, PTL DEF Spec, AnswerMeetsItsUpload
=============================================================================

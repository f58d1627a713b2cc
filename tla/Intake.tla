------------------------------- MODULE Intake -------------------------------
(***************************************************************************)
(* How orders and bytes come into the system: createOrder and its cap,     *)
(* createUpload and its tickets, the upload endpoint, and the workers that *)
(* store what they derived, all over the Put of ArtifactStore.  The server *)
(* may be restarted, with or without READ_ONLY_DEMO, and time passes.      *)
(***************************************************************************)
EXTENDS ArtifactStore

CONSTANTS Worker,      \* callers that are worker processes; the others are
                       \* requests the server handles
          MaxOrders,   \* MAX_DEMO_ORDERS; 0 is unlimited
          TicketTTL,   \* ticketTTL, in ticks
          MaxRequests, \* bound: requests handled
          Horizon      \* bound: the clock

ASSUME WorkerAssumption == Worker \subseteq Caller
ASSUME LimitAssumption  == MaxOrders \in Nat /\ TicketTTL \in Nat
ASSUME RunAssumption    == MaxRequests \in Nat /\ Horizon \in Nat

VARIABLES orders,    \* the number of rows of orders; ids are 1 .. orders
          counted,   \* createOrder requests that counted and have yet to insert
          ticket,    \* tickets issued: an order and the last second they are good for
          row,       \* assets rows: their order, content and who stored them
          readOnly,  \* READ_ONLY_DEMO of the running server
          since,     \* when readOnly was last switched
          now,       \* the clock
          requests   \* requests so far

intakeVars == <<orders, counted, ticket, row, readOnly, since, now, requests>>
vars == <<storeVars, intakeVars>>

Handler == Caller \ Worker

Init == /\ StoreInit
        /\ orders = 0 /\ counted = {} /\ ticket = {} /\ row = {}
        /\ readOnly \in BOOLEAN
        /\ since = 0 /\ now = 0 /\ requests = 0

NewRequest == requests < MaxRequests /\ requests' = requests + 1
Free(p) == At(p, "idle") /\ p \notin counted

(* Resolver.guarded, before every mutation. *)
Writable == ~readOnly
-----------------------------------------------------------------------------
(* CreateOrder: a count and an insert, two statements without a transaction. *)

Bug_CountsOneMore(h) ==
    /\ Free(h) /\ Writable
    /\ NewRequest
    /\ counted' = IF MaxOrders = 0 \/ orders <= MaxOrders THEN counted \cup {h} ELSE counted
    /\ UNCHANGED <<storeVars, orders, ticket, row, readOnly, since, now>>
CountOrders(h) ==
    /\ Free(h) /\ Writable
    /\ NewRequest
    /\ counted' = IF MaxOrders = 0 \/ orders < MaxOrders THEN counted \cup {h} ELSE counted
    /\ UNCHANGED <<storeVars, orders, ticket, row, readOnly, since, now>>

InsertOrder(h) ==
    /\ h \in counted
    /\ orders'  = orders + 1
    /\ counted' = counted \ {h}
    /\ UNCHANGED <<storeVars, ticket, row, readOnly, since, now, requests>>
-----------------------------------------------------------------------------
(* createUpload signs a ticket for an order that exists.  Nothing of it is *)
(* stored: whoever holds it may use it until it expires, more than once.   *)
CreateTicket(h, o) ==
    /\ Free(h) /\ Writable
    /\ NewRequest
    /\ ticket' = ticket \cup {[order |-> o, until |-> now + TicketTTL]}
    /\ UNCHANGED <<storeVars, orders, counted, row, readOnly, since, now>>

(* The upload handler verifies the ticket and reads the body before it     *)
(* stores anything.  It does not ask for READ_ONLY_DEMO.                   *)
Bug_AcceptsAnyTicket(t) == t \in ticket
Accepts(t) == t \in ticket /\ now <= t.until

ReceiveUpload(h, t, c) ==
    /\ Free(h) /\ Accepts(t)
    /\ NewRequest
    /\ StartPut(h, c, [order |-> t.order, by |-> "upload"])
    /\ UNCHANGED <<orders, counted, ticket, row, readOnly, since, now>>

(* A worker stores what it derived from an order's artwork (runRepair,     *)
(* runPrepareProof).                                                       *)
DeriveArtifact(w, o, c) ==
    /\ Free(w)
    /\ NewRequest
    /\ StartPut(w, c, [order |-> o, by |-> "worker"])
    /\ UNCHANGED <<orders, counted, ticket, row, readOnly, since, now>>

(* The row is written with the key Put returned, after it.                 *)
Bug_RecordWithoutPut(p) ==
    /\ put[p].pc \in {"stored", "failed"}
    /\ row' = row \cup {[order |-> put[p].memo.order, content |-> put[p].content,
                         by |-> put[p].memo.by]}
    /\ put' = [put EXCEPT ![p] = Idle]
    /\ UNCHANGED <<backend, object, files, told, faults>>
    /\ UNCHANGED <<orders, counted, ticket, readOnly, since, now, requests>>
RecordAsset(p) ==
    /\ At(p, "stored")
    /\ row' = row \cup {[order |-> put[p].memo.order, content |-> put[p].content,
                         by |-> put[p].memo.by]}
    /\ put' = [put EXCEPT ![p] = Idle]
    /\ UNCHANGED <<backend, object, files, told, faults>>
    /\ UNCHANGED <<orders, counted, ticket, readOnly, since, now, requests>>

(* Put failed: an error for the customer, a failed job for the worker.     *)
GiveUp(p) ==
    /\ At(p, "failed")
    /\ put' = [put EXCEPT ![p] = Idle]
    /\ UNCHANGED <<backend, object, files, told, faults, intakeVars>>
-----------------------------------------------------------------------------
(* The server starts anew: what its handlers had in hand is lost.          *)
Restart(ro) ==
    /\ Fault
    /\ put' = [p \in Caller |-> IF p \in Handler THEN Idle ELSE put[p]]
    /\ counted' = {}
    /\ readOnly' = ro
    /\ since' = IF ro = readOnly THEN since ELSE now
    /\ UNCHANGED <<backend, object, files, told, orders, ticket, row, now, requests>>

Tick ==
    /\ now < Horizon
    /\ now' = now + 1
    /\ UNCHANGED <<storeVars, orders, counted, ticket, row, readOnly, since, requests>>

Next ==
    \/ \E h \in Handler :
         \/ CountOrders(h) \/ InsertOrder(h)
         \/ \E o \in 1 .. orders : CreateTicket(h, o)
         \/ \E t \in ticket, c \in Content : ReceiveUpload(h, t, c)
    \/ \E w \in Worker, o \in 1 .. orders, c \in Content : DeriveArtifact(w, o, c)
    \/ \E p \in Caller :
         \/ RecordAsset(p) \/ GiveUp(p)
         \/ (PutStep(p) \/ Lost(p)) /\ UNCHANGED intakeVars
    \/ \E ro \in BOOLEAN : Restart(ro)
    \/ Tick

Spec == Init /\ [][Next]_vars
-----------------------------------------------------------------------------
(* An assets row never names bytes that are not there, whoever was lost    *)
(* between the Put and the row (the row is written last), and whatever     *)
(* later Puts of the same bytes do.                                        *)
RowsNameTheirBytes == \A r \in row : r.content \in Stored

(* The cap holds up to the requests that counted while it was not reached: *)
(* it is overshot by fewer orders than the server handles requests at once.*)
CapHolds ==
    MaxOrders > 0 => orders + Cardinality(counted) < MaxOrders + Cardinality(Handler)

(* A server made read-only creates no orders, and takes no upload later    *)
(* than the last ticket of the time before is good for.                    *)
ReadOnlyDriesUp ==
    [][readOnly =>
         /\ orders' = orders
         /\ \A h \in Handler :
              (At(h, "idle") /\ put'[h] # Idle) => now <= since + TicketTTL]_vars
=============================================================================

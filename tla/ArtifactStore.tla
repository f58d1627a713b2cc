--------------------------- MODULE ArtifactStore ---------------------------
(***************************************************************************)
(* Put of internal/storage, system call by system call on the local disk   *)
(* and request by request on Cloud Storage, run by several callers at once *)
(* (upload handlers and workers).  A caller may be lost between any two.   *)
(*                                                                         *)
(* On the disk a temporary name is a function of the content, so that two  *)
(* callers with the same bytes open the same file: a name leads to an      *)
(* inode, a caller writes to the inode it opened, and a rename moves the   *)
(* name.  A file has two parts, written one after the other.               *)
(***************************************************************************)
EXTENDS Naturals, FiniteSets

CONSTANTS Caller,    \* goroutines and processes that call Put
          Content,   \* the byte strings they store
          Backends,  \* the values STORAGE_BACKEND may have
          Overlap,   \* whether two Puts of one content may run at once on the disk
          MaxFaults  \* bound: errors of the services and callers lost

ASSUME BackendAssumption == Backends \subseteq {"local", "gcs"}
ASSUME OverlapAssumption == Overlap \in BOOLEAN
ASSUME FaultsAssumption  == MaxFaults \in Nat
ASSUME FiniteAssumption  == IsFiniteSet(Caller) /\ IsFiniteSet(Content)

VARIABLES backend,   \* the backend all processes agree on
          object,    \* Cloud Storage: the objects of the bucket
          final,     \* local disk: the inode under each content's path
          temp,      \* local disk: the inode under its path.tmp
          written,   \* local disk: the parts each inode holds
          put,       \* where each caller's Put is
          told,      \* contents whose key was returned
          faults     \* faults so far

storeVars == <<backend, object, final, temp, written, put, told, faults>>
files     == <<final, temp, written>>

Part  == {1, 2}
Inode == 1 .. (2 * Cardinality(Content) + Cardinality(Caller))
None  == 0
Idle  == [pc |-> "idle"]

StoreInit ==
    /\ backend \in Backends
    /\ object  = {}
    /\ final   = [c \in Content |-> None]
    /\ temp    = [c \in Content |-> None]
    /\ written = [i \in Inode |-> {}]
    /\ put     = [p \in Caller |-> Idle]
    /\ told    = {}
    /\ faults  = 0

At(p, pc) == put[p].pc = pc

(* The Put goes on with another system call or request.  What it carries   *)
(* for its caller stays.                                                   *)
GoesTo(p, pc) == put' = [put EXCEPT ![p].pc = pc]

Fault == faults < MaxFaults /\ faults' = faults + 1

Stored == IF backend = "gcs" THEN object
          ELSE {c \in Content : final[c] # None /\ written[final[c]] = Part}

(* The Put of p returns the key of its content. *)
Return(p) == GoesTo(p, "stored") /\ told' = told \cup {put[p].content}

InPut(p) == put[p].pc \notin {"idle", "stored", "failed"}

(* A caller starts a Put; memo is what it wants the key for. *)
StartPut(p, c, memo) ==
    /\ At(p, "idle")
    /\ backend = "local" /\ ~Overlap => \A q \in Caller : InPut(q) => put[q].content # c
    /\ put' = [put EXCEPT ![p] = [pc |-> "asked", content |-> c, memo |-> memo, fd |-> None]]
    /\ UNCHANGED <<backend, object, files, told, faults>>
-----------------------------------------------------------------------------
(* LocalDisk.Put *)

Stat(p) ==
    /\ backend = "local" /\ At(p, "asked")
    /\ IF final[put[p].content] # None THEN Return(p)
       ELSE GoesTo(p, "absent") /\ UNCHANGED told
    /\ UNCHANGED <<backend, object, files, faults>>

(* os.WriteFile creates the temporary file or truncates the one there is.  *)
Unused == {i \in Inode : /\ \A c \in Content : i \notin {final[c], temp[c]}
                         /\ \A p \in Caller : InPut(p) => put[p].fd # i}

Bug_OpenInPlace(p) ==
    LET c == put[p].content
        i == CHOOSE u \in Unused : TRUE
    IN  /\ backend = "local" /\ At(p, "absent")
        /\ final' = [final EXCEPT ![c] = i]
        /\ put'   = [put EXCEPT ![p].pc = "open", ![p].fd = i]
        /\ UNCHANGED <<backend, object, temp, written, told, faults>>
OpenTemp(p) ==
    LET c == put[p].content
        i == IF temp[c] = None THEN CHOOSE u \in Unused : TRUE ELSE temp[c]
    IN  /\ backend = "local" /\ At(p, "absent")
        /\ temp'    = [temp EXCEPT ![c] = i]
        /\ written' = [written EXCEPT ![i] = {}]
        /\ put'     = [put EXCEPT ![p].pc = "open", ![p].fd = i]
        /\ UNCHANGED <<backend, object, final, told, faults>>

WritePart(p) ==
    /\ backend = "local"
    /\ \/ At(p, "open") /\ written' = [written EXCEPT ![put[p].fd] = @ \cup {1}]
          /\ GoesTo(p, "half")
       \/ At(p, "half") /\ written' = [written EXCEPT ![put[p].fd] = @ \cup {2}]
          /\ GoesTo(p, "written")
    /\ UNCHANGED <<backend, object, final, temp, told, faults>>

(* The disk is full: what was written stays under the temporary name.      *)
WriteFails(p) ==
    /\ backend = "local"
    /\ At(p, "open") \/ At(p, "half")
    /\ Fault
    /\ GoesTo(p, "failed")
    /\ UNCHANGED <<backend, object, files, told>>

(* The name moves, whatever file it leads to by now. *)
Rename(p) ==
    LET c == put[p].content
    IN  /\ backend = "local" /\ At(p, "written")
        /\ IF temp[c] = None THEN GoesTo(p, "failed") /\ UNCHANGED <<files, told>>
           ELSE /\ final' = [final EXCEPT ![c] = temp[c]]
                /\ temp'  = [temp EXCEPT ![c] = None]
                /\ Return(p)
                /\ UNCHANGED written
        /\ UNCHANGED <<backend, object, faults>>
-----------------------------------------------------------------------------
(* GCS.Put *)

Probe(p) ==
    /\ backend = "gcs" /\ At(p, "asked")
    /\ \/ /\ IF put[p].content \in object THEN Return(p)
             ELSE GoesTo(p, "absent") /\ UNCHANGED told
          /\ UNCHANGED faults
       \/ Fault /\ GoesTo(p, "failed") /\ UNCHANGED told
    /\ UNCHANGED <<backend, object, files>>

(* The write, with its condition that no object exists.  An error may hide *)
(* that the object was created.                                            *)
ConditionalWrite(p) ==
    LET c == put[p].content
    IN  /\ backend = "gcs" /\ At(p, "absent")
        /\ \/ /\ c \notin object
              /\ object' = object \cup {c}
              /\ Return(p)
              /\ UNCHANGED faults
           \/ /\ c \in object
              /\ GoesTo(p, "unsure")
              /\ UNCHANGED <<object, told, faults>>
           \/ /\ Fault
              /\ object' \in {object, object \cup {c}}
              /\ GoesTo(p, "unsure") \/ GoesTo(p, "failed")  \* in Close, or in Copy
              /\ UNCHANGED told
        /\ UNCHANGED <<backend, files>>

(* Any failed write is probed again: the object is there if another caller *)
(* won the race, or if this one did and did not hear of it.                *)
Bug_FailWithoutProbe(p) ==
    /\ backend = "gcs" /\ At(p, "unsure")
    /\ GoesTo(p, "failed")
    /\ UNCHANGED <<backend, object, files, told, faults>>
ProbeAgain(p) ==
    /\ backend = "gcs" /\ At(p, "unsure")
    /\ \/ /\ IF put[p].content \in object THEN Return(p)
             ELSE GoesTo(p, "failed") /\ UNCHANGED told
          /\ UNCHANGED faults
       \/ Fault /\ GoesTo(p, "failed") /\ UNCHANGED told
    /\ UNCHANGED <<backend, object, files>>
-----------------------------------------------------------------------------
PutStep(p) ==
    \/ Stat(p) \/ OpenTemp(p) \/ WritePart(p) \/ WriteFails(p) \/ Rename(p)
    \/ Probe(p) \/ ConditionalWrite(p) \/ ProbeAgain(p)

(* The caller is lost; the files stay as they are. *)
Lost(p) ==
    /\ put[p] # Idle
    /\ Fault
    /\ put' = [put EXCEPT ![p] = Idle]
    /\ UNCHANGED <<backend, object, files, told>>

(* The store keeps the promise of the interface. *)
Promise == INSTANCE Artifacts WITH stored <- Stored
StoreSpec == Promise!Spec

(* A Put fails only if a service did: in particular the caller that loses  *)
(* the race between the probe and the conditional write gets its key too.  *)
PutFailsOnlyByFault == \A p \in Caller : At(p, "failed") => faults > 0

-----------------------------------------------------------------------------
(* "Storing the same bytes twice returns the same key without rewriting -  *)
(* this is what makes a retried write after a crash a safe no-op"          *)
(* (interface.go): whatever key was returned, once no Put of its bytes is  *)
(* under way, names them complete, so that a retry may indeed do nothing.  *)
RetryMayDoNothing ==
    \A c \in told : (\A p \in Caller : InPut(p) => put[p].content # c) => c \in Stored
=============================================================================

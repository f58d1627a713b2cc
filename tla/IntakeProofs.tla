---------------------------- MODULE IntakeProofs ----------------------------
(***************************************************************************)
(* The intake, for any callers, contents and bounds.  Orders and tickets:  *)
(* the cap and the drying up of a read-only server.  The store: an inode   *)
(* that leads to content's path is never written again (Apart, Complete),  *)
(* which holds as long as no two Puts of one content overlap on the disk;  *)
(* from it follow the rows and the promise of the interface.               *)
(***************************************************************************)
EXTENDS Intake, FiniteSetTheorems, TLAPS

Pc     == {"asked", "absent", "open", "half", "written", "unsure", "stored", "failed"}
Origin == {"upload", "worker"}
Memo   == [order : Nat, by : Origin]
Handle == Inode \cup {None}
Puts   == {Idle} \cup [pc : Pc, content : Content, memo : Memo, fd : Handle]

StoreTyped ==
    /\ backend \in {"local", "gcs"} /\ object \in SUBSET Content
    /\ final \in [Content -> Handle] /\ temp \in [Content -> Handle]
    /\ written \in [Inode -> SUBSET Part]
    /\ put \in [Caller -> Puts]
    /\ told \in SUBSET Content /\ faults \in Nat

Tickets == [order : Nat, until : Nat]

IntakeTyped ==
    /\ orders \in Nat /\ counted \in SUBSET Handler
    /\ ticket \in SUBSET Tickets
    /\ row \in SUBSET [order : Nat, content : Content, by : Origin]
    /\ readOnly \in BOOLEAN /\ since \in Nat /\ now \in Nat /\ requests \in Nat

Typed == StoreTyped /\ IntakeTyped

LEMMA PutFacts ==
  ASSUME NEW q \in Puts
  PROVE  /\ q.pc \in Pc \cup {"idle"}
         /\ q = Idle <=> q.pc = "idle"
         /\ q # Idle => q.content \in Content /\ q.memo \in Memo /\ q.fd \in Handle
  BY DEF Puts, Idle, Pc

(* What a Put carries stays as it goes on. *)
LEMMA Going ==
  ASSUME StoreTyped, NEW p \in Caller, put[p] # Idle, NEW pc \in Pc, GoesTo(p, pc)
  PROVE  /\ put' \in [Caller -> Puts]
         /\ put'[p].pc = pc /\ put'[p].content = put[p].content /\ put'[p].memo = put[p].memo
         /\ put'[p].fd = put[p].fd /\ put'[p] # Idle
         /\ \A q \in Caller \ {p} : put'[q] = put[q]
<1>1. put \in [Caller -> Puts] /\ put[p] \in Puts
  BY DEF StoreTyped
<1>2. put[p] \in [pc : Pc, content : Content, memo : Memo, fd : Handle]
  BY <1>1 DEF Puts
<1>3. PICK q : q = [put[p] EXCEPT !.pc = pc]
  OBVIOUS
<1>4. /\ q \in [pc : Pc, content : Content, memo : Memo, fd : Handle]
      /\ q.pc = pc /\ q.content = put[p].content /\ q.memo = put[p].memo /\ q.fd = put[p].fd
  BY <1>2, <1>3
<1>5. put' = [put EXCEPT ![p] = q]
  BY <1>1, <1>3 DEF GoesTo
<1>6. q \in Puts /\ q # Idle
  BY <1>4 DEF Puts, Pc, Idle
<1> QED
  BY <1>1, <1>4, <1>5, <1>6

LEMMA Opening ==
  ASSUME StoreTyped, NEW p \in Caller, put[p] # Idle, NEW i \in Inode,
         put' = [put EXCEPT ![p].pc = "open", ![p].fd = i]
  PROVE  /\ put' \in [Caller -> Puts]
         /\ put'[p].pc = "open" /\ put'[p].content = put[p].content /\ put'[p].memo = put[p].memo
         /\ put'[p].fd = i /\ put'[p] # Idle
         /\ \A q \in Caller \ {p} : put'[q] = put[q]
<1>1. put \in [Caller -> Puts] /\ put[p] \in Puts
  BY DEF StoreTyped
<1>2. put[p] \in [pc : Pc, content : Content, memo : Memo, fd : Handle]
  BY <1>1 DEF Puts
<1>3. PICK q : q = [put[p] EXCEPT !.pc = "open", !.fd = i]
  OBVIOUS
<1>4. /\ q \in [pc : Pc, content : Content, memo : Memo, fd : Handle]
      /\ q.pc = "open" /\ q.content = put[p].content /\ q.memo = put[p].memo /\ q.fd = i
  BY <1>2, <1>3 DEF Pc, Handle
<1>5. put' = [put EXCEPT ![p] = q]
  BY <1>1, <1>3
<1>6. q \in Puts /\ q # Idle
  BY <1>4 DEF Puts, Pc, Idle
<1> QED
  BY <1>1, <1>4, <1>5, <1>6

(* A caller starts a Put. *)
LEMMA Starting ==
  ASSUME StoreTyped, NEW p \in Caller, NEW c \in Content, NEW memo \in Memo, StartPut(p, c, memo)
  PROVE  /\ put[p] = Idle /\ put' \in [Caller -> Puts]
         /\ put'[p].pc = "asked" /\ put'[p].content = c /\ put'[p].fd = None /\ put'[p] # Idle
         /\ \A q \in Caller \ {p} : put'[q] = put[q]
<1>1. put \in [Caller -> Puts] /\ put[p] \in Puts /\ put[p].pc = "idle"
  BY DEF StoreTyped, StartPut, At
<1>2. PICK q : q = [pc |-> "asked", content |-> c, memo |-> memo, fd |-> None]
  OBVIOUS
<1>3. q \in Puts /\ q.pc = "asked" /\ q.content = c /\ q.fd = None /\ q # Idle
  BY <1>2 DEF Puts, Pc, Idle, Handle
<1>4. put' = [put EXCEPT ![p] = q]
  BY <1>2 DEF StartPut
<1> QED
  BY <1>1, <1>3, <1>4, PutFacts
-----------------------------------------------------------------------------
(* There is always an inode to write to: two for every content, and one    *)
(* for every other caller.                                                 *)
LEMMA ImageIsSmall ==
  ASSUME NEW S, IsFiniteSet(S), NEW T, NEW f \in [S -> T]
  PROVE  /\ IsFiniteSet({f[s] : s \in S})
         /\ Cardinality({f[s] : s \in S}) <= Cardinality(S)
<1> DEFINE U == {f[s] : s \in S}
<1>1. f \in Surjection(S, U)
  BY DEF Surjection
<1> QED
  BY <1>1, FS_Surjection

LEMMA InodeLeft ==
  ASSUME StoreTyped, NEW p \in Caller, put[p].fd = None \/ ~InPut(p)
  PROVE  (CHOOSE u \in Unused : TRUE) \in Unused
<1>1. IsFiniteSet(Caller) /\ IsFiniteSet(Content)
  BY FiniteAssumption
<1>2. PICK n \in Nat, m \in Nat : n = Cardinality(Content) /\ m = Cardinality(Caller)
  BY <1>1, FS_CardinalityType
<1>3. Inode = 1 .. (2 * n + m)
  BY <1>2 DEF Inode
<1>4. IsFiniteSet(Inode) /\ Cardinality(Inode) = 2 * n + m
  <2>1. PICK k \in Nat : k = 2 * n + m
    OBVIOUS
  <2>2. IsFiniteSet(1 .. k) /\ Cardinality(1 .. k) = k
    BY FS_Interval
  <2> QED
    BY <1>3, <2>1, <2>2
<1> DEFINE Others == Caller \ {p}
           fds    == [q \in Others |-> put[q].fd]
           F      == {final[c] : c \in Content}
           T      == {temp[c] : c \in Content}
           O      == {fds[q] : q \in Others}
<1>5. IsFiniteSet(F) /\ Cardinality(F) <= n
  BY <1>1, <1>2, ImageIsSmall DEF StoreTyped
<1>6. IsFiniteSet(T) /\ Cardinality(T) <= n
  BY <1>1, <1>2, ImageIsSmall DEF StoreTyped
<1>7. IsFiniteSet(Others) /\ Cardinality(Others) = m - 1 /\ m > 0
  <2>1. IsFiniteSet(Others) /\ Cardinality(Others) = m - 1
    BY <1>1, <1>2, FS_RemoveElement
  <2>2. Cardinality(Others) \in Nat
    BY <2>1, FS_CardinalityType
  <2> QED
    BY <2>1, <2>2
<1>8. IsFiniteSet(O) /\ Cardinality(O) <= m - 1
  <2>1. fds \in [Others -> {put[q].fd : q \in Others}]
    OBVIOUS
  <2> HIDE DEF fds, Others
  <2>2. IsFiniteSet(O) /\ Cardinality(O) <= Cardinality(Others)
    BY <1>7, <2>1, ImageIsSmall
  <2> QED
    BY <1>7, <2>2
<1> HIDE DEF F, T, O
<1>9. IsFiniteSet(F \cup T) /\ Cardinality(F \cup T) <= 2 * n
  <2>1. Cardinality(F) \in Nat /\ Cardinality(T) \in Nat /\ Cardinality(F \cap T) \in Nat
    <3>1. IsFiniteSet(F \cap T)
      BY <1>5, FS_Subset
    <3> QED
      BY <1>5, <1>6, <3>1, FS_CardinalityType
  <2>2. /\ IsFiniteSet(F \cup T)
        /\ Cardinality(F \cup T) = Cardinality(F) + Cardinality(T) - Cardinality(F \cap T)
    BY <1>5, <1>6, FS_Union
  <2> QED
    BY <1>5, <1>6, <2>1, <2>2
<1>10. IsFiniteSet((F \cup T) \cup O) /\ Cardinality((F \cup T) \cup O) <= 2 * n + (m - 1)
  <2>1. /\ Cardinality(F \cup T) \in Nat /\ Cardinality(O) \in Nat
        /\ Cardinality((F \cup T) \cap O) \in Nat
    <3>1. IsFiniteSet((F \cup T) \cap O)
      BY <1>8, FS_Subset
    <3> QED
      BY <1>8, <1>9, <3>1, FS_CardinalityType
  <2>2. /\ IsFiniteSet((F \cup T) \cup O)
        /\ Cardinality((F \cup T) \cup O) =
             Cardinality(F \cup T) + Cardinality(O) - Cardinality((F \cup T) \cap O)
    BY <1>8, <1>9, FS_Union
  <2> QED
    BY <1>7, <1>8, <1>9, <2>1, <2>2
<1>11. ~(Inode \subseteq (F \cup T) \cup O)
  <2> SUFFICES ASSUME Inode \subseteq (F \cup T) \cup O PROVE FALSE
    OBVIOUS
  <2>1. Cardinality(Inode) <= Cardinality((F \cup T) \cup O)
    BY <1>10, FS_Subset
  <2>2. Cardinality((F \cup T) \cup O) \in Nat
    BY <1>10, FS_CardinalityType
  <2> QED
    BY <1>4, <1>10, <2>1, <2>2
<1>12. PICK i \in Inode : i \notin F /\ i \notin T /\ i \notin O
  BY <1>11
<1>13. i \in Unused
  <2>1. \A c \in Content : i \notin {final[c], temp[c]}
    BY <1>12 DEF F, T
  <2>2. \A q \in Caller \ {p} : put[q].fd # i
    BY <1>12 DEF O
  <2>3. i # None
    BY <1>3 DEF None
  <2> QED
    BY <2>1, <2>2, <2>3 DEF Unused
<1> QED
  BY <1>13
-----------------------------------------------------------------------------
(* The local disk. *)

Alone == \A p, q \in Caller : p # q /\ InPut(p) /\ InPut(q) => put[p].content # put[q].content

Apart == \A c, d \in Content : temp[c] # None => temp[c] # final[d] /\ (c # d => temp[c] # temp[d])

Complete == \A c \in Content : final[c] # None => written[final[c]] = Part

(* What a Put holds open is what its temporary name leads to. *)
Writing(q) ==
    /\ q.pc \in {"open", "half", "written"} => q.fd = temp[q.content] /\ q.fd # None
    /\ q.pc = "half" => 1 \in written[q.fd]
    /\ q.pc = "written" => written[q.fd] = Part
    /\ q.pc \in {"asked", "absent"} => q.fd = None

OnDisk == Alone /\ Apart /\ Complete /\ \A p \in Caller : Writing(put[p])

LEMMA InPutFacts ==
  ASSUME StoreTyped, NEW p \in Caller
  PROVE  /\ put[p] \in Puts
         /\ InPut(p) => put[p] # Idle
         /\ put[p].pc \in {"asked", "absent", "open", "half", "written", "unsure"} => InPut(p)
         /\ InPut(p) => put[p].content \in Content /\ put[p].fd \in Handle
  BY PutFacts DEF StoreTyped, InPut, Idle

LEMMA StillAlone ==
  ASSUME Alone, NEW p \in Caller, InPut(p), put'[p].content = put[p].content,
         \A q \in Caller \ {p} : put'[q] = put[q]
  PROVE  Alone'
  BY DEF Alone, InPut

LEMMA OthersStillWrite ==
  ASSUME StoreTyped, OnDisk, NEW p \in Caller, InPut(p),
         NEW q \in Caller \ {p}, put'[q] = put[q],
         \A c \in Content : c # put[p].content => temp'[c] = temp[c],
         \A i \in Inode : (\E c \in Content : c # put[p].content /\ temp[c] = i) => written'[i] = written[i]
  PROVE  Writing(put[q])'
<1>1. Writing(put[q])
  BY DEF OnDisk
<1>2. CASE InPut(q)
  <2>1. put[q].content # put[p].content
    BY <1>2 DEF OnDisk, Alone
  <2>2. put[q].content \in Content /\ put[q].fd \in Handle
    BY <1>2, InPutFacts
  <2>3. temp'[put[q].content] = temp[put[q].content]
    BY <2>1, <2>2
  <2>4. put[q].pc \in {"open", "half", "written"} => written'[put[q].fd] = written[put[q].fd]
    BY <1>1, <2>1, <2>2 DEF Writing, Handle
  <2> QED
    BY <1>1, <2>3, <2>4 DEF Writing
<1>3. CASE ~InPut(q)
  BY <1>3 DEF Writing, InPut
<1> QED
  BY <1>2, <1>3

LEMMA OpenKeepsDisk ==
  ASSUME StoreTyped, OnDisk, NEW p \in Caller, OpenTemp(p)
  PROVE  StoreTyped' /\ OnDisk' /\ UNCHANGED <<final, told>>
         /\ \A c \in Content : final[c] # None => written'[final[c]] = written[final[c]]
<1> DEFINE c == put[p].content
<1>1. /\ backend = "local" /\ put[p].pc = "absent" /\ InPut(p) /\ put[p] # Idle
      /\ c \in Content /\ put[p].fd = None
  <2>1. put[p].pc = "absent" /\ backend = "local"
    BY DEF OpenTemp, At
  <2> QED
    BY <2>1, InPutFacts DEF OnDisk, Writing
<1>2. PICK i \in Inode :
        /\ temp' = [temp EXCEPT ![c] = i] /\ written' = [written EXCEPT ![i] = {}]
        /\ put' = [put EXCEPT ![p].pc = "open", ![p].fd = i]
        /\ i = temp[c] \/ i \in Unused
  <2>1. (CHOOSE u \in Unused : TRUE) \in Unused /\ Unused \subseteq Inode
    BY <1>1, InodeLeft DEF Unused
  <2>2. temp[c] # None => temp[c] \in Inode
    BY <1>1 DEF StoreTyped, Handle
  <2> QED
    BY <2>1, <2>2 DEF OpenTemp
<1>3. UNCHANGED <<backend, object, final, told, faults>>
  BY DEF OpenTemp
<1> HIDE DEF c
<1>4. temp'[c] = i /\ \A d \in Content \ {c} : temp'[d] = temp[d]
  BY <1>1, <1>2 DEF StoreTyped
<1>5. written'[i] = {} /\ \A k \in Inode \ {i} : written'[k] = written[k]
  BY <1>2 DEF StoreTyped
<1>6. /\ put' \in [Caller -> Puts] /\ put'[p].pc = "open" /\ put'[p].content = c /\ put'[p].fd = i
      /\ \A q \in Caller \ {p} : put'[q] = put[q]
  BY <1>1, <1>2, Opening DEF c
<1>7. i # None
  BY DEF Inode, None
<1>8. StoreTyped'
  <2>1. temp' \in [Content -> Handle] /\ written' \in [Inode -> SUBSET Part]
    BY <1>2 DEF StoreTyped, Handle
  <2> QED
    BY <1>3, <1>6, <2>1 DEF StoreTyped
<1>9. \A d \in Content : i # final[d] /\ (d # c => temp[d] # i)
  <2>1. CASE i = temp[c]
    BY <1>1, <1>7, <2>1 DEF OnDisk, Apart
  <2>2. CASE i \in Unused
    BY <2>2 DEF Unused
  <2> QED
    BY <1>2, <2>1, <2>2
<1>10. \A d \in Content : final[d] # None => written'[final[d]] = written[final[d]]
  BY <1>5, <1>9 DEF StoreTyped, Handle
<1>11. Alone'
  BY <1>1, <1>6, StillAlone DEF OnDisk, c
<1>12. Apart'
  BY <1>3, <1>4, <1>7, <1>9 DEF OnDisk, Apart
<1>13. Complete'
  BY <1>3, <1>10 DEF OnDisk, Complete
<1>14. Writing(put[p])'
  BY <1>4, <1>6, <1>7 DEF Writing
<1>15. ASSUME NEW q \in Caller \ {p}
       PROVE  Writing(put[q])'
  BY <1>1, <1>4, <1>5, <1>6, <1>9, OthersStillWrite DEF c
<1> QED
  BY <1>3, <1>8, <1>10, <1>11, <1>12, <1>13, <1>14, <1>15 DEF OnDisk

LEMMA WriteKeepsDisk ==
  ASSUME StoreTyped, OnDisk, NEW p \in Caller, WritePart(p)
  PROVE  StoreTyped' /\ OnDisk' /\ UNCHANGED <<final, told>>
         /\ \A c \in Content : final[c] # None => written'[final[c]] = written[final[c]]
<1> DEFINE c == put[p].content
           i == put[p].fd
<1>1. /\ put[p].pc \in {"open", "half"} /\ InPut(p) /\ put[p] # Idle /\ c \in Content
      /\ i = temp[c] /\ i # None /\ i \in Inode
  <2>1. put[p].pc \in {"open", "half"}
    BY DEF WritePart, At
  <2>2. InPut(p) /\ put[p] # Idle /\ c \in Content /\ i \in Handle
    BY <2>1, InPutFacts
  <2>3. Writing(put[p])
    BY DEF OnDisk
  <2> QED
    BY <2>1, <2>2, <2>3 DEF Writing, Handle
<1>2. UNCHANGED <<backend, object, final, temp, told, faults>>
  BY DEF WritePart
<1>3. PICK n \in Part, pc \in {"half", "written"} :
        /\ written' = [written EXCEPT ![i] = @ \cup {n}] /\ GoesTo(p, pc)
        /\ pc = "half" => n = 1
        /\ pc = "written" => n = 2 /\ put[p].pc = "half"
  BY DEF WritePart, At, Part
<1> HIDE DEF c, i
<1>4. written'[i] = written[i] \cup {n} /\ \A k \in Inode \ {i} : written'[k] = written[k]
  BY <1>1, <1>3 DEF StoreTyped
<1>5. /\ put' \in [Caller -> Puts] /\ put'[p].pc = pc /\ put'[p].content = c /\ put'[p].fd = i
      /\ \A q \in Caller \ {p} : put'[q] = put[q]
  <2>1. pc \in Pc
    BY DEF Pc
  <2> QED
    BY <1>1, <1>3, <2>1, Going DEF c, i
<1>6. StoreTyped'
  <2>1. written' \in [Inode -> SUBSET Part]
    BY <1>1, <1>3 DEF StoreTyped
  <2> QED
    BY <1>2, <1>5, <2>1 DEF StoreTyped
<1>7. \A d \in Content : final[d] # i /\ (d # c => temp[d] # i)
  BY <1>1 DEF OnDisk, Apart
<1>8. \A d \in Content : final[d] # None => written'[final[d]] = written[final[d]]
  BY <1>4, <1>7 DEF StoreTyped, Handle
<1>9. Alone' /\ Apart' /\ Complete'
  <2>1. Alone'
    BY <1>1, <1>5, StillAlone DEF OnDisk, c
  <2>2. Apart'
    BY <1>2 DEF OnDisk, Apart
  <2>3. Complete'
    BY <1>2, <1>8 DEF OnDisk, Complete
  <2> QED
    BY <2>1, <2>2, <2>3
<1>10. Writing(put[p])'
  <2>1. put[p].pc = "half" => 1 \in written[i]
    BY DEF OnDisk, Writing, i
  <2>2. written[i] \subseteq Part
    BY <1>1 DEF StoreTyped
  <2>3. pc = "written" => written'[i] = Part
    BY <1>3, <1>4, <2>1, <2>2 DEF Part
  <2> QED
    BY <1>1, <1>2, <1>3, <1>4, <1>5, <2>3 DEF Writing
<1>11. ASSUME NEW q \in Caller \ {p}
       PROVE  Writing(put[q])'
  BY <1>1, <1>2, <1>4, <1>5, <1>7, OthersStillWrite DEF c
<1> QED
  BY <1>2, <1>6, <1>8, <1>9, <1>10, <1>11 DEF OnDisk

LEMMA RenameKeepsDisk ==
  ASSUME StoreTyped, OnDisk, NEW p \in Caller, Rename(p)
  PROVE  /\ StoreTyped' /\ OnDisk' /\ put'[p].pc = "stored" /\ put'[p].content = put[p].content
         /\ \A q \in Caller \ {p} : put'[q] = put[q]
         /\ put[p].content \in Content /\ UNCHANGED <<backend, object, faults>>
         /\ told' = told \cup {put[p].content}
         /\ {d \in Content : final'[d] # None} = {d \in Content : final[d] # None} \cup {put[p].content}
<1> DEFINE c == put[p].content
           i == put[p].fd
<1>1. /\ put[p].pc = "written" /\ InPut(p) /\ put[p] # Idle /\ c \in Content
      /\ i = temp[c] /\ i # None /\ i \in Inode /\ written[i] = Part
  <2>1. put[p].pc = "written"
    BY DEF Rename, At
  <2>2. InPut(p) /\ put[p] # Idle /\ c \in Content /\ i \in Handle
    BY <2>1, InPutFacts
  <2>3. Writing(put[p])
    BY DEF OnDisk
  <2> QED
    BY <2>1, <2>2, <2>3 DEF Writing, Handle
<1>2. /\ final' = [final EXCEPT ![c] = i] /\ temp' = [temp EXCEPT ![c] = None]
      /\ Return(p) /\ UNCHANGED <<backend, object, written, faults>>
  BY <1>1 DEF Rename
<1>3. told' = told \cup {c}
  BY <1>2 DEF Return
<1> HIDE DEF c, i
<1>4. final'[c] = i /\ \A d \in Content \ {c} : final'[d] = final[d]
  BY <1>1, <1>2 DEF StoreTyped
<1>5. temp'[c] = None /\ \A d \in Content \ {c} : temp'[d] = temp[d]
  BY <1>1, <1>2 DEF StoreTyped
<1>6. /\ put' \in [Caller -> Puts] /\ put'[p].pc = "stored" /\ put'[p].content = c
      /\ \A q \in Caller \ {p} : put'[q] = put[q]
  <2>1. "stored" \in Pc /\ GoesTo(p, "stored")
    BY <1>2 DEF Pc, Return
  <2> QED
    BY <1>1, <2>1, Going DEF c
<1>7. StoreTyped'
  <2>1. final' \in [Content -> Handle] /\ temp' \in [Content -> Handle]
    BY <1>1, <1>2 DEF StoreTyped, Handle
  <2> QED
    BY <1>1, <1>2, <1>3, <1>6, <2>1 DEF StoreTyped
<1>8. Alone'
  BY <1>1, <1>6, StillAlone DEF OnDisk, c
<1>9. Apart'
  <2>1. \A d \in Content : d # c => temp[d] # i \/ temp[d] = None
    BY <1>1 DEF OnDisk, Apart
  <2> QED
    BY <1>4, <1>5, <2>1 DEF OnDisk, Apart
<1>10. Complete'
  BY <1>1, <1>2, <1>4 DEF OnDisk, Complete
<1>11. Writing(put[p])'
  BY <1>6 DEF Writing
<1>12. ASSUME NEW q \in Caller \ {p}
       PROVE  Writing(put[q])'
  BY <1>1, <1>2, <1>5, <1>6, OthersStillWrite DEF c
<1>13. {d \in Content : final'[d] # None} = {d \in Content : final[d] # None} \cup {c}
  BY <1>1, <1>4
<1> QED
  BY <1>2, <1>3, <1>6, <1>7, <1>8, <1>9, <1>10, <1>11, <1>12, <1>13, <1>1 DEF OnDisk, c

(* Steps that leave the files alone. *)
LEMMA MoveKeepsDisk ==
  ASSUME StoreTyped, OnDisk, NEW p \in Caller, InPut(p), UNCHANGED files,
         put'[p].content = put[p].content, put'[p].fd = put[p].fd,
         \A q \in Caller \ {p} : put'[q] = put[q],
         \/ put'[p].pc \in {"stored", "failed"}
         \/ put[p].pc = "asked" /\ put'[p].pc = "absent"
  PROVE  OnDisk'
<1>1. Alone'
  BY StillAlone DEF OnDisk
<1>2. Apart' /\ Complete'
  BY DEF OnDisk, Apart, Complete, files
<1>3. Writing(put[p])'
  BY DEF OnDisk, Writing
<1>4. \A q \in Caller \ {p} : Writing(put[q])'
  BY DEF OnDisk, Writing, files
<1> QED
  BY <1>1, <1>2, <1>3, <1>4 DEF OnDisk

(* No two Puts of one content overlap on a local disk.  On Cloud Storage   *)
(* they may.                                                               *)
Undisturbed == backend = "local" => ~Overlap

LEMMA StartKeepsDisk ==
  ASSUME StoreTyped, OnDisk, Undisturbed, backend = "local",
         NEW p \in Caller, NEW c \in Content, NEW memo \in Memo, StartPut(p, c, memo)
  PROVE  OnDisk'
<1>1. /\ put[p] = Idle /\ put'[p].pc = "asked" /\ put'[p].content = c /\ put'[p].fd = None
      /\ \A q \in Caller \ {p} : put'[q] = put[q]
  BY Starting
<1>2. \A q \in Caller : InPut(q) => put[q].content # c
  BY DEF StartPut, Undisturbed
<1>3. Alone'
  BY <1>1, <1>2 DEF OnDisk, Alone, InPut
<1>4. UNCHANGED files
  BY DEF StartPut
<1>5. Apart' /\ Complete'
  BY <1>4 DEF OnDisk, Apart, Complete, files
<1>6. \A q \in Caller : Writing(put[q])'
  BY <1>1, <1>4 DEF OnDisk, Writing, files
<1> QED
  BY <1>3, <1>5, <1>6 DEF OnDisk

LetsGo ==
    /\ UNCHANGED <<backend, object, files, told>>
    /\ put' \in [Caller -> Puts]
    /\ \A p \in Caller : put'[p] = put[p] \/ put'[p] = Idle
    /\ faults' \in Nat /\ faults <= faults'

LEMMA LettingGoKeepsDisk ==
  ASSUME StoreTyped, OnDisk, LetsGo
  PROVE  OnDisk'
<1>1. Alone'
  BY DEF LetsGo, OnDisk, Alone, InPut, Idle
<1>2. Apart' /\ Complete'
  BY DEF LetsGo, OnDisk, Apart, Complete, files
<1>3. \A q \in Caller : Writing(put[q])'
  BY DEF LetsGo, OnDisk, Writing, files, Idle
<1> QED
  BY <1>1, <1>2, <1>3 DEF OnDisk
-----------------------------------------------------------------------------
(* What both backends keep, and how far a step goes. *)

Disk    == backend = "local" => OnDisk
Told    == told \subseteq Stored /\ \A p \in Caller : At(p, "stored") => put[p].content \in told
Blamed  == \A p \in Caller : /\ At(p, "unsure") => put[p].content \in object \/ faults > 0
                             /\ At(p, "failed") => faults > 0
StoreInv == StoreTyped /\ Disk /\ Told /\ Blamed

Grows ==
    \/ UNCHANGED <<Stored, told>>
    \/ \E c \in Content : \/ Stored' = Stored \cup {c} /\ told' \in {told, told \cup {c}}
                          \/ c \in Stored /\ Stored' = Stored /\ told' = told \cup {c}

LEMMA StoredOnDisk ==
  ASSUME OnDisk, backend = "local"
  PROVE  Stored = {c \in Content : final[c] # None}
  BY DEF Stored, OnDisk, Complete

(* The callers of a step that moves one Put. *)
LEMMA OneToldMoves ==
  ASSUME StoreInv, Grows, NEW p \in Caller, \A q \in Caller \ {p} : put'[q] = put[q],
         put'[p].pc = "stored" => put'[p].content \in told',
         told' \subseteq Stored'
  PROVE  Told'
<1>1. told \subseteq told'
  BY DEF Grows
<1> QED
  BY <1>1 DEF StoreInv, Told, At

LEMMA OneBlamedMoves ==
  ASSUME StoreInv, NEW p \in Caller, \A q \in Caller \ {p} : put'[q] = put[q],
         object \subseteq object', faults' \in Nat, faults <= faults',
         put'[p].pc = "unsure" => put'[p].content \in object' \/ faults' > 0,
         put'[p].pc = "failed" => faults' > 0
  PROVE  Blamed'
<1>1. faults \in Nat
  BY DEF StoreInv, StoreTyped
<1>2. faults > 0 => faults' > 0
  BY <1>1
<1> QED
  BY <1>2 DEF StoreInv, Blamed, At
-----------------------------------------------------------------------------
(* Every step of a Put keeps what the store promises. *)

LEMMA SameFiles ==
  ASSUME UNCHANGED <<backend, object, final, written>>
  PROVE  Stored' = Stored
  BY DEF Stored

LEMMA StartKeeps ==
  ASSUME StoreInv, Undisturbed,
         NEW p \in Caller, NEW c \in Content, NEW memo \in Memo, StartPut(p, c, memo)
  PROVE  StoreInv' /\ UNCHANGED <<Stored, told>>
<1>1. /\ put' \in [Caller -> Puts] /\ put'[p].pc = "asked"
      /\ \A q \in Caller \ {p} : put'[q] = put[q]
  BY Starting DEF StoreInv
<1>2. UNCHANGED <<backend, object, final, temp, written, told, faults>>
  BY DEF StartPut, files
<1>3. UNCHANGED <<Stored, told>>
  BY <1>2, SameFiles
<1>4. StoreTyped'
  BY <1>1, <1>2 DEF StoreInv, StoreTyped
<1>5. Disk'
  BY <1>2, StartKeepsDisk DEF StoreInv, Disk
<1>6. Told'
  BY <1>1, <1>3 DEF StoreInv, Told, At
<1>7. Blamed'
  BY <1>1, <1>2 DEF StoreInv, Blamed, At
<1> QED
  BY <1>3, <1>4, <1>5, <1>6, <1>7 DEF StoreInv

LEMMA LettingGoKeeps ==
  ASSUME StoreInv, LetsGo
  PROVE  StoreInv' /\ UNCHANGED <<Stored, told>>
<1>1. UNCHANGED <<backend, object, final, temp, written, told>>
  BY DEF LetsGo, files
<1>2. UNCHANGED <<Stored, told>>
  BY <1>1, SameFiles
<1>3. StoreTyped'
  BY <1>1 DEF StoreInv, StoreTyped, LetsGo
<1>4. Disk'
  BY <1>1, LettingGoKeepsDisk DEF StoreInv, Disk
<1>5. Told'
  BY <1>2 DEF StoreInv, Told, At, LetsGo, Idle
<1>6. Blamed'
  <2>1. faults > 0 => faults' > 0
    BY DEF StoreInv, StoreTyped, LetsGo
  <2> QED
    BY <1>1, <2>1 DEF StoreInv, Blamed, At, LetsGo, Idle
<1> QED
  BY <1>2, <1>3, <1>4, <1>5, <1>6 DEF StoreInv

(* A step after which the Put of p stands elsewhere and the files are as   *)
(* they were.                                                              *)
LEMMA MoveKeeps ==
  ASSUME StoreInv, NEW p \in Caller, InPut(p), NEW pc \in Pc, GoesTo(p, pc),
         UNCHANGED <<backend, object, files>>,
         faults' \in Nat, faults <= faults',
         \/ pc = "stored" /\ put[p].content \in Stored /\ told' = told \cup {put[p].content}
         \/ pc # "stored" /\ told' = told,
         pc = "unsure" => put[p].content \in object \/ faults' > 0,
         pc = "failed" => faults' > 0,
         backend = "local" => pc \in {"stored", "failed"} \/ (put[p].pc = "asked" /\ pc = "absent")
  PROVE  StoreInv' /\ Grows
<1>1. put[p] # Idle /\ put[p].content \in Content
  BY InPutFacts DEF StoreInv
<1>2. /\ put' \in [Caller -> Puts] /\ put'[p].pc = pc
      /\ put'[p].content = put[p].content /\ put'[p].fd = put[p].fd
      /\ \A q \in Caller \ {p} : put'[q] = put[q]
  BY <1>1, Going DEF StoreInv
<1>3. Stored' = Stored
  BY SameFiles DEF files
<1>4. Grows
  BY <1>1, <1>3 DEF Grows
<1>5. StoreTyped'
  BY <1>1, <1>2 DEF StoreInv, StoreTyped, files
<1>6. Disk'
  BY <1>2, MoveKeepsDisk DEF StoreInv, Disk
<1>7. Told'
  BY <1>1, <1>2, <1>3, <1>4, OneToldMoves DEF StoreInv, Told
<1>8. Blamed'
  BY <1>2, OneBlamedMoves
<1> QED
  BY <1>4, <1>5, <1>6, <1>7, <1>8 DEF StoreInv

LEMMA StatKeeps ==
  ASSUME StoreInv, NEW p \in Caller, Stat(p)
  PROVE  StoreInv' /\ Grows
<1>1. backend = "local" /\ put[p].pc = "asked" /\ UNCHANGED <<backend, object, files, faults>>
  BY DEF Stat, At
<1>2. InPut(p) /\ put[p].content \in Content
  BY <1>1, InPutFacts DEF StoreInv
<1>3. faults' \in Nat /\ faults <= faults'
  BY <1>1 DEF StoreInv, StoreTyped
<1>4. CASE final[put[p].content] # None
  <2>1. put[p].content \in Stored
    BY <1>1, <1>2, <1>4, StoredOnDisk DEF StoreInv, Disk
  <2>2. "stored" \in Pc /\ GoesTo(p, "stored") /\ told' = told \cup {put[p].content}
    BY <1>4 DEF Stat, Return, Pc
  <2> QED
    BY <1>1, <1>2, <1>3, <2>1, <2>2, MoveKeeps
<1>5. CASE final[put[p].content] = None
  <2>1. "absent" \in Pc /\ GoesTo(p, "absent") /\ told' = told
    BY <1>5 DEF Stat, Pc
  <2> QED
    BY <1>1, <1>2, <1>3, <2>1, MoveKeeps
<1> QED
  BY <1>4, <1>5

LEMMA OpenKeeps ==
  ASSUME StoreInv, NEW p \in Caller, OpenTemp(p)
  PROVE  StoreInv' /\ Grows
<1>1. backend = "local" /\ put[p].pc = "absent" /\ UNCHANGED <<backend, object, faults>>
  BY DEF OpenTemp, At
<1>2. /\ StoreTyped' /\ OnDisk' /\ UNCHANGED <<final, told>>
  BY <1>1, OpenKeepsDisk DEF StoreInv, Disk
<1>3. Stored' = Stored
  BY <1>1, <1>2, StoredOnDisk, StoredOnDisk DEF StoreInv, Disk, Stored, OnDisk, Complete
<1>4. Grows
  BY <1>2, <1>3 DEF Grows
<1>5. put'[p].pc = "open" /\ \A q \in Caller \ {p} : put'[q] = put[q]
  <2>1. put \in [Caller -> Puts] /\ "pc" \in DOMAIN put[p]
    BY <1>1, PutFacts DEF StoreInv, StoreTyped, Puts, Idle
  <2> QED
    BY <2>1 DEF OpenTemp
<1>6. Told'
  BY <1>2, <1>3, <1>4, <1>5, OneToldMoves DEF StoreInv, Told
<1>7. Blamed'
  BY <1>1, <1>5, OneBlamedMoves DEF StoreInv, StoreTyped
<1> QED
  BY <1>1, <1>2, <1>4, <1>6, <1>7 DEF StoreInv, Disk

LEMMA WriteKeeps ==
  ASSUME StoreInv, NEW p \in Caller, WritePart(p)
  PROVE  StoreInv' /\ Grows
<1>1. /\ backend = "local" /\ put[p].pc \in {"open", "half"}
      /\ UNCHANGED <<backend, object, faults>>
  BY DEF WritePart, At
<1>2. StoreTyped' /\ OnDisk' /\ UNCHANGED <<final, told>>
  BY <1>1, WriteKeepsDisk DEF StoreInv, Disk
<1>3. Stored' = Stored
  BY <1>1, <1>2 DEF StoreInv, Disk, Stored, OnDisk, Complete
<1>4. Grows
  BY <1>2, <1>3 DEF Grows
<1>5. put'[p].pc \in {"half", "written"} /\ \A q \in Caller \ {p} : put'[q] = put[q]
  <2>1. put[p] # Idle /\ "half" \in Pc /\ "written" \in Pc
    BY <1>1 DEF Idle, Pc
  <2> QED
    BY <2>1, Going DEF StoreInv, WritePart
<1>6. Told'
  BY <1>2, <1>3, <1>4, <1>5, OneToldMoves DEF StoreInv, Told
<1>7. Blamed'
  BY <1>1, <1>5, OneBlamedMoves DEF StoreInv, StoreTyped
<1> QED
  BY <1>1, <1>2, <1>4, <1>6, <1>7 DEF StoreInv, Disk

LEMMA RenameKeeps ==
  ASSUME StoreInv, NEW p \in Caller, Rename(p)
  PROVE  StoreInv' /\ Grows
<1>1. backend = "local"
  BY DEF Rename
<1> DEFINE c == put[p].content
<1>2. /\ StoreTyped' /\ OnDisk' /\ put'[p].pc = "stored" /\ put'[p].content = c
      /\ \A q \in Caller \ {p} : put'[q] = put[q]
      /\ c \in Content /\ UNCHANGED <<backend, object, faults>> /\ told' = told \cup {c}
      /\ {d \in Content : final'[d] # None} = {d \in Content : final[d] # None} \cup {c}
  BY <1>1, RenameKeepsDisk DEF StoreInv, Disk
<1>3. Stored' = {d \in Content : final'[d] # None}
  BY <1>1, <1>2 DEF Stored, OnDisk, Complete
<1>4. Stored' = Stored \cup {c}
  BY <1>1, <1>2, <1>3, StoredOnDisk DEF StoreInv, Disk
<1> HIDE DEF c
<1>5. Grows
  BY <1>2, <1>4 DEF Grows
<1>6. Told'
  BY <1>2, <1>4, <1>5, OneToldMoves DEF StoreInv, Told
<1>7. Blamed'
  BY <1>2, OneBlamedMoves DEF StoreInv, StoreTyped
<1> QED
  BY <1>1, <1>2, <1>5, <1>6, <1>7 DEF StoreInv, Disk

LEMMA Faulted ==
  ASSUME StoreInv, Fault
  PROVE  faults' \in Nat /\ faults <= faults' /\ faults' > 0
  BY DEF StoreInv, StoreTyped, Fault

(* A caller asks the bucket; the answer may be an error. *)
LEMMA AskKeeps ==
  ASSUME StoreInv, NEW p \in Caller, Probe(p) \/ ProbeAgain(p)
  PROVE  StoreInv' /\ Grows
<1>1. /\ backend = "gcs" /\ put[p].pc \in {"asked", "unsure"} /\ UNCHANGED <<backend, object, files>>
  BY DEF Probe, ProbeAgain, At
<1>2. InPut(p) /\ put[p].content \in Content /\ Stored = object
  BY <1>1, InPutFacts DEF StoreInv, Stored
<1>3. CASE put[p].content \in object /\ Return(p) /\ UNCHANGED faults
  BY <1>1, <1>2, <1>3, MoveKeeps DEF Return, Pc, StoreInv, StoreTyped
<1>4. CASE put[p].content \notin object /\ GoesTo(p, "absent") /\ UNCHANGED <<told, faults>>
  BY <1>1, <1>2, <1>4, MoveKeeps DEF Pc, StoreInv, StoreTyped
<1>5. CASE put[p].content \notin object /\ put[p].pc = "unsure" /\ GoesTo(p, "failed")
           /\ UNCHANGED <<told, faults>>
  <2>1. faults > 0
    BY <1>5 DEF StoreInv, Blamed, At
  <2> QED
    BY <1>1, <1>2, <1>5, <2>1, MoveKeeps DEF Pc, StoreInv, StoreTyped
<1>6. CASE Fault /\ GoesTo(p, "failed") /\ UNCHANGED told
  BY <1>1, <1>2, <1>6, Faulted, MoveKeeps DEF Pc
<1> QED
  BY <1>3, <1>4, <1>5, <1>6 DEF Probe, ProbeAgain, At

LEMMA ConditionalWriteKeeps ==
  ASSUME StoreInv, NEW p \in Caller, ConditionalWrite(p)
  PROVE  StoreInv' /\ Grows
<1> DEFINE c == put[p].content
<1>1. backend = "gcs" /\ put[p].pc = "absent" /\ UNCHANGED <<backend, files>>
  BY DEF ConditionalWrite, At
<1>2. InPut(p) /\ put[p] # Idle /\ c \in Content
  BY <1>1, InPutFacts DEF StoreInv
<1>3. PICK pc \in {"stored", "unsure", "failed"} :
        /\ GoesTo(p, pc)
        /\ pc = "stored" => object' = object \cup {c} /\ told' = told \cup {c}
        /\ pc # "stored" => object' \in {object, object \cup {c}} /\ told' = told
        /\ faults' \in Nat /\ faults <= faults'
        /\ pc = "unsure" => c \in object' \/ faults' > 0
        /\ pc = "failed" => faults' > 0
  <2>1. CASE /\ c \notin object
             /\ object' = object \cup {c}
             /\ Return(p)
             /\ UNCHANGED faults
    BY <2>1 DEF Return, StoreInv, StoreTyped
  <2>2. CASE /\ c \in object
             /\ GoesTo(p, "unsure")
             /\ UNCHANGED <<object, told, faults>>
    BY <2>2 DEF StoreInv, StoreTyped
  <2>3. CASE /\ Fault
             /\ object' \in {object, object \cup {c}}
             /\ GoesTo(p, "unsure") \/ GoesTo(p, "failed")
             /\ UNCHANGED told
    BY <2>3, Faulted
  <2> QED
    BY <2>1, <2>2, <2>3 DEF ConditionalWrite
<1>4. /\ put' \in [Caller -> Puts] /\ put'[p].pc = pc /\ put'[p].content = c
      /\ \A q \in Caller \ {p} : put'[q] = put[q]
  BY <1>2, <1>3, Going DEF StoreInv, Pc
<1> HIDE DEF c
<1>5. Stored = object /\ Stored' = object'
  BY <1>1 DEF Stored
<1>6. Grows
  BY <1>2, <1>3, <1>5 DEF Grows
<1>7. StoreTyped'
  BY <1>1, <1>2, <1>3, <1>4 DEF StoreInv, StoreTyped, files
<1>8. Told'
  BY <1>3, <1>4, <1>5, <1>6, OneToldMoves DEF StoreInv, Told
<1>9. Blamed'
  BY <1>3, <1>4, OneBlamedMoves
<1> QED
  BY <1>1, <1>6, <1>7, <1>8, <1>9 DEF StoreInv, Disk

LEMMA WriteFailsKeeps ==
  ASSUME StoreInv, NEW p \in Caller, WriteFails(p)
  PROVE  StoreInv' /\ Grows
<1>1. /\ put[p].pc \in {"open", "half"} /\ Fault /\ GoesTo(p, "failed") /\ "failed" \in Pc
      /\ UNCHANGED <<backend, object, files, told>>
  BY DEF WriteFails, At, Pc
<1>2. InPut(p)
  BY <1>1, InPutFacts DEF StoreInv
<1> QED
  BY <1>1, <1>2, Faulted, MoveKeeps

LEMMA PutStepKeeps ==
  ASSUME StoreInv, NEW p \in Caller, PutStep(p)
  PROVE  StoreInv' /\ Grows
  BY StatKeeps, OpenKeeps, WriteKeeps, WriteFailsKeeps, RenameKeeps, AskKeeps,
     ConditionalWriteKeeps DEF PutStep
-----------------------------------------------------------------------------
(* The steps of the intake, seen from the store. *)

LEMMA TicketFacts ==
  ASSUME IntakeTyped, NEW t \in ticket
  PROVE  t.order \in Nat /\ t.until \in Nat
  BY DEF IntakeTyped, Tickets

LEMMA Recording ==
  ASSUME StoreTyped, NEW p \in Caller, RecordAsset(p)
  PROVE  /\ LetsGo /\ put[p] # Idle /\ At(p, "stored")
         /\ put[p].content \in Content /\ put[p].memo \in Memo
         /\ row' = row \cup {[order |-> put[p].memo.order, content |-> put[p].content,
                              by |-> put[p].memo.by]}
<1>1. /\ put[p].pc = "stored" /\ put[p] \in Puts /\ put \in [Caller -> Puts]
      /\ put' = [put EXCEPT ![p] = Idle]
      /\ UNCHANGED <<backend, object, files, told, faults>>
  BY DEF RecordAsset, At, StoreTyped
<1>2. LetsGo
  BY <1>1 DEF LetsGo, StoreTyped, Puts
<1>3. put[p] # Idle /\ put[p].content \in Content /\ put[p].memo \in Memo
  BY <1>1 DEF Puts, Idle
<1> QED
  BY <1>1, <1>2, <1>3 DEF RecordAsset

(* Whatever happens at the intake, the store sees a Put start, a Put go    *)
(* on, callers let go of their Puts, or nothing.                           *)
LEMMA StoreSteps ==
  ASSUME Typed, [Next]_vars
  PROVE  \/ \E p \in Caller, c \in Content, memo \in Memo : StartPut(p, c, memo)
         \/ \E p \in Caller : PutStep(p)
         \/ LetsGo
<1> USE DEF Typed
<1>1. faults \in Nat /\ put \in [Caller -> Puts] /\ Idle \in Puts
  BY DEF StoreTyped, Puts
<1>2. UNCHANGED storeVars => LetsGo
  BY <1>1 DEF storeVars, files, LetsGo
<1>3. ASSUME NEW h \in Handler, CountOrders(h) PROVE LetsGo
  BY <1>2, <1>3 DEF CountOrders
<1>4. ASSUME NEW h \in Handler, InsertOrder(h) PROVE LetsGo
  BY <1>2, <1>4 DEF InsertOrder
<1>5. ASSUME NEW h \in Handler, NEW o \in 1 .. orders, CreateTicket(h, o) PROVE LetsGo
  BY <1>2, <1>5 DEF CreateTicket
<1>6. ASSUME NEW h \in Handler, NEW t \in ticket, NEW c \in Content, ReceiveUpload(h, t, c)
      PROVE  \E p \in Caller, memo \in Memo : StartPut(p, c, memo)
  <2>1. [order |-> t.order, by |-> "upload"] \in Memo
    BY TicketFacts DEF Memo, Origin
  <2>2. StartPut(h, c, [order |-> t.order, by |-> "upload"]) /\ h \in Caller
    BY <1>6 DEF ReceiveUpload, Handler
  <2> QED
    BY <2>1, <2>2
<1>7. ASSUME NEW w \in Worker, NEW o \in 1 .. orders, NEW c \in Content, DeriveArtifact(w, o, c)
      PROVE  \E p \in Caller, memo \in Memo : StartPut(p, c, memo)
  <2>1. [order |-> o, by |-> "worker"] \in Memo
    BY DEF IntakeTyped, Memo, Origin
  <2>2. StartPut(w, c, [order |-> o, by |-> "worker"]) /\ w \in Caller
    BY <1>7, WorkerAssumption DEF DeriveArtifact
  <2> QED
    BY <2>1, <2>2
<1>8. ASSUME NEW p \in Caller, RecordAsset(p) PROVE LetsGo
  BY <1>8, Recording
<1>9. ASSUME NEW p \in Caller, GiveUp(p) PROVE LetsGo
  BY <1>1, <1>9 DEF GiveUp, LetsGo
<1>10. ASSUME NEW p \in Caller, Lost(p) PROVE LetsGo
  BY <1>1, <1>10 DEF Lost, Fault, LetsGo
<1>11. ASSUME NEW ro \in BOOLEAN, Restart(ro) PROVE LetsGo
  BY <1>1, <1>11 DEF Restart, Fault, LetsGo
<1>12. Tick => LetsGo
  BY <1>2 DEF Tick
<1>13. UNCHANGED vars => LetsGo
  BY <1>2 DEF vars
<1> QED
  BY <1>3, <1>4, <1>5, <1>6, <1>7, <1>8, <1>9, <1>10, <1>11, <1>12, <1>13 DEF Next

LEMMA IntakeStaysTyped ==
  ASSUME Typed, [Next]_vars
  PROVE  IntakeTyped'
<1> USE DEF Typed
<1> SUFFICES
      /\ orders' \in Nat /\ counted' \in SUBSET Handler
      /\ ticket' \in SUBSET Tickets
      /\ row' \in SUBSET [order : Nat, content : Content, by : Origin]
      /\ readOnly' \in BOOLEAN /\ since' \in Nat /\ now' \in Nat /\ requests' \in Nat
  BY DEF IntakeTyped
<1>0. /\ orders \in Nat /\ counted \in SUBSET Handler
      /\ ticket \in SUBSET Tickets
      /\ row \in SUBSET [order : Nat, content : Content, by : Origin]
      /\ readOnly \in BOOLEAN /\ since \in Nat /\ now \in Nat /\ requests \in Nat
  BY DEF IntakeTyped
<1>1. ASSUME NEW h \in Handler, CountOrders(h) PROVE IntakeTyped'
  BY <1>0, <1>1 DEF CountOrders, NewRequest, IntakeTyped
<1>2. ASSUME NEW h \in Handler, InsertOrder(h) PROVE IntakeTyped'
  BY <1>0, <1>2 DEF InsertOrder, IntakeTyped
<1>3. ASSUME NEW h \in Handler, NEW o \in 1 .. orders, CreateTicket(h, o) PROVE IntakeTyped'
  <2>1. [order |-> o, until |-> now + TicketTTL] \in Tickets
    BY <1>0, LimitAssumption DEF Tickets
  <2>2. ticket' \in SUBSET Tickets
    BY <1>0, <1>3, <2>1 DEF CreateTicket
  <2> QED
    BY <1>0, <1>3, <2>2 DEF CreateTicket, NewRequest, IntakeTyped
<1>4. ASSUME NEW h \in Handler, NEW t \in ticket, NEW c \in Content, ReceiveUpload(h, t, c)
      PROVE  IntakeTyped'
  BY <1>0, <1>4 DEF ReceiveUpload, NewRequest, IntakeTyped
<1>5. ASSUME NEW w \in Worker, NEW o \in 1 .. orders, NEW c \in Content, DeriveArtifact(w, o, c)
      PROVE  IntakeTyped'
  BY <1>0, <1>5 DEF DeriveArtifact, NewRequest, IntakeTyped
<1>6. ASSUME NEW p \in Caller, RecordAsset(p) PROVE IntakeTyped'
  <2>1. PICK r : r = [order |-> put[p].memo.order, content |-> put[p].content,
                      by |-> put[p].memo.by]
    OBVIOUS
  <2>2. r \in [order : Nat, content : Content, by : Origin] /\ row' = row \cup {r}
    BY <1>6, <2>1, Recording DEF Memo
  <2>3. row' \in SUBSET [order : Nat, content : Content, by : Origin]
    BY <1>0, <2>2
  <2> QED
    BY <1>0, <1>6, <2>3 DEF RecordAsset, IntakeTyped
<1>7. ASSUME UNCHANGED intakeVars PROVE IntakeTyped'
  BY <1>0, <1>7 DEF intakeVars, IntakeTyped
<1>8. ASSUME NEW ro \in BOOLEAN, Restart(ro) PROVE IntakeTyped'
  BY <1>0, <1>8 DEF Restart, IntakeTyped
<1>9. Tick => IntakeTyped'
  BY <1>0 DEF Tick, IntakeTyped
<1>10. \A p \in Caller : GiveUp(p) => UNCHANGED intakeVars
  BY DEF GiveUp
<1>11. UNCHANGED vars => UNCHANGED intakeVars
  BY DEF vars
<1>12. IntakeTyped'
  BY <1>1, <1>2, <1>3, <1>4, <1>5, <1>6, <1>7, <1>8, <1>9, <1>10, <1>11 DEF Next
<1> QED
  BY <1>12 DEF IntakeTyped

LEMMA StartsTyped ==
  ASSUME Init
  PROVE  Typed
<1>1. StoreTyped
  BY BackendAssumption DEF Init, StoreInit, StoreTyped, Puts, Handle
<1> QED
  BY <1>1 DEF Init, Typed, IntakeTyped

LEMMA StartsKept ==
  ASSUME Init
  PROVE  StoreInv /\ Stored = {} /\ told = {}
<1>1. StoreTyped
  BY StartsTyped DEF Typed
<1>2. /\ \A p \in Caller : put[p].pc = "idle" /\ ~InPut(p)
      /\ \A c \in Content : final[c] = None /\ temp[c] = None
      /\ object = {} /\ told = {}
  BY DEF Init, StoreInit, Idle, InPut
<1>3. Stored = {}
  BY <1>2 DEF Stored
<1>4. Disk
  BY <1>2 DEF Disk, OnDisk, Alone, Apart, Complete, Writing
<1>5. Told /\ Blamed
  BY <1>2 DEF Told, Blamed, At
<1> QED
  BY <1>1, <1>2, <1>3, <1>4, <1>5 DEF StoreInv
-----------------------------------------------------------------------------
(* The types, with or without overlapping Puts: a Put holds no file before *)
(* it opens one.                                                           *)

Closed == \A p \in Caller : put[p].pc \in {"asked", "absent"} => put[p].fd = None

LEMMA GoingStaysTyped ==
  ASSUME StoreTyped, Closed, NEW p \in Caller, put[p] # Idle, NEW pc \in Pc, GoesTo(p, pc),
         pc # "asked", pc = "absent" => put[p].pc = "asked",
         backend' = backend, object' \in SUBSET Content,
         final' \in [Content -> Handle], temp' \in [Content -> Handle],
         written' \in [Inode -> SUBSET Part], told' \in SUBSET Content, faults' \in Nat
  PROVE  StoreTyped' /\ Closed'
<1>1. /\ put' \in [Caller -> Puts] /\ put'[p].pc = pc /\ put'[p].fd = put[p].fd
      /\ \A q \in Caller \ {p} : put'[q] = put[q]
  BY Going
<1>2. StoreTyped'
  BY <1>1 DEF StoreTyped
<1>3. Closed'
  BY <1>1 DEF Closed
<1> QED
  BY <1>2, <1>3

LEMMA PutStepStaysTyped ==
  ASSUME StoreTyped, Closed, NEW p \in Caller, PutStep(p)
  PROVE  StoreTyped' /\ Closed' /\ ~At(p, "idle") /\ \A q \in Caller \ {p} : put'[q] = put[q]
<1> USE DEF At
<1>0. /\ backend \in {"local", "gcs"} /\ object \in SUBSET Content
      /\ final \in [Content -> Handle] /\ temp \in [Content -> Handle]
      /\ written \in [Inode -> SUBSET Part] /\ told \in SUBSET Content /\ faults \in Nat
      /\ put \in [Caller -> Puts]
  BY DEF StoreTyped
<1>1. ~At(p, "idle")
  BY DEF PutStep, Stat, OpenTemp, WritePart, WriteFails, Rename, Probe, ConditionalWrite, ProbeAgain
<1>2. put[p] # Idle /\ put[p].content \in Content
  BY <1>0, <1>1, PutFacts
<1>3. \A q \in Caller \ {p} : put'[q] = put[q]
  BY <1>0 DEF PutStep, Stat, OpenTemp, WritePart, WriteFails, Rename, Probe, ConditionalWrite,
              ProbeAgain, Return, GoesTo
<1>4. told \cup {put[p].content} \in SUBSET Content /\ object \cup {put[p].content} \in SUBSET Content
  BY <1>0, <1>2
<1>5. Fault => faults' \in Nat
  BY <1>0 DEF Fault
<1> USE DEF Pc
<1>6. CASE Stat(p)
  BY <1>0, <1>1, <1>2, <1>3, <1>4, <1>6, GoingStaysTyped DEF Stat, Return, files
<1>7. CASE OpenTemp(p)
  <2>1. put[p].fd = None
    BY <1>7 DEF OpenTemp, Closed
  <2>2. PICK i \in Inode :
          /\ temp' = [temp EXCEPT ![put[p].content] = i] /\ written' = [written EXCEPT ![i] = {}]
          /\ put' = [put EXCEPT ![p].pc = "open", ![p].fd = i]
    <3>1. (CHOOSE u \in Unused : TRUE) \in Unused /\ Unused \subseteq Inode
      BY <2>1, InodeLeft DEF Unused
    <3>2. temp[put[p].content] # None => temp[put[p].content] \in Inode
      BY <1>0, <1>2 DEF Handle
    <3> QED
      BY <1>7, <3>1, <3>2 DEF OpenTemp
  <2>3. put' \in [Caller -> Puts] /\ put'[p].pc = "open"
    BY <1>2, <2>2, Opening
  <2>4. temp' \in [Content -> Handle] /\ written' \in [Inode -> SUBSET Part]
    BY <1>0, <2>2 DEF Handle
  <2>5. StoreTyped'
    BY <1>0, <1>7, <2>3, <2>4 DEF OpenTemp, StoreTyped
  <2>6. Closed'
    BY <1>3, <2>3 DEF Closed
  <2> QED
    BY <1>1, <1>3, <2>5, <2>6
<1>8. CASE WritePart(p)
  <2>1. written' \in [Inode -> SUBSET Part]
    BY <1>0, <1>8 DEF WritePart, Part
  <2> QED
    BY <1>0, <1>1, <1>2, <1>3, <1>8, <2>1, GoingStaysTyped DEF WritePart
<1>9. CASE WriteFails(p)
  BY <1>0, <1>1, <1>2, <1>3, <1>5, <1>9, GoingStaysTyped DEF WriteFails, files
<1>10. CASE Rename(p)
  <2>1. final' \in [Content -> Handle] /\ temp' \in [Content -> Handle] /\ written' = written
    BY <1>0, <1>2, <1>10 DEF Rename, Handle, files
  <2> QED
    BY <1>0, <1>1, <1>2, <1>3, <1>4, <1>10, <2>1, GoingStaysTyped DEF Rename, Return
<1>11. CASE Probe(p)
  BY <1>0, <1>1, <1>2, <1>3, <1>4, <1>5, <1>11, GoingStaysTyped DEF Probe, Return, files
<1>12. CASE ConditionalWrite(p)
  BY <1>0, <1>1, <1>2, <1>3, <1>4, <1>5, <1>12, GoingStaysTyped DEF ConditionalWrite, Return, files
<1>13. CASE ProbeAgain(p)
  BY <1>0, <1>1, <1>2, <1>3, <1>4, <1>5, <1>13, GoingStaysTyped DEF ProbeAgain, Return, files
<1> QED
  BY <1>1, <1>3, <1>6, <1>7, <1>8, <1>9, <1>10, <1>11, <1>12, <1>13 DEF PutStep

LEMMA StoreStaysTyped ==
  ASSUME Typed, Closed, [Next]_vars
  PROVE  StoreTyped' /\ Closed'
<1>1. ASSUME NEW p \in Caller, NEW c \in Content, NEW memo \in Memo, StartPut(p, c, memo)
      PROVE  StoreTyped' /\ Closed'
  <2>1. /\ put' \in [Caller -> Puts] /\ put'[p].pc = "asked" /\ put'[p].fd = None
        /\ \A q \in Caller \ {p} : put'[q] = put[q]
    BY <1>1, Starting DEF Typed
  <2>2. StoreTyped'
    BY <1>1, <2>1 DEF Typed, StoreTyped, StartPut, files
  <2>3. Closed'
    BY <2>1 DEF Closed
  <2> QED
    BY <2>2, <2>3
<1>2. LetsGo => StoreTyped'
  BY DEF LetsGo, Typed, StoreTyped, files
<1>3. LetsGo => Closed'
  BY DEF LetsGo, Closed, Idle
<1> QED
  BY <1>1, <1>2, <1>3, StoreSteps, PutStepStaysTyped DEF Typed

LEMMA AlwaysTyped == Spec => [](Typed /\ Closed)
<1>1. Init => Typed /\ Closed
  BY StartsTyped DEF Init, StoreInit, Closed, Idle
<1>2. (Typed /\ Closed) /\ [Next]_vars => (Typed /\ Closed)'
  BY StoreStaysTyped, IntakeStaysTyped DEF Typed
<1> QED
  BY <1>1, <1>2, PTL DEF Spec
-----------------------------------------------------------------------------
(* The backend is fixed when the processes start. *)
LEMMA BackendStays ==
  ASSUME Typed, [Next]_vars
  PROVE  backend' = backend
<1>1. ASSUME NEW p \in Caller, PutStep(p)
      PROVE  backend' = backend
  BY <1>1 DEF PutStep, Stat, OpenTemp, WritePart, WriteFails, Rename, Probe, ConditionalWrite, ProbeAgain
<1>2. ASSUME NEW p \in Caller, NEW c \in Content, NEW memo \in Memo, StartPut(p, c, memo)
      PROVE  backend' = backend
  BY <1>2 DEF StartPut
<1> QED
  BY <1>1, <1>2, StoreSteps DEF LetsGo

(* As long as no two Puts of one content overlap on the local disk, the    *)
(* store keeps the promise of interface.go, step for step: keys are told   *)
(* of complete bytes only, and nothing stored is lost again, on either     *)
(* backend, whoever is lost and whichever request fails.                   *)
THEOREM StoreKeepsItsPromise == Spec /\ Undisturbed => StoreSpec
<1> USE DEF Promise!Init, Promise!Next, Promise!Store, Promise!Tell, Promise!vars
<1>1. Init => StoreInv /\ IntakeTyped /\ Promise!Init
  BY StartsKept, StartsTyped DEF Typed
<1>2. StoreInv /\ IntakeTyped /\ Undisturbed /\ [Next]_vars
      => (StoreInv /\ IntakeTyped /\ Undisturbed)' /\ [Promise!Next]_Promise!vars
  <2> SUFFICES ASSUME StoreInv, IntakeTyped, Undisturbed, [Next]_vars
               PROVE  (StoreInv /\ IntakeTyped /\ Undisturbed)' /\ [Promise!Next]_Promise!vars
    OBVIOUS
  <2>1. Typed
    BY DEF Typed, StoreInv
  <2>2. StoreInv' /\ Grows
    BY <2>1, StoreSteps, StartKeeps, PutStepKeeps, LettingGoKeeps DEF Grows
  <2>3. [Promise!Next]_Promise!vars
    BY <2>2 DEF Grows
  <2> QED
    BY <2>1, <2>2, <2>3, IntakeStaysTyped, BackendStays DEF Undisturbed
<1> QED
  BY <1>1, <1>2, PTL DEF Spec, StoreSpec, Promise!Spec

(* The keys of the rows were returned by a Put before. *)
RowsTold == \A r \in row : r.content \in told

IInv == StoreInv /\ IntakeTyped /\ RowsTold /\ Undisturbed

LEMMA InductiveUnlessOverlap == Spec /\ Undisturbed => []IInv
<1>1. Init /\ Undisturbed => IInv
  BY StartsKept, StartsTyped DEF Typed, IInv, RowsTold, Init
<1>2. IInv /\ [Next]_vars => IInv'
  <2> SUFFICES ASSUME IInv, [Next]_vars
               PROVE  IInv'
    OBVIOUS
  <2>1. Typed /\ StoreInv /\ RowsTold /\ Undisturbed
    BY DEF Typed, StoreInv, IInv
  <2>2. StoreInv' /\ Grows
    BY <2>1, StoreSteps, StartKeeps, PutStepKeeps, LettingGoKeeps DEF Grows
  <2>3. told \subseteq told'
    BY <2>2 DEF Grows
  <2>4. RowsTold'
    <3>1. ASSUME NEW p \in Caller, RecordAsset(p)
          PROVE  RowsTold'
      <4>1. put[p].content \in told
        BY <2>1, <3>1 DEF RecordAsset, StoreInv, Told
      <4>2. \A r \in row' : r \in row \/ r.content = put[p].content
        BY <2>1, <3>1, Recording DEF Typed
      <4> QED
        BY <2>1, <2>3, <4>1, <4>2 DEF RowsTold
    <3>2. row' = row => RowsTold'
      BY <2>1, <2>3 DEF RowsTold
    <3>3. (\E p \in Caller : RecordAsset(p)) \/ row' = row
      BY DEF Next, CountOrders, InsertOrder, CreateTicket, ReceiveUpload, DeriveArtifact,
             GiveUp, Restart, Tick, vars, intakeVars
    <3> QED
      BY <3>1, <3>2, <3>3
  <2> QED
    BY <2>1, <2>2, <2>4, IntakeStaysTyped, BackendStays DEF IInv, Undisturbed
<1> QED
  BY <1>1, <1>2, PTL DEF Spec

(* An assets row never names bytes that are not there, whatever is lost or *)
(* fails between the Put and the row, as long as no two Puts of one        *)
(* content overlap on the local disk (without the hypothesis the run       *)
(* Intake_local_disk shows a key returned too early).                      *)
THEOREM RowsAlwaysNameTheirBytes == Spec /\ Undisturbed => []RowsNameTheirBytes
<1>1. IInv => RowsNameTheirBytes
  BY DEF IInv, RowsTold, StoreInv, Told, RowsNameTheirBytes
<1> QED
  BY <1>1, InductiveUnlessOverlap, PTL

(* A Put fails only if a service failed: the caller that loses the race    *)
(* between the probe and the conditional write gets its key as well, and   *)
(* on the disk the temporary file is there when it is renamed.             *)
THEOREM PutsFailOnlyByFault == Spec /\ Undisturbed => []PutFailsOnlyByFault
<1>1. IInv => PutFailsOnlyByFault
  BY DEF IInv, StoreInv, Blamed, PutFailsOnlyByFault
<1> QED
  BY <1>1, InductiveUnlessOverlap, PTL
-----------------------------------------------------------------------------
(* Orders. *)

LEMMA HandlersAreFinite ==
  /\ IsFiniteSet(Handler) /\ Cardinality(Handler) \in Nat
  /\ \A S \in SUBSET Handler :
       /\ IsFiniteSet(S) /\ Cardinality(S) \in Nat /\ Cardinality(S) <= Cardinality(Handler)
<1>1. IsFiniteSet(Handler)
  BY FiniteAssumption, FS_Subset DEF Handler
<1>2. Cardinality(Handler) \in Nat
  BY <1>1, FS_CardinalityType
<1>3. ASSUME NEW S \in SUBSET Handler
      PROVE  /\ IsFiniteSet(S) /\ Cardinality(S) \in Nat /\ Cardinality(S) <= Cardinality(Handler)
  BY <1>1, FS_Subset, FS_CardinalityType
<1> QED
  BY <1>1, <1>2, <1>3

(* The demo's cap is overshot by fewer orders than the server handles      *)
(* requests at once: whoever counted below the cap stands between the      *)
(* count and the insert, and there is one request less to count with each. *)
THEOREM CapAlwaysHolds == Spec => []CapHolds
<1> DEFINE Capped == CapHolds /\ orders \in Nat /\ counted \in SUBSET Handler
<1>1. Init => Capped
  <2> SUFFICES ASSUME Init, MaxOrders > 0
               PROVE  orders + Cardinality(counted) < MaxOrders + Cardinality(Handler)
    BY DEF Init, CapHolds
  <2>1. orders = 0 /\ Cardinality(counted) = 0
    BY FS_EmptySet DEF Init
  <2>2. MaxOrders \in Nat /\ Cardinality(Handler) \in Nat
    BY LimitAssumption, HandlersAreFinite
  <2> QED
    BY <2>1, <2>2
<1>2. Capped /\ [Next]_vars => Capped'
  <2> SUFFICES ASSUME Capped, [Next]_vars
               PROVE  Capped'
    OBVIOUS
  <2>0. MaxOrders \in Nat /\ Cardinality(Handler) \in Nat /\ Cardinality(counted) \in Nat
    BY LimitAssumption, HandlersAreFinite
  <2>1. ASSUME NEW h \in Handler, CountOrders(h)
        PROVE  Capped'
    <3>1. CASE counted' = counted
      BY <2>1, <3>1 DEF CountOrders, CapHolds
    <3>2. CASE counted' # counted
      <4>1. counted' = counted \cup {h} /\ (MaxOrders = 0 \/ orders < MaxOrders) /\ orders' = orders
        BY <2>1, <3>2 DEF CountOrders
      <4>2. Cardinality(counted') \in Nat /\ Cardinality(counted') <= Cardinality(Handler)
        BY <4>1, HandlersAreFinite
      <4>3. MaxOrders > 0 => orders' + Cardinality(counted') < MaxOrders + Cardinality(Handler)
        BY <2>0, <4>1, <4>2
      <4> QED
        BY <4>1, <4>3 DEF CapHolds
    <3> QED
      BY <3>1, <3>2
  <2>2. ASSUME NEW h \in Handler, InsertOrder(h)
        PROVE  Capped'
    <3>1. orders' = orders + 1 /\ counted' = counted \ {h} /\ h \in counted
      BY <2>2 DEF InsertOrder
    <3>2. Cardinality(counted') = Cardinality(counted) - 1
      BY <3>1, HandlersAreFinite, FS_RemoveElement
    <3>3. MaxOrders > 0 => orders' + Cardinality(counted') < MaxOrders + Cardinality(Handler)
      BY <2>0, <3>1, <3>2 DEF CapHolds
    <3> QED
      BY <3>1, <3>3 DEF CapHolds
  <2>3. ASSUME NEW ro \in BOOLEAN, Restart(ro)
        PROVE  Capped'
    <3>1. orders' = orders /\ counted' = {} /\ Cardinality({}) = 0
      BY <2>3, FS_EmptySet DEF Restart
    <3>2. MaxOrders > 0 => orders' + Cardinality(counted') < MaxOrders + Cardinality(Handler)
      BY <2>0, <3>1 DEF CapHolds
    <3> QED
      BY <3>1, <3>2 DEF CapHolds
  <2>4. UNCHANGED <<orders, counted>> => Capped'
    BY DEF CapHolds
  <2>5. \/ \E h \in Handler : CountOrders(h) \/ InsertOrder(h)
        \/ \E ro \in BOOLEAN : Restart(ro)
        \/ UNCHANGED <<orders, counted>>
    BY DEF Next, CreateTicket, ReceiveUpload, DeriveArtifact, RecordAsset, GiveUp, Tick, vars,
           intakeVars
  <2> QED
    BY <2>1, <2>2, <2>3, <2>4, <2>5
<1> QED
  BY <1>1, <1>2, PTL DEF Spec
-----------------------------------------------------------------------------
(* The read-only server. *)

(* No ticket is good for longer than a ticket issued now; those from       *)
(* before the server became read-only, no longer than one issued then.     *)
Expiring ==
    /\ since <= now
    /\ \A t \in ticket : t.until <= now + TicketTTL
    /\ readOnly => counted = {} /\ \A t \in ticket : t.until <= since + TicketTTL

LEMMA ExpiringStays ==
  ASSUME Typed, Expiring, [Next]_vars
  PROVE  Expiring'
<1>0. /\ since \in Nat /\ now \in Nat /\ TicketTTL \in Nat /\ readOnly \in BOOLEAN
      /\ \A t \in ticket : t.until \in Nat
  BY LimitAssumption, TicketFacts DEF Typed, IntakeTyped
<1>1. ASSUME NEW h \in Handler, CountOrders(h) \/ InsertOrder(h)
      PROVE  Expiring'
  <2>1. UNCHANGED <<ticket, readOnly, since, now>> /\ (readOnly => counted = {} /\ counted' = {})
    BY <1>1 DEF CountOrders, InsertOrder, Writable, Expiring
  <2> QED
    BY <2>1 DEF Expiring
<1>2. ASSUME NEW h \in Handler, NEW o \in 1 .. orders, CreateTicket(h, o)
      PROVE  Expiring'
  <2>1. /\ UNCHANGED <<counted, readOnly, since, now>> /\ ~readOnly
        /\ \A t \in ticket' : t \in ticket \/ t.until = now + TicketTTL
    BY <1>2 DEF CreateTicket, Writable
  <2> QED
    BY <1>0, <2>1 DEF Expiring
<1>3. ASSUME NEW ro \in BOOLEAN, Restart(ro)
      PROVE  Expiring'
  <2>1. /\ counted' = {} /\ readOnly' = ro /\ UNCHANGED <<ticket, now>>
        /\ since' = IF ro = readOnly THEN since ELSE now
    BY <1>3 DEF Restart
  <2>2. CASE ro = readOnly
    BY <2>1, <2>2 DEF Expiring
  <2>3. CASE ro # readOnly
    BY <1>0, <2>1, <2>3 DEF Expiring
  <2> QED
    BY <2>2, <2>3
<1>4. Tick => Expiring'
  <2> SUFFICES ASSUME Tick
               PROVE  Expiring'
    OBVIOUS
  <2>1. now' = now + 1 /\ UNCHANGED <<counted, ticket, readOnly, since>>
    BY DEF Tick
  <2>2. \A t \in ticket : t.until <= now + TicketTTL => t.until <= (now + 1) + TicketTTL
    BY <1>0
  <2> QED
    BY <1>0, <2>1, <2>2 DEF Expiring
<1>5. UNCHANGED <<counted, ticket, readOnly, since, now>> => Expiring'
  BY DEF Expiring
<1>6. \/ \E h \in Handler : CountOrders(h) \/ InsertOrder(h)
      \/ \E h \in Handler, o \in 1 .. orders : CreateTicket(h, o)
      \/ \E ro \in BOOLEAN : Restart(ro)
      \/ Tick
      \/ UNCHANGED <<counted, ticket, readOnly, since, now>>
  BY DEF Next, ReceiveUpload, DeriveArtifact, RecordAsset, GiveUp, vars, intakeVars
<1> QED
  BY <1>1, <1>2, <1>3, <1>4, <1>5, <1>6

(* A handler's Put starts with an upload. *)
LEMMA HandlersPutUploads ==
  ASSUME Typed, Closed, [Next]_vars, NEW h \in Handler, At(h, "idle"), put'[h] # Idle
  PROVE  \E t \in ticket : Accepts(t)
<1>1. h \in Caller /\ h \notin Worker /\ put \in [Caller -> Puts] /\ put[h] = Idle
  BY PutFacts DEF Typed, StoreTyped, Handler, At
<1>2. ASSUME NEW w \in Worker, NEW o \in 1 .. orders, NEW c \in Content, DeriveArtifact(w, o, c)
      PROVE  FALSE
  BY <1>1, <1>2 DEF DeriveArtifact, StartPut
<1>3. ASSUME NEW p \in Caller, RecordAsset(p) \/ GiveUp(p) \/ Lost(p)
      PROVE  FALSE
  BY <1>1, <1>3 DEF RecordAsset, GiveUp, Lost
<1>4. ASSUME NEW p \in Caller, PutStep(p)
      PROVE  FALSE
  BY <1>1, <1>4, PutStepStaysTyped DEF Typed
<1>5. ASSUME NEW ro \in BOOLEAN, Restart(ro)
      PROVE  FALSE
  BY <1>1, <1>5 DEF Restart
<1>6. put' # put
  BY <1>1
<1> QED
  BY <1>2, <1>3, <1>4, <1>5, <1>6 DEF Next, CountOrders, InsertOrder, CreateTicket, ReceiveUpload,
     Tick, vars, storeVars

(* Once the server is read-only there are no further orders, and the       *)
(* uploads end with the last ticket issued before: createUpload is refused,*)
(* and the handler, which does not ask, takes no expired ticket.           *)
THEOREM ReadOnlyAlwaysDriesUp == Spec => ReadOnlyDriesUp
<1>1. Init => Expiring
  BY DEF Init, Expiring
<1>2. Typed /\ Closed /\ Expiring /\ [Next]_vars => Expiring'
  BY ExpiringStays
<1>3. Typed /\ Closed /\ Expiring /\ [Next]_vars
        => [readOnly =>
             /\ orders' = orders
             /\ \A h \in Handler :
                  (At(h, "idle") /\ put'[h] # Idle) => now <= since + TicketTTL]_vars
  <2> SUFFICES ASSUME Typed, Closed, Expiring, [Next]_vars, readOnly
               PROVE  /\ orders' = orders
                      /\ \A h \in Handler :
                           (At(h, "idle") /\ put'[h] # Idle) => now <= since + TicketTTL
    OBVIOUS
  <2>1. orders' = orders
    BY DEF Expiring, Next, CountOrders, InsertOrder, CreateTicket, ReceiveUpload, DeriveArtifact,
           RecordAsset, GiveUp, Restart, Tick, vars, intakeVars
  <2>2. ASSUME NEW h \in Handler, At(h, "idle"), put'[h] # Idle
        PROVE  now <= since + TicketTTL
    <3>1. PICK t \in ticket : now <= t.until
      BY <2>2, HandlersPutUploads DEF Accepts
    <3>2. t.until <= since + TicketTTL /\ t.until \in Nat
      BY TicketFacts DEF Expiring, Typed
    <3>3. now \in Nat /\ since \in Nat /\ TicketTTL \in Nat
      BY LimitAssumption DEF Typed, IntakeTyped
    <3> QED
      BY <3>1, <3>2, <3>3
  <2> QED
    BY <2>1, <2>2
<1> QED
  BY <1>1, <1>2, <1>3, AlwaysTyped, PTL DEF Spec, ReadOnlyDriesUp
=============================================================================

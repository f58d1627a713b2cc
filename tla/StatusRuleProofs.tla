-------------------------- MODULE StatusRuleProofs --------------------------
(***************************************************************************)
(* The pass over the findings computes the rule, for reports of any length *)
(* in any order.  The inductive invariant says what each flag of the pass  *)
(* means of the findings read so far.                                      *)
(***************************************************************************)
EXTENDS StatusRule, TLAPS

Means(s, fs) ==
    /\ s.malformed <=> \E n \in DOMAIN fs : ~Recognized(fs[n], intent)
    /\ s.review    <=> HasResult(fs, intent, "NEEDS_REVIEW")
    /\ s.input     <=> HasResult(fs, intent, "NEEDS_INPUT")
    /\ \A c \in ExpectedChecks(intent) :
         c \in s.seen <=> \E n \in DOMAIN fs : fs[n].check = c /\ Recognized(fs[n], intent)

TypeOK ==
    /\ intent \in Intent
    /\ findings \in Seq(Reported)
    /\ scan \in [seen : SUBSET CheckName, review : BOOLEAN, input : BOOLEAN, malformed : BOOLEAN]

IInv == TypeOK /\ Means(scan, findings)

(* One finding more. *)
LEMMA ReadMeans ==
  ASSUME IInv, NEW f \in Reported
  PROVE  Means(Scanned(scan, f), Append(findings, f))
<1> DEFINE fs == Append(findings, f)
           s  == Scanned(scan, f)
<1>1. /\ DOMAIN fs = DOMAIN findings \cup {Len(findings) + 1}
      /\ fs[Len(findings) + 1] = f
      /\ \A n \in DOMAIN findings : fs[n] = findings[n]
  BY DEF IInv, TypeOK
<1>2. CASE Recognized(f, intent)
  <2>1. s = [scan EXCEPT !.seen   = @ \cup {f.check},
                         !.review = @ \/ f.result = "NEEDS_REVIEW",
                         !.input  = @ \/ f.result = "NEEDS_INPUT"]
    BY <1>2 DEF Scanned, Recognized
  <2>2. /\ s.seen = scan.seen \cup {f.check}
        /\ s.malformed = scan.malformed
        /\ s.review <=> scan.review \/ f.result = "NEEDS_REVIEW"
        /\ s.input  <=> scan.input  \/ f.result = "NEEDS_INPUT"
    BY <2>1 DEF IInv, TypeOK
  <2> QED
    BY <1>1, <1>2, <2>2 DEF IInv, Means, HasResult
<1>3. CASE ~Recognized(f, intent)
  <2>1. s = [scan EXCEPT !.malformed = TRUE]
    BY <1>3 DEF Scanned, Recognized
  <2>2. s.malformed /\ s.seen = scan.seen /\ s.review = scan.review /\ s.input = scan.input
    BY <2>1 DEF IInv, TypeOK
  <2> QED
    BY <1>1, <1>3, <2>2 DEF IInv, Means, HasResult
<1> QED
  BY <1>2, <1>3

THEOREM Invariance == Spec => []IInv
<1>1. Init => IInv
  BY DEF Init, IInv, TypeOK, Means, HasResult
<1>2. IInv /\ [Next]_vars => IInv'
  <2> SUFFICES ASSUME IInv, [Next]_vars PROVE IInv'
    OBVIOUS
  <2>1. ASSUME NEW f \in Reported, Read(f) PROVE IInv'
    <3>1. findings' = Append(findings, f) /\ scan' = Scanned(scan, f) /\ intent' = intent
      BY <2>1 DEF Read
    <3>2. TypeOK'
      <4>1. findings' \in Seq(Reported)
        BY <3>1 DEF IInv, TypeOK
      <4>2. CASE Recognized(f, intent)
        <5>1. f.check \in CheckName
          BY <4>2 DEF Recognized, ExpectedChecks, CheckName
        <5>2. scan' = [scan EXCEPT !.seen   = @ \cup {f.check},
                                   !.review = @ \/ f.result = "NEEDS_REVIEW",
                                   !.input  = @ \/ f.result = "NEEDS_INPUT"]
          BY <3>1, <4>2 DEF Scanned, Recognized
        <5>3. /\ scan'.seen = scan.seen \cup {f.check}
              /\ scan'.seen \in SUBSET CheckName
          BY <5>1, <5>2 DEF IInv, TypeOK
        <5> QED
          BY <3>1, <4>1, <5>2, <5>3 DEF IInv, TypeOK
      <4>3. CASE ~Recognized(f, intent)
        <5>1. scan' = [scan EXCEPT !.malformed = TRUE]
          BY <3>1, <4>3 DEF Scanned, Recognized
        <5> QED
          BY <3>1, <4>1, <5>1 DEF IInv, TypeOK
      <4> QED
        BY <4>2, <4>3
    <3>3. Means(Scanned(scan, f), Append(findings, f))
      BY ReadMeans
    <3>4. Means(scan, findings)'
      BY <3>1, <3>3 DEF Means
    <3> QED
      BY <3>2, <3>4 DEF IInv
  <2>2. CASE UNCHANGED vars
    BY <2>2 DEF vars, IInv, TypeOK, Means
  <2> QED
    BY <2>1, <2>2 DEF Next
<1> QED
  BY <1>1, <1>2, PTL DEF Spec

(* decideArtworkStatus computes DecideArtworkStatus of every report.       *)
THEOREM PassIsTheRule == Spec => []PassComputesRule
<1>1. IInv => PassComputesRule
  <2> SUFFICES ASSUME IInv PROVE PassComputesRule
    OBVIOUS
  <2>1. scan.malformed \/ ExpectedChecks(intent) \ scan.seen # {} <=> Malformed(findings, intent)
    BY DEF IInv, Means, Malformed
  <2> QED
    BY <2>1 DEF IInv, Means, PassComputesRule, Verdict, DecideArtworkStatus
<1> QED
  BY <1>1, Invariance, PTL

(* An empty, partial or malformed report never resolves a case.            *)
THEOREM ResolvedNeedsAll == Spec => []ResolvedIsComplete
<1>1. IInv => ResolvedIsComplete
  <2> SUFFICES ASSUME IInv, Verdict = "RESOLVED" PROVE
         /\ \A c \in ExpectedChecks(intent) : \E n \in DOMAIN findings : findings[n].check = c
         /\ \A n \in DOMAIN findings : findings[n].result \in {"PASS", "WARNING"}
    BY DEF ResolvedIsComplete
  <2>1. /\ ~scan.malformed /\ ~scan.review /\ ~scan.input
        /\ ExpectedChecks(intent) \subseteq scan.seen
    BY DEF Verdict
  <2> QED
    BY <2>1 DEF IInv, Means, HasResult, Recognized, Result
<1> QED
  BY <1>1, Invariance, PTL

(* A complete report never gets a milder verdict by being continued.       *)
THEOREM BlockersAreFinal == Spec => BlockersStick
<1>1. IInv /\ [Next]_vars =>
        [ExpectedChecks(intent) \subseteq scan.seen => Severity(Verdict') >= Severity(Verdict)]_vars
  <2> SUFFICES ASSUME IInv, Next, ExpectedChecks(intent) \subseteq scan.seen
               PROVE  Severity(Verdict') >= Severity(Verdict)
    OBVIOUS
  <2>1. PICK f \in Reported : scan' = Scanned(scan, f) /\ intent' = intent
    BY DEF Next, Read
  <2>2. /\ scan.seen \subseteq scan'.seen
        /\ scan.malformed => scan'.malformed
        /\ scan.review => scan'.review
        /\ scan.input => scan'.input
    BY <2>1 DEF IInv, TypeOK, Scanned
  <2>3. ExpectedChecks(intent) \subseteq scan'.seen /\ ExpectedChecks(intent)' = ExpectedChecks(intent)
    BY <2>1, <2>2 DEF ExpectedChecks
  <2>4. \/ Verdict' = Verdict
        \/ Verdict = "RESOLVED" /\ Verdict' \in {"BLOCKED", "NEEDS_REVIEW"}
        \/ Verdict = "BLOCKED" /\ Verdict' = "NEEDS_REVIEW"
    BY <2>2, <2>3 DEF Verdict
  <2>5. Verdict \in {"RESOLVED", "BLOCKED", "NEEDS_REVIEW"}
    BY DEF Verdict
  <2> QED
    BY <2>4, <2>5 DEF Severity
<1> QED
  BY <1>1, Invariance, PTL DEF Spec, BlockersStick
=============================================================================

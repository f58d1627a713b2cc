----------------------------- MODULE StatusRule -----------------------------
(***************************************************************************)
(* decideArtworkStatus as worker.go runs it: one pass over the findings    *)
(* that sets three flags and remembers the checks it has seen, and a       *)
(* verdict at the end.  The findings come from another process, so any     *)
(* list may arrive: checks nobody asked for, results outside the           *)
(* vocabulary, checks missing or reported twice, in any order.             *)
(*                                                                         *)
(* ArtworkCase uses the rule the pass computes, Checks!DecideArtworkStatus. *)
(***************************************************************************)
EXTENDS Checks

CONSTANTS OtherCheck, OtherResult,   \* words outside the vocabulary
          MaxFindings                \* bound: length of the report

ASSUME MaxFindingsAssumption == MaxFindings \in Nat

VARIABLES intent,    \* of the order
          findings,  \* the report as read so far
          scan       \* the pass's local variables

vars == <<intent, findings, scan>>

Reported == [check : CheckName \cup {OtherCheck}, result : Result \cup {OtherResult}]

Init == /\ intent \in Intent
        /\ findings = <<>>
        /\ scan = [seen |-> {}, review |-> FALSE, input |-> FALSE, malformed |-> FALSE]

(* The body of the loop. *)
Bug_ScannedMarksUnknownSeen(s, f) ==
    IF f.check \notin ExpectedChecks(intent) THEN [s EXCEPT !.malformed = TRUE]
    ELSE [s EXCEPT !.seen      = @ \cup {f.check},
                   !.review    = @ \/ f.result = "NEEDS_REVIEW",
                   !.input     = @ \/ f.result = "NEEDS_INPUT"]
Bug_ScannedLastWins(s, f) ==
    IF f.check \notin ExpectedChecks(intent) \/ f.result \notin Result
    THEN [s EXCEPT !.malformed = TRUE]
    ELSE [s EXCEPT !.seen   = @ \cup {f.check},
                   !.review = f.result = "NEEDS_REVIEW",
                   !.input  = f.result = "NEEDS_INPUT"]
Scanned(s, f) ==
    IF f.check \notin ExpectedChecks(intent) \/ f.result \notin Result
    THEN [s EXCEPT !.malformed = TRUE]
    ELSE [s EXCEPT !.seen   = @ \cup {f.check},
                   !.review = @ \/ f.result = "NEEDS_REVIEW",
                   !.input  = @ \/ f.result = "NEEDS_INPUT"]

Read(f) ==
    /\ Len(findings) < MaxFindings
    /\ findings' = Append(findings, f)
    /\ scan' = Scanned(scan, f)
    /\ UNCHANGED intent

Next == \E f \in Reported : Read(f)

Spec == Init /\ [][Next]_vars

(* What follows the loop, had the report ended here. *)
Verdict ==
    IF scan.malformed \/ ExpectedChecks(intent) \ scan.seen # {} \/ scan.review
    THEN "NEEDS_REVIEW"
    ELSE IF scan.input THEN "BLOCKED" ELSE "RESOLVED"
-----------------------------------------------------------------------------
(* The pass computes the rule the rest of the model uses, whatever the     *)
(* order, the repetitions and the strangers in the report.                 *)
PassComputesRule == Verdict = DecideArtworkStatus(findings, intent)

(* "An empty, partial, or malformed findings list must never resolve a     *)
(* case": RESOLVED means that each check the intent asks for was reported, *)
(* and nothing but PASS and WARNING was reported of any check.             *)
ResolvedIsComplete ==
    Verdict = "RESOLVED" =>
        /\ \A c \in ExpectedChecks(intent) : \E n \in DOMAIN findings : findings[n].check = c
        /\ \A n \in DOMAIN findings : findings[n].result \in {"PASS", "WARNING"}

(* A blocker cannot be talked away: once the report is complete, further   *)
(* findings never make the verdict milder.                                 *)
Severity(v) == CASE v = "RESOLVED" -> 0 [] v = "BLOCKED" -> 1 [] v = "NEEDS_REVIEW" -> 2
BlockersStick ==
    [][ExpectedChecks(intent) \subseteq scan.seen => Severity(Verdict') >= Severity(Verdict)]_vars
=============================================================================

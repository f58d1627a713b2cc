------------------------------- MODULE Checks -------------------------------
(***************************************************************************)
(* The deterministic rules, as operators without state: what the image     *)
(* service reports about an artwork, how the worker turns a report into a  *)
(* status and into the two predicates that gate the agent, and the two     *)
(* decisions the GraphQL resolvers take before they write.                 *)
(*                                                                         *)
(* An artwork is what the rules can tell apart of an image: whether it has *)
(* 300 PPI at its trim, the outcome of the colour check, and whether its   *)
(* canvas can be extended.  trim is orders.artwork_is_trim_only (NULL is     *)
(* "unknown").                                                             *)
(***************************************************************************)
EXTENDS Naturals, Sequences

Intent == {"border", "full_bleed"}
Trim   == {"unknown", "yes", "no"}
Result == {"PASS", "WARNING", "NEEDS_INPUT", "NEEDS_REVIEW"}
CheckName == {"resolution", "color", "bleed"}

ArtworkKind == [ppi : {"ok", "low"},
                color : {"PASS", "WARNING", "NEEDS_REVIEW"},
                extendable : BOOLEAN]

(* A finding keeps, of its evidence, only the reason the worker looks for. *)
Reason == {"none", "trim not confirmed", "trim out of scope", "low ppi", "short bleed"}
Finding == [check : CheckName, result : Result, why : Reason]

F(c, r, y) == [check |-> c, result |-> r, why |-> y]

(* resolve_trim: explicit coordinates win, a border design is its own      *)
(* trim, a confirmed trim-only upload too; anything else is not guessed.   *)
TrimResolved(intent, trim, explicit) ==
    explicit \/ intent = "border" \/ (intent = "full_bleed" /\ trim = "yes")

UnresolvedTrimReason(intent, trim) ==
    IF intent = "full_bleed" /\ trim = "no" THEN "trim out of scope" ELSE "trim not confirmed"

CheckResolution(intent, trim, explicit, art) ==
    IF ~TrimResolved(intent, trim, explicit)
    THEN F("resolution", "NEEDS_INPUT", UnresolvedTrimReason(intent, trim))
    ELSE IF art.ppi = "low" THEN F("resolution", "NEEDS_INPUT", "low ppi")
                            ELSE F("resolution", "PASS", "none")

CheckColor(art) == F("color", art.color, "none")

(* Only a canvas with explicit trim coordinates has a margin around them;  *)
(* when the trim is the whole image the margin is zero.                    *)
CheckBleed(intent, trim, explicit) ==
    IF ~TrimResolved(intent, trim, explicit)
    THEN F("bleed", "NEEDS_INPUT", UnresolvedTrimReason(intent, trim))
    ELSE IF explicit THEN F("bleed", "PASS", "none")
                     ELSE F("bleed", "NEEDS_REVIEW", "short bleed")

(* POST /inspect: the findings in the order the service reports them. *)
Inspect(intent, trim, explicit, art) ==
    LET common == <<CheckResolution(intent, trim, explicit, art), CheckColor(art)>>
    IN  IF intent = "full_bleed" THEN Append(common, CheckBleed(intent, trim, explicit))
                                 ELSE common

(* POST /repair: an opaque image with a uniform edge, of the declared      *)
(* proportions, comes back on a larger canvas that holds its pixels        *)
(* unchanged; anything else comes back as it was, with a reason.           *)
RepairImage(art) == IF art.extendable THEN "repaired" ELSE "rejected"

ExpectedChecks(intent) ==
    IF intent = "full_bleed" THEN {"resolution", "color", "bleed"} ELSE {"resolution", "color"}

(* decideArtworkStatus.  A finding nobody expects, or with a result outside *)
(* the vocabulary, is malformed and counts for nothing else.               *)
Recognized(f, intent) == f.check \in ExpectedChecks(intent) /\ f.result \in Result

Malformed(fs, intent) ==
    \/ \E n \in DOMAIN fs : ~Recognized(fs[n], intent)
    \/ \E c \in ExpectedChecks(intent) :
         \A n \in DOMAIN fs : ~(fs[n].check = c /\ Recognized(fs[n], intent))

HasResult(fs, intent, r) ==
    \E n \in DOMAIN fs : Recognized(fs[n], intent) /\ fs[n].result = r

DecideArtworkStatus(fs, intent) ==
    IF Malformed(fs, intent) \/ HasResult(fs, intent, "NEEDS_REVIEW") THEN "NEEDS_REVIEW"
    ELSE IF HasResult(fs, intent, "NEEDS_INPUT") THEN "BLOCKED" ELSE "RESOLVED"

(* The two findings the agent's actions are allowed for. *)
HasUnconfirmedTrimFinding(fs) ==
    \E n \in DOMAIN fs : fs[n].result = "NEEDS_INPUT" /\ fs[n].why = "trim not confirmed"

Bug_AnyBleedFinding(fs) == \E n \in DOMAIN fs : fs[n].check = "bleed" /\ fs[n].result # "PASS"
HasConfirmedInsufficientBleedFinding(fs) ==
    \E n \in DOMAIN fs :
        fs[n].check = "bleed" /\ fs[n].result = "NEEDS_REVIEW" /\ fs[n].why = "short bleed"

(* decideRepairRequestAction.  done is the case_version of the job that    *)
(* completed a repair with this key (0 for none), active the repair job in *)
(* flight as a record of key and cv (key NoRequest for none).              *)
NoRequest == <<"no request", 0>>

DecideRepairRequestAction(done, active, orderCV, key, v) ==
    IF done # 0 THEN (IF done # v THEN "reject version mismatch" ELSE "return existing job")
    ELSE IF active.key # NoRequest
         THEN IF active.key # key THEN "reject different repair in progress"
              ELSE IF active.cv # v THEN "reject version mismatch" ELSE "return existing job"
    ELSE IF orderCV # v THEN "reject stale case_version" ELSE "create new"

(* interpretYesNo on the words of a reply: only the first one counts, and  *)
(* anything but a whole yes or no is refused rather than guessed.          *)
InterpretYesNo(words) ==
    CASE words = <<>>                -> "refused"
      [] words # <<>> /\ words[1] \in {"y", "yes"} -> "yes"
      [] words # <<>> /\ words[1] \in {"n", "no"}  -> "no"
      [] OTHER                       -> "refused"
=============================================================================

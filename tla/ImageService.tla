---------------------------- MODULE ImageService ----------------------------
(***************************************************************************)
(* The image service and its caller, with the arithmetic that Checks       *)
(* leaves out: POST /inspect and POST /repair on one picture and the       *)
(* declared size of its order, what the client in pyclient makes of the    *)
(* replies, and the order of the calls in runInspect and runRepair.        *)
(*                                                                         *)
(* Declared sizes are decimal: multiples of 1/(5 Grain) of an inch or of a *)
(* millimetre, so that 25.4 mm are an integer too.  A PPI is a fraction,   *)
(* a record of numerator and denominator.  The service computes in floats: *)
(* its PPI is the exact one but for a relative error, and so is its        *)
(* tolerance of the aspect; which error is not said, only that the same    *)
(* numbers always come out alike.  round(x, 2) is any nearest hundredth.   *)
(***************************************************************************)
EXTENDS Integers, Sequences

CONSTANTS Grain,      \* resolution of declared sizes
          Order,      \* declared sizes and what the customer said
          Picture,    \* uploads
          MaxPixels,  \* MAX_DECODED_PIXELS and MAX_CANVAS_PIXELS
          Scale,      \* errors are counted in 1/Scale
          MaxError    \* the largest

Intent == {"border", "full_bleed"}
Trim   == {"unknown", "yes", "no"}
Mode   == {"RGB", "RGBA", "L", "LA", "1", "CMYK", "P"}
Size   == Nat \ {0}  \* CHECK constraints of migration 0004; a decoded image

(* What the roundings of 25.4, of the declared size and of each quotient   *)
(* add up to: by the standard MaxError / Scale is below 2^-49, for sizes   *)
(* that are no extremes of the float's range.                              *)
Error == -MaxError .. MaxError

(* opaque: no alpha below 255; uniform: the edge band has one colour;      *)
(* light: also its extended canvas is at most MAX_UPLOAD_BYTES as a PNG;   *)
(* err: the errors of floats on the picture at the declared size.          *)
OrderType   == [dw : Size, dh : Size, unit : {"in", "mm"}, intent : Intent, trim : Trim,
                err : [ppi : Error, aspect : Error]]
PictureType == [w : Size, h : Size, mode : Mode, opaque : BOOLEAN, uniform : BOOLEAN,
                light : BOOLEAN]

ASSUME GrainAssumption  == Grain \in Nat \ {0}
ASSUME FloatAssumption  == Scale \in Nat \ {0} /\ MaxError \in Nat /\ 2 * MaxError <= Scale
ASSUME InputAssumption  == Order \subseteq OrderType /\ Picture \subseteq PictureType
ASSUME PixelsAssumption == MaxPixels \in Nat

VARIABLES order,    \* the orders row, as far as the service is told, and err
          picture,  \* the original asset
          stage,    \* where the job is
          canvas,   \* the repaired canvas: its size, and the trim it carries
          report    \* the findings of the last inspection

vars == <<order, picture, stage, canvas, report>>

NoCanvas == [w |-> 0, h |-> 0, tw |-> 0, th |-> 0, margin |-> 0]
NoTrim   == [w |-> 0, h |-> 0]

Init == /\ order \in Order /\ picture \in Picture
        /\ stage  = "uploaded"
        /\ canvas = NoCanvas
        /\ report = <<>>
-----------------------------------------------------------------------------
(* The exact PPI of a side of px pixels, declared as d. *)
PerInch(o) == IF o.unit = "mm" THEN 127 * Grain ELSE 5 * Grain
PPIOf(px, d, o) == [num |-> px * PerInch(o), den |-> d]

AtMost(p, q) == p.num * q.den <= q.num * p.den

LeastPPI(w, h, o) ==
    LET x == PPIOf(w, o.dw, o)
        y == PPIOf(h, o.dh, o)
    IN  IF AtMost(x, y) THEN x ELSE y

(* The PPI the service computes, with to_inches and one division. *)
EffectivePPI(w, h, o) ==
    LET p == LeastPPI(w, h, o)
    IN  [num |-> p.num * (Scale + o.err.ppi), den |-> p.den * Scale]

(* round(ppi, 2) in hundredths: the evidence, which check_bleed divides by. *)
Hundredths(p) ==
    LET rest  == 100 * (p.num % p.den)
        floor == 100 * (p.num \div p.den) + rest \div p.den
        twice == 2 * (rest % p.den)  \* what is left, against a half
    IN  IF twice < p.den THEN {floor}
        ELSE IF twice > p.den THEN {floor + 1} ELSE {floor, floor + 1}

Readable(w, h, light) == light /\ w * h <= MaxPixels

F(c, r, y) == [check |-> c, result |-> r, why |-> y]

(* resolve_trim and unresolved_trim_reason; explicit is what the worker    *)
(* passed, or NoTrim.                                                      *)
TrimOf(o, w, h, explicit) ==
    IF explicit # NoTrim THEN explicit
    ELSE IF o.intent = "border" \/ o.trim = "yes" THEN [w |-> w, h |-> h] ELSE NoTrim

UnresolvedReason(o) ==
    IF o.intent = "full_bleed" /\ o.trim = "no" THEN "trim out of scope" ELSE "trim not confirmed"

Enough(p) == AtMost([num |-> 300, den |-> 1], p)

CheckResolution(o, w, h, trim) ==
    IF trim = NoTrim THEN F("resolution", "NEEDS_INPUT", UnresolvedReason(o))
    ELSE IF Enough(EffectivePPI(trim.w, trim.h, o))
         THEN F("resolution", "PASS", "none") ELSE F("resolution", "NEEDS_INPUT", "low ppi")

CheckColor(mode) ==
    F("color", CASE mode \in {"CMYK", "L", "LA", "1"} -> "PASS"
                 [] mode \in {"RGB", "RGBA"}          -> "WARNING"
                 [] OTHER                             -> "NEEDS_REVIEW", "none")

(* The smaller margin over the rounded PPI, in sixteenths of an inch; a    *)
(* margin is half of what the canvas has more than the trim.  The slack of *)
(* 1e-9, 62500000 of which are a sixteenth, is more than the floats of     *)
(* this division are off by where the margin is just enough.               *)
BleedSuffices(w, h, trim, hundredths) ==
    \A margin \in {w - trim.w, h - trim.h} :
        hundredths - 800 * margin <= hundredths \div 62500000

CheckBleed(o, w, h, trim, hundredths) ==
    IF trim = NoTrim THEN F("bleed", "NEEDS_INPUT", UnresolvedReason(o))
    ELSE IF BleedSuffices(w, h, trim, hundredths)
         THEN F("bleed", "PASS", "none") ELSE F("bleed", "NEEDS_REVIEW", "short bleed")

(* POST /inspect: the reports it may answer with; none is an error: the    *)
(* picture is too large, or the bleed check divides by a PPI of 0.00.      *)
Inspect(o, w, h, light, mode, explicit) ==
    LET trim   == TrimOf(o, w, h, explicit)
        common == <<CheckResolution(o, w, h, trim), CheckColor(mode)>>
    IN  IF ~Readable(w, h, light) THEN {}
        ELSE IF o.intent = "border" THEN {common}
        ELSE IF trim = NoTrim THEN {common \o <<CheckBleed(o, w, h, trim, 0)>>}
        ELSE {common \o <<CheckBleed(o, w, h, trim, r)>> :
                 r \in Hundredths(EffectivePPI(trim.w, trim.h, o)) \ {0}}
-----------------------------------------------------------------------------
(* POST /repair *)

(* check_eligibility *)
Eligible(p) ==
    /\ p.mode \in {"RGB", "L"} \/ (p.mode \in {"RGBA", "LA"} /\ p.opaque)
    /\ p.uniform

Working(mode) == IF mode \in {"RGB", "RGBA"} THEN "RGB" ELSE "L"

Bug_AnyAspect(p, o) == TRUE
(* validate_aspect_ratio: within 2 % of the declared one, give or take the *)
(* error of two quotients, their difference and the product with 0.02.     *)
AspectMatches(p, o) ==
    LET wide == p.w * o.dh
        high == o.dw * p.h
        slip == (50 * o.err.aspect * high) \div Scale
    IN  50 * (wide - high) - high <= slip /\ 50 * (high - wide) - high <= slip

Bug_MarginRoundedDown(ppi) == ppi.num \div (16 * ppi.den)
(* ceil(REQUIRED_BLEED_IN * effective_ppi) *)
Margin(ppi) == (ppi.num + 16 * ppi.den - 1) \div (16 * ppi.den)

Extended(p, o) ==
    LET m == Margin(EffectivePPI(p.w, p.h, o))
    IN  [w |-> p.w + 2 * m, h |-> p.h + 2 * m, tw |-> p.w, th |-> p.h, margin |-> m]

Bug_CapsThePicture(p, c) == p.w * p.h <= MaxPixels
CanvasFits(p, c) == c.w * c.h <= MaxPixels

Repairable(p, o) == Eligible(p) /\ AspectMatches(p, o) /\ CanvasFits(p, Extended(p, o))

(* The reply carries the edge colour, a list of three for RGB and a bare   *)
(* number for L.  The client's EdgeColor is a []int.                       *)
Decodes(p) == Working(p.mode) = "RGB"
-----------------------------------------------------------------------------
(* runInspect of the current asset; a repaired one with its coordinates.   *)
Bug_ForgetsTrim(c) == NoTrim
Coordinates(c) == IF c = NoCanvas THEN NoTrim ELSE [w |-> c.tw, h |-> c.th]

InspectPicture ==
    /\ stage \in {"uploaded", "inspected"}
    /\ LET answers == Inspect(order, picture.w, picture.h, TRUE, picture.mode, NoTrim)
       IN  IF answers = {} THEN stage' = "failed" /\ UNCHANGED report
           ELSE stage' = "inspected" /\ report' \in answers
    /\ UNCHANGED <<order, picture, canvas>>

(* runRepair up to the reply of the service. *)
Bug_GoesOnWhenRejected ==
    /\ stage \in {"uploaded", "inspected"}
    /\ Readable(picture.w, picture.h, TRUE)
    /\ stage' = "replied"
    /\ canvas' = IF Repairable(picture, order) THEN Extended(picture, order) ELSE canvas
    /\ UNCHANGED <<order, picture, report>>
Repair ==
    /\ stage \in {"uploaded", "inspected"}
    /\ Readable(picture.w, picture.h, TRUE) \* else an error, as in InspectPicture
    /\ IF order.intent = "full_bleed" /\ order.trim = "yes" /\ Repairable(picture, order)
       THEN stage' = "replied" /\ canvas' = Extended(picture, order)
       ELSE stage' = "rejected" /\ UNCHANGED canvas
    /\ UNCHANGED <<order, picture, report>>

Receive ==
    /\ stage = "replied"
    /\ stage' = IF Decodes(picture) THEN "received" ELSE "failed"
    /\ UNCHANGED <<order, picture, canvas, report>>

(* The inspection of the canvas, as part of the repair or later on. *)
InspectCanvas ==
    /\ stage \in {"received", "repaired"}
    /\ LET answers == Inspect(order, canvas.w, canvas.h, picture.light,
                              Working(picture.mode), Coordinates(canvas))
       IN  IF answers = {} THEN stage' = "failed" /\ UNCHANGED report
           ELSE stage' = "repaired" /\ report' \in answers
    /\ UNCHANGED <<order, picture, canvas>>

(* The customer says what the upload is, before or after the repair.       *)
ConfirmTrim(t) ==
    /\ stage \in {"inspected", "repaired"}
    /\ order' = [order EXCEPT !.trim = t]
    /\ UNCHANGED <<picture, stage, canvas, report>>

Next ==
    \/ InspectPicture \/ Repair \/ Receive \/ InspectCanvas
    \/ \E t \in {"yes", "no"} : ConfirmTrim(t)

Spec == Init /\ [][Next]_vars
-----------------------------------------------------------------------------
Stage == {"uploaded", "inspected", "replied", "received", "repaired", "rejected", "failed"}

(* Every variable has its type, and a canvas is there from the reply on. *)
TypeOK ==
    /\ order \in OrderType
    /\ picture \in PictureType
    /\ stage \in Stage
    /\ canvas \in [w : Size, h : Size, tw : Size, th : Size, margin : Nat] \cup {NoCanvas}
    /\ stage \in {"replied", "received", "repaired"} => canvas # NoCanvas

(* A canvas out of the repair passes the bleed check, whatever the         *)
(* picture and the declared size: the margin was computed from the PPI,    *)
(* the check divides by the PPI rounded to two decimals.                   *)
RepairedHasItsBleed ==
    stage = "repaired" =>
        \A r \in Hundredths(EffectivePPI(canvas.tw, canvas.th, order)) :
            BleedSuffices(canvas.w, canvas.h, [w |-> canvas.tw, h |-> canvas.th], r)

(* One PPI serves both sides.  At a side's own PPI the margin is still at  *)
(* least 98 % of a sixteenth of an inch, less two errors of floats.        *)
BothSidesAreCovered ==
    canvas # NoCanvas =>
        \A p \in {PPIOf(canvas.tw, order.dw, order), PPIOf(canvas.th, order.dh, order)} :
            98 * p.num - 1600 * canvas.margin * p.den <= (200 * MaxError * p.num) \div Scale

Rules == INSTANCE Checks

(* What Checks keeps of a picture.  At the threshold the float decides     *)
(* (900 px on 76.2 mm come out as 299.99999999999994), once for all.       *)
Kind == [ppi |-> IF Enough(EffectivePPI(picture.w, picture.h, order)) THEN "ok" ELSE "low",
         color |-> CheckColor(picture.mode).result,
         extendable |-> Repairable(picture, order)]

(* What an inspection reports is what Checks says of one and the same kind *)
(* of the picture: before a repair, after it, and whatever the customer    *)
(* says afterwards, also where floats decide what the kind is.             *)
ReportsAreTheRules ==
    [][report' # report =>
         report' = Rules!Inspect(order.intent, order.trim, stage' = "repaired", Kind)]_vars

(* The service has to read its own canvas again.  After a repair it fails  *)
(* to only if the file has grown past the limit of uploads, or if the PPI  *)
(* rounds to nothing; never for the number of its pixels.                  *)
RecheckSucceeds ==
    [][(stage \in {"received", "repaired"} /\ stage' = "failed") =>
         \/ ~picture.light
         \/ 0 \in Hundredths(EffectivePPI(canvas.tw, canvas.th, order))]_vars

-----------------------------------------------------------------------------
(* "Only RGB and grayscale (L) are supported" (eligibility.py): a picture  *)
(* the service has repaired does not end as a failed job at the caller.    *)
SupportedModesArrive ==
    [][stage = "replied" => stage' # "failed"]_vars
=============================================================================

------------------------- MODULE ImageServiceProofs -------------------------
(***************************************************************************)
(* Theorems about ImageService, for every picture, every declared size and *)
(* every limit of pixels.                                                  *)
(***************************************************************************)
EXTENDS ImageService, TLAPS

(* Products that are too much for the solver in one go are taken apart     *)
(* with these three facts.                                                 *)
LEMMA Monotone == ASSUME NEW a \in Int, NEW b \in Int, NEW c \in Nat, a <= b
                  PROVE  c * a <= c * b
  BY Z3

LEMMA Cancel == ASSUME NEW a \in Int, NEW b \in Int, NEW c \in Size, c * a <= c * b
                PROVE  a <= b
  BY Z3 DEF Size

LEMMA Quotient == ASSUME NEW a \in Int, NEW b \in Size
                  PROVE  /\ a \div b \in Int
                         /\ a \in Nat => a \div b \in Nat
                         /\ b * (a \div b) <= a
                         /\ a < b * (a \div b) + b
  BY Z3 DEF Size

LEMMA Remainder == ASSUME NEW a \in Nat, NEW b \in Size
                   PROVE  a % b \in Nat /\ a = b * (a \div b) + (a % b)
  BY Z3 DEF Size

LEMMA AtMostQuotient == ASSUME NEW a \in Int, NEW b \in Int, NEW c \in Size, c * a <= b
                        PROVE  a <= b \div c
  <1> DEFINE q == b \div c
  <1>1. q \in Int /\ b < c * q + c /\ c \in Nat
    BY Quotient DEF Size
  <1> HIDE DEF q
  <1>2. SUFFICES ASSUME q + 1 <= a PROVE FALSE
    BY <1>1 DEF q
  <1>3. c * (q + 1) <= c * a /\ c * (q + 1) = c * q + c /\ c * q \in Int /\ c * a \in Int
    BY <1>1, <1>2, Monotone
  <1> QED BY <1>1, <1>3

PPI == [num : Nat, den : Size]

(* The margin is the PPI's sixteenth, rounded outward. *)
LEMMA MarginCovers ==
    ASSUME NEW p \in PPI
    PROVE  Margin(p) \in Nat /\ p.num <= 16 * (p.den * Margin(p))
  <1> DEFINE b == 16 * p.den
             a == p.num + b - 1
  <1>1. p.num \in Nat /\ p.den \in Size
    BY DEF PPI
  <1>2. a \in Nat /\ b \in Size
    BY <1>1 DEF Size
  <1>3. Margin(p) = a \div b
    BY DEF Margin
  <1> HIDE DEF a, b
  <1>4. Margin(p) \in Nat /\ a < b * Margin(p) + b
    BY <1>2, <1>3, Quotient
  <1>5. p.num + b - 1 < b * Margin(p) + b
    BY <1>4 DEF a
  <1>6. p.num <= b * Margin(p)
    BY <1>1, <1>2, <1>4, <1>5 DEF Size
  <1>7. b * Margin(p) = 16 * (p.den * Margin(p))
    BY <1>1, <1>4 DEF b, Size
  <1> QED BY <1>4, <1>6, <1>7

(* Rounding to hundredths has an outcome, and none is off by more than a   *)
(* half.                                                                   *)
LEMMA Rounding ==
    ASSUME NEW p \in PPI
    PROVE  /\ Hundredths(p) # {}
           /\ \A r \in Hundredths(p) : r \in Nat /\ 2 * (p.den * r) <= 2 * (100 * p.num) + p.den
  <1> DEFINE n == p.num
             d == p.den
             rest == 100 * (n % d)
             f == 100 * (n \div d) + rest \div d
             left == rest % d
  <1>1. n \in Nat /\ d \in Size
    BY DEF PPI
  <1>2. /\ Hundredths(p) \subseteq {f, f + 1} /\ Hundredths(p) # {}
        /\ 2 * left < d => Hundredths(p) = {f}
    BY DEF Hundredths
  <1>3. n % d \in Nat /\ n \div d \in Nat /\ n = d * (n \div d) + (n % d)
    BY <1>1, Quotient, Remainder
  <1>4. /\ rest \in Nat /\ rest \div d \in Nat /\ left \in Nat
        /\ rest = d * (rest \div d) + left
    <2>1. rest \in Nat
      BY <1>3
    <2> HIDE DEF rest, d
    <2> QED BY <1>1, <2>1, Quotient, Remainder
  <1>5. f \in Nat /\ d * f \in Nat /\ 100 * n = d * f + left /\ d * (f + 1) = d * f + d
    <2> DEFINE q == n \div d
               t == n % d
               v == rest \div d
    <2>1. q \in Nat /\ t \in Nat /\ v \in Nat /\ left \in Nat /\ n = d * q + t
          /\ 100 * t = d * v + left /\ f = 100 * q + v
      <3>1. rest = 100 * t /\ f = 100 * q + v
        OBVIOUS
      <3> HIDE DEF rest, left, d, f
      <3> QED BY <1>3, <1>4, <3>1
    <2> HIDE DEF q, t, v, f, left, rest, n, d
    <2>2. d * f = 100 * (d * q) + d * v /\ d * q \in Nat /\ d * v \in Nat
      BY <1>1, <2>1, Z3 DEF Size
    <2>3. f \in Nat
      BY <2>1
    <2>4. d * (f + 1) = d * f + d
      BY <1>1, <2>3, Z3 DEF Size
    <2> QED BY <1>1, <2>1, <2>2, <2>3, <2>4
  <1> HIDE DEF f, left, rest
  <1>6. ASSUME NEW r \in Hundredths(p)
        PROVE  r \in Nat /\ 2 * (d * r) <= 2 * (100 * n) + d
    <2>1. CASE r = f
      BY <2>1, <1>1, <1>4, <1>5 DEF Size
    <2>2. CASE r = f + 1
      <3>1. ~(2 * left < d)
        BY <1>2, <1>5, <1>6, <2>2
      <3> HIDE DEF n, d
      <3>2. d \in Nat
        BY <1>1 DEF Size
      <3> QED BY <1>1, <1>4, <1>5, <2>2, <3>1, <3>2
    <2> QED BY <2>1, <2>2, <1>2, <1>6
  <1> QED BY <1>2, <1>6

(* The margin was computed before the rounding and is compared after it.   *)
LEMMA MarginSurvivesRounding ==
    ASSUME NEW p \in PPI, NEW r \in Hundredths(p)
    PROVE  r <= 1600 * Margin(p)
  <1> DEFINE m == Margin(p)
             k == 1600 * m + 1
  <1>1. p.num \in Nat /\ p.den \in Size
    BY DEF PPI
  <1>2. m \in Nat /\ p.num <= 16 * (p.den * m)
    BY MarginCovers
  <1>3. r \in Nat /\ 2 * (p.den * r) <= 200 * p.num + p.den
    BY Rounding, <1>1 DEF Size
  <1> HIDE DEF m
  <1>4. SUFFICES ASSUME k <= r PROVE FALSE
    BY <1>2, <1>3 DEF m
  <1>5. k \in Nat /\ p.den \in Nat
    BY <1>1, <1>2 DEF Size
  <1>6. p.den * k <= p.den * r
    BY <1>3, <1>4, <1>5, Monotone
  <1>7. p.den * k = 1600 * (p.den * m) + p.den /\ p.den * m \in Nat /\ p.den * r \in Nat
    BY <1>1, <1>2, <1>3 DEF Size
  <1> QED BY <1>1, <1>2, <1>3, <1>6, <1>7 DEF Size

(* The PPI of a picture is that of one of its sides, and at most the other's. *)
LEMMA LeastIsLeast ==
    ASSUME NEW o \in OrderType, NEW w \in Size, NEW h \in Size
    PROVE  /\ PerInch(o) \in Size
           /\ LeastPPI(w, h, o) \in PPI
           /\ \/ /\ LeastPPI(w, h, o) = [num |-> w * PerInch(o), den |-> o.dw]
                 /\ (w * PerInch(o)) * o.dh <= (h * PerInch(o)) * o.dw
              \/ /\ LeastPPI(w, h, o) = [num |-> h * PerInch(o), den |-> o.dh]
                 /\ (h * PerInch(o)) * o.dw <= (w * PerInch(o)) * o.dh
  <1>1. o.dw \in Size /\ o.dh \in Size
    BY DEF OrderType
  <1>2. PerInch(o) \in Size
    BY GrainAssumption DEF PerInch, Size
  <1> DEFINE u == PerInch(o)
  <1> HIDE DEF u
  <1>3. u \in Size /\ w * u \in Nat /\ h * u \in Nat
    BY <1>2, Z3 DEF Size, u
  <1>4. (w * u) * o.dh \in Nat /\ (h * u) * o.dw \in Nat
    BY <1>1, <1>3, Z3 DEF Size
  <1>5. /\ PPIOf(w, o.dw, o) = [num |-> w * u, den |-> o.dw]
        /\ PPIOf(h, o.dh, o) = [num |-> h * u, den |-> o.dh]
    BY DEF PPIOf, u
  <1>6. CASE (w * u) * o.dh <= (h * u) * o.dw
    <2>1. LeastPPI(w, h, o) = [num |-> w * u, den |-> o.dw]
      BY <1>5, <1>6 DEF LeastPPI, AtMost
    <2> QED BY <1>1, <1>2, <1>3, <1>6, <2>1 DEF PPI, u
  <1>7. CASE ~((w * u) * o.dh <= (h * u) * o.dw)
    <2>1. LeastPPI(w, h, o) = [num |-> h * u, den |-> o.dh]
      BY <1>5, <1>7 DEF LeastPPI, AtMost
    <2>2. (h * u) * o.dw <= (w * u) * o.dh
      BY <1>4, <1>7
    <2> QED BY <1>1, <1>2, <1>3, <2>1, <2>2 DEF PPI, u
  <1> QED BY <1>6, <1>7

(* What the service computes is a PPI as well, an error away from it. *)
LEMMA EffectiveIsNear ==
    ASSUME NEW o \in OrderType, NEW w \in Size, NEW h \in Size
    PROVE  /\ EffectivePPI(w, h, o) \in PPI
           /\ LeastPPI(w, h, o) \in PPI
           /\ EffectivePPI(w, h, o).den = LeastPPI(w, h, o).den * Scale
           /\ EffectivePPI(w, h, o).num = LeastPPI(w, h, o).num * (Scale + o.err.ppi)
           /\ LeastPPI(w, h, o).num * (Scale - MaxError) <= EffectivePPI(w, h, o).num
           /\ EffectivePPI(w, h, o).num <= LeastPPI(w, h, o).num * (Scale + MaxError)
  <1> DEFINE n == LeastPPI(w, h, o).num
             d == LeastPPI(w, h, o).den
             k == o.err.ppi
  <1>1. n \in Nat /\ d \in Size /\ LeastPPI(w, h, o) \in PPI
    BY LeastIsLeast DEF PPI
  <1>2. k \in -MaxError .. MaxError
    BY DEF OrderType, Error
  <1>3. EffectivePPI(w, h, o) = [num |-> n * (Scale + k), den |-> d * Scale]
    BY DEF EffectivePPI
  <1> HIDE DEF n, d, k
  <1>4. /\ Scale + k \in Nat /\ Scale \in Size /\ Scale - MaxError \in Nat
        /\ Scale - MaxError <= Scale + k /\ Scale + k <= Scale + MaxError
    BY <1>2, FloatAssumption DEF Size
  <1>5. n * (Scale + k) \in Nat /\ d * Scale \in Size
    BY <1>1, <1>4, Z3 DEF Size
  <1>6. n * (Scale - MaxError) <= n * (Scale + k) /\ n * (Scale + k) <= n * (Scale + MaxError)
    <2>1. Scale + MaxError \in Nat
      BY FloatAssumption
    <2> QED BY <1>1, <1>4, <2>1, Monotone
  <1> QED BY <1>1, <1>3, <1>5, <1>6 DEF PPI, n, d, k

(* What the extension makes of a picture: a canvas of the right type, and  *)
(* no NoCanvas.                                                            *)
LEMMA ExtendedType ==
    ASSUME NEW o \in OrderType, NEW p \in PictureType
    PROVE  /\ Extended(p, o) \in [w : Size, h : Size, tw : Size, th : Size, margin : Nat]
           /\ Extended(p, o) # NoCanvas
           /\ Extended(p, o).tw = p.w /\ Extended(p, o).th = p.h
           /\ Extended(p, o).margin = Margin(EffectivePPI(p.w, p.h, o))
           /\ Extended(p, o).w = p.w + 2 * Margin(EffectivePPI(p.w, p.h, o))
           /\ Extended(p, o).h = p.h + 2 * Margin(EffectivePPI(p.w, p.h, o))
  <1>1. p.w \in Size /\ p.h \in Size
    BY DEF PictureType
  <1>2. Margin(EffectivePPI(p.w, p.h, o)) \in Nat
    BY <1>1, EffectiveIsNear, MarginCovers
  <1>3. p.w # 0
    BY <1>1 DEF Size
  <1> QED BY <1>1, <1>2, <1>3 DEF Extended, NoCanvas, Size

(* What the tolerance of the aspect says of the products of each side with *)
(* the other's declared size: neither is more than 50/49 of the other, but *)
(* for the error.                                                          *)
LEMMA AspectBounds ==
    ASSUME NEW wide \in Nat, NEW high \in Nat, NEW j \in Error,
           50 * (wide - high) - high <= (50 * j * high) \div Scale,
           50 * (high - wide) - high <= (50 * j * high) \div Scale
    PROVE  /\ (49 * Scale - 50 * MaxError) * high <= (50 * Scale) * wide
           /\ (49 * Scale - 50 * MaxError) * wide <= (50 * Scale) * high
  <1> DEFINE S == Scale
             E == MaxError
             P == 49 * S - 50 * E
             slip == (50 * j * high) \div S
  <1>1. S \in Size /\ S \in Nat /\ E \in Nat /\ 2 * E <= S /\ j \in Int /\ j <= E
    BY FloatAssumption DEF Size, Error
  <1>2. slip \in Int /\ S * slip <= 50 * j * high
    BY <1>1, Quotient
  <1>3. 50 * (wide - high) - high <= slip /\ 50 * (high - wide) - high <= slip
    OBVIOUS
  <1> HIDE DEF S, E, slip
  <1>4. P \in Nat /\ 51 * S + 50 * E \in Nat
    BY <1>1
  <1>5. high * j <= high * E /\ high * j \in Int /\ high * E \in Nat /\ 50 * j * high = 50 * (high * j)
    BY <1>1, Monotone
  <1>6. S * slip <= 50 * (high * E)
    BY <1>1, <1>2, <1>5
  <1>7. /\ S * wide \in Nat /\ S * high \in Nat /\ S * slip \in Int
        /\ S * (50 * (wide - high) - high) = 50 * (S * wide) - 51 * (S * high)
        /\ S * (50 * (high - wide) - high) = 49 * (S * high) - 50 * (S * wide)
    BY <1>1, <1>2
  <1>8. /\ S * (50 * (wide - high) - high) <= S * slip
        /\ S * (50 * (high - wide) - high) <= S * slip
    BY <1>1, <1>2, <1>3, Monotone
  <1>9. /\ 49 * (S * high) - 50 * (high * E) <= 50 * (S * wide)
        /\ 50 * (S * wide) <= 51 * (S * high) + 50 * (high * E)
    BY <1>5, <1>6, <1>7, <1>8
  <1>10. P * high <= (50 * S) * wide /\ (50 * S) * wide <= (51 * S + 50 * E) * high
    <2>1. P * high = 49 * (S * high) - 50 * (high * E) /\ (50 * S) * wide = 50 * (S * wide)
          /\ (51 * S + 50 * E) * high = 51 * (S * high) + 50 * (high * E)
      BY <1>1, Z3
    <2> QED BY <1>9, <2>1
  <1>11. P * wide <= (50 * S) * high
    <2>1. P * ((50 * S) * wide) <= P * ((51 * S + 50 * E) * high)
      <3>1. (50 * S) * wide \in Int /\ (51 * S + 50 * E) * high \in Int
        BY <1>1
      <3> HIDE DEF P
      <3> QED BY <1>4, <1>10, <3>1, Monotone
    <2>2. P * (51 * S + 50 * E) <= (50 * S) * (50 * S)
      <3>1. P * (51 * S + 50 * E) = 2499 * (S * S) - 100 * (S * E) - 2500 * (E * E)
        BY <1>1, Z3
      <3>2. (50 * S) * (50 * S) = 2500 * (S * S) /\ S * S \in Nat /\ S * E \in Nat /\ E * E \in Nat
        BY <1>1, Z3
      <3> QED BY <3>1, <3>2
    <2>3. high * (P * (51 * S + 50 * E)) <= high * ((50 * S) * (50 * S))
      <3>1. P * (51 * S + 50 * E) \in Int /\ (50 * S) * (50 * S) \in Int
        BY <1>1, <1>4
      <3> HIDE DEF P
      <3> QED BY <2>2, <3>1, Monotone
    <2>4. P * ((50 * S) * wide) = (50 * S) * (P * wide)
          /\ P * ((51 * S + 50 * E) * high) = high * (P * (51 * S + 50 * E))
          /\ high * ((50 * S) * (50 * S)) = (50 * S) * ((50 * S) * high)
      <3> HIDE DEF P
      <3> QED BY <1>1, <1>4, Z3
    <2>5. P * wide \in Int /\ (50 * S) * high \in Int /\ 50 * S \in Size
      BY <1>1, <1>4 DEF Size
    <2>6. (50 * S) * (P * wide) <= (50 * S) * ((50 * S) * high)
      <3>1. (50 * S) * (P * wide) \in Int /\ high * (P * (51 * S + 50 * E)) \in Int
            /\ (50 * S) * ((50 * S) * high) \in Int
        BY <1>1, <1>4
      <3> HIDE DEF P
      <3> QED BY <2>1, <2>3, <2>4, <3>1
    <2> HIDE DEF P
    <2> QED BY <2>5, <2>6, Cancel
  <1> QED BY <1>10, <1>11 DEF S, E

(* A side whose product with the other's declared size is within these     *)
(* bounds of the side that set the margin has 98 % of its bleed, but for   *)
(* the error.                                                              *)
LEMMA OtherSide ==
    ASSUME NEW m \in Nat, NEW u \in Size, NEW s \in Size, NEW t \in Size,
           NEW ds \in Size, NEW dt \in Size,
           (s * u) * (Scale - MaxError) <= 16 * ((ds * Scale) * m),  \* the margin covers the side s
           (49 * Scale - 50 * MaxError) * (t * ds) <= (50 * Scale) * (s * dt)
    PROVE  98 * (t * u) - 1600 * (m * dt) <= (200 * MaxError * (t * u)) \div Scale
  <1> DEFINE S == Scale
             E == MaxError
             P == 49 * S - 50 * E
             Q == S - E
             X == t * ds
             Y == s * dt
             L == (49 * S - 100 * E) * (t * u)
             R == (800 * S) * (dt * m)
  <1>1. S \in Size /\ S \in Nat /\ E \in Nat /\ 2 * E <= S /\ P \in Nat /\ Q \in Nat
    BY FloatAssumption DEF Size
  <1>2. X \in Nat /\ Y \in Nat /\ u \in Nat /\ dt \in Nat /\ ds * m \in Nat /\ s * u \in Nat
        /\ t * u \in Nat /\ dt * m \in Nat
    BY Z3 DEF Size
  <1>3. P * X <= (50 * S) * Y /\ (s * u) * Q <= 16 * ((ds * S) * m)
    OBVIOUS
  <1>4. (u * Q) * (P * X) <= (u * Q) * ((50 * S) * Y)
    <2>1. u * Q \in Nat /\ P * X \in Int /\ (50 * S) * Y \in Int
      <3> HIDE DEF S, P, Q, X, Y
      <3> QED BY <1>1, <1>2
    <2> HIDE DEF S, P, Q, X, Y
    <2> QED BY <1>3, <2>1, Monotone
  <1>5. ((50 * S) * dt) * ((s * u) * Q) <= ((50 * S) * dt) * (16 * ((ds * S) * m))
    <2>1. (50 * S) * dt \in Nat /\ (s * u) * Q \in Int /\ 16 * ((ds * S) * m) \in Int
      <3> HIDE DEF S, Q
      <3> QED BY <1>1, <1>2 DEF Size
    <2> HIDE DEF S, Q
    <2> QED BY <1>3, <2>1, Monotone
  <1>6. (u * Q) * ((50 * S) * Y) = ((50 * S) * dt) * ((s * u) * Q)
    <2> HIDE DEF S, Q
    <2> QED BY <1>1, Z3 DEF Size, Y
  <1>7. ((50 * S) * dt) * (16 * ((ds * S) * m)) = (ds * S) * R
    <2> HIDE DEF S
    <2> QED BY <1>1, Z3 DEF Size, R
  <1>8. (u * Q) * (P * X) = (Q * P) * (ds * (t * u))
    <2> HIDE DEF S, P, Q
    <2> QED BY <1>1, Z3 DEF Size, X
  <1>9. (S * (49 * S - 100 * E)) * (ds * (t * u)) <= (Q * P) * (ds * (t * u))
    <2>1. Q * P = 49 * (S * S) - 99 * (S * E) + 50 * (E * E)
      <3> HIDE DEF S, E
      <3> QED BY <1>1, Z3 DEF P, Q
    <2>2. S * (49 * S - 100 * E) = 49 * (S * S) - 100 * (S * E)
      <3> HIDE DEF S, E
      <3> QED BY <1>1, Z3
    <2>3. S * S \in Nat /\ S * E \in Nat /\ E * E \in Nat /\ ds * (t * u) \in Nat
      <3> HIDE DEF S, E
      <3> QED BY <1>1, <1>2 DEF Size
    <2> DEFINE A == S * (49 * S - 100 * E)
               B == Q * P
               c == ds * (t * u)
    <2>4. A <= B /\ A \in Int /\ B \in Int
      <3> HIDE DEF S, E, P, Q
      <3> QED BY <2>1, <2>2, <2>3
    <2>5. c \in Nat
      BY <2>3
    <2> HIDE DEF A, B, c
    <2>6. c * A <= c * B /\ A * c = c * A /\ B * c = c * B
      BY <2>4, <2>5, Monotone
    <2>7. A * c <= B * c
      BY <2>6
    <2> QED BY <2>7 DEF A, B, c
  <1>10. (S * (49 * S - 100 * E)) * (ds * (t * u)) = (ds * S) * L
    <2> HIDE DEF S, E
    <2> QED BY <1>1, Z3 DEF Size, L
  <1>11. L \in Int /\ R \in Int /\ ds * S \in Size
    <2> HIDE DEF S, E
    <2> QED BY <1>1, <1>2, Z3 DEF Size, L, R
  <1>12. L <= R
    <2>1. /\ (ds * S) * L \in Int /\ (ds * S) * R \in Int /\ (Q * P) * (ds * (t * u)) \in Int
          /\ (u * Q) * ((50 * S) * Y) \in Int
      <3>1. ds * (t * u) \in Int /\ ds * S \in Int /\ 50 * S \in Int
        BY <1>1, <1>2 DEF Size
      <3> HIDE DEF S, E, P, Q, L, R, X, Y
      <3> QED BY <1>1, <1>2, <1>11, <3>1 DEF Size
    <2> HIDE DEF S, E, P, Q, L, R, X, Y
    <2>2. (ds * S) * L <= (ds * S) * R
      BY <1>4, <1>5, <1>6, <1>7, <1>8, <1>9, <1>10, <2>1
    <2> QED BY <1>11, <2>2, Cancel
  <1>13. S * (98 * (t * u) - 1600 * (m * dt)) <= 200 * E * (t * u)
    <2> DEFINE g == t * u
               k == dt * m
    <2>1. g \in Nat /\ k \in Nat /\ m * dt = k
      BY <1>2
    <2>2. (49 * S - 100 * E) * g <= (800 * S) * k
      BY <1>12
    <2> HIDE DEF S, E, g, k
    <2>3. /\ (49 * S - 100 * E) * g = 49 * (S * g) - 100 * (E * g) /\ (800 * S) * k = 800 * (S * k)
          /\ S * (98 * g - 1600 * k) = 98 * (S * g) - 1600 * (S * k) /\ 200 * E * g = 200 * (E * g)
          /\ S * g \in Int /\ S * k \in Int /\ E * g \in Int
      BY <1>1, <2>1, Z3
    <2>4. S * (98 * g - 1600 * k) <= 200 * E * g
      BY <2>2, <2>3
    <2> QED BY <2>1, <2>4 DEF g, k
  <1>14. 98 * (t * u) - 1600 * (m * dt) \in Int /\ 200 * E * (t * u) \in Int
    <2>1. m * dt \in Int
      BY Z3 DEF Size
    <2> HIDE DEF E
    <2> QED BY <1>1, <1>2, <2>1
  <1>15. 98 * (t * u) - 1600 * (m * dt) <= (200 * E * (t * u)) \div S
    <2> DEFINE a == 98 * (t * u) - 1600 * (m * dt)
               b == 200 * E * (t * u)
    <2>1. a \in Int /\ b \in Int /\ S * a <= b
      BY <1>13, <1>14
    <2> HIDE DEF S, a, b
    <2>2. a <= b \div S
      BY <1>1, <2>1, AtMostQuotient
    <2> QED BY <2>2 DEF a, b
  <1> QED BY <1>15
-----------------------------------------------------------------------------
(* A canvas is what the repair made of this picture for this order, which  *)
(* wants it; there is none before a repair was asked for.                  *)
CanvasIsExtended ==
    canvas # NoCanvas =>
        /\ canvas = Extended(picture, order)
        /\ Repairable(picture, order)
        /\ order.intent = "full_bleed"

NoneBefore == stage \in {"uploaded", "inspected", "rejected"} => canvas = NoCanvas

IInv == TypeOK /\ CanvasIsExtended /\ NoneBefore

LEMMA InitInvariant == Init => IInv
  BY InputAssumption DEF Init, IInv, TypeOK, CanvasIsExtended, NoneBefore, Stage

(* What the customer says of the trim does not change the arithmetic. *)
LEMMA TrimIsNoSize ==
    ASSUME NEW o \in OrderType, NEW p \in PictureType, NEW t \in Trim
    PROVE  LET o2 == [o EXCEPT !.trim = t]
           IN  /\ o2 \in OrderType /\ o2.intent = o.intent
               /\ Extended(p, o2) = Extended(p, o)
               /\ Repairable(p, o2) = Repairable(p, o)
  <1> DEFINE o2 == [o EXCEPT !.trim = t]
  <1>1. /\ o2 \in OrderType
        /\ o2.dw = o.dw /\ o2.dh = o.dh /\ o2.unit = o.unit /\ o2.intent = o.intent
        /\ o2.err = o.err
    BY DEF OrderType
  <1> HIDE DEF o2
  <1>2. EffectivePPI(p.w, p.h, o2) = EffectivePPI(p.w, p.h, o)
    BY <1>1 DEF EffectivePPI, LeastPPI, PPIOf, PerInch
  <1>3. Extended(p, o2) = Extended(p, o)
    BY <1>2 DEF Extended
  <1>4. AspectMatches(p, o2) = AspectMatches(p, o)
    BY <1>1 DEF AspectMatches
  <1>5. Repairable(p, o2) = Repairable(p, o)
    BY <1>3, <1>4 DEF Repairable
  <1> QED BY <1>1, <1>3, <1>5 DEF o2

LEMMA StepInvariant == IInv /\ [Next]_vars => IInv'
<1> SUFFICES ASSUME IInv, [Next]_vars PROVE IInv'
  OBVIOUS
<1> USE DEF IInv
<1>1. CASE InspectPicture
  <2>1. /\ stage' \in {"failed", "inspected"} /\ canvas = NoCanvas
        /\ UNCHANGED <<order, picture, canvas>>
    BY <1>1 DEF InspectPicture, NoneBefore
  <2> QED BY <2>1 DEF TypeOK, CanvasIsExtended, NoneBefore, Stage
<1>2. CASE Repair
  <2>1. canvas = NoCanvas /\ UNCHANGED <<order, picture>>
    BY <1>2 DEF Repair, NoneBefore
  <2>2. CASE order.intent = "full_bleed" /\ order.trim = "yes" /\ Repairable(picture, order)
    <3>1. stage' = "replied" /\ canvas' = Extended(picture, order)
      BY <1>2, <2>2 DEF Repair
    <3> QED BY <2>1, <2>2, <3>1, ExtendedType DEF TypeOK, CanvasIsExtended, NoneBefore, Stage
  <2>3. CASE ~(order.intent = "full_bleed" /\ order.trim = "yes" /\ Repairable(picture, order))
    <3>1. stage' = "rejected" /\ canvas' = NoCanvas
      BY <1>2, <2>1, <2>3 DEF Repair
    <3> QED BY <2>1, <3>1 DEF TypeOK, CanvasIsExtended, NoneBefore, Stage
  <2> QED BY <2>2, <2>3
<1>3. CASE Receive
  BY <1>3 DEF Receive, TypeOK, CanvasIsExtended, NoneBefore, Stage
<1>4. CASE InspectCanvas
  <2>1. /\ stage' \in {"failed", "repaired"} /\ stage \in {"received", "repaired"}
        /\ UNCHANGED <<order, picture, canvas>>
    BY <1>4 DEF InspectCanvas
  <2> QED BY <2>1 DEF TypeOK, CanvasIsExtended, NoneBefore, Stage
<1>5. ASSUME NEW t \in {"yes", "no"}, ConfirmTrim(t) PROVE IInv'
  <2>1. /\ order' = [order EXCEPT !.trim = t]
        /\ UNCHANGED <<picture, stage, canvas>>
    BY <1>5 DEF ConfirmTrim
  <2>2. t \in Trim /\ order \in OrderType /\ picture \in PictureType
    BY <1>5 DEF Trim, TypeOK
  <2>3. /\ order' \in OrderType /\ order'.intent = order.intent
        /\ Extended(picture, order') = Extended(picture, order)
        /\ Repairable(picture, order') = Repairable(picture, order)
    BY <2>1, <2>2, TrimIsNoSize
  <2> QED BY <2>1, <2>3 DEF TypeOK, CanvasIsExtended, NoneBefore
<1>6. CASE UNCHANGED vars
  BY <1>6 DEF vars, TypeOK, CanvasIsExtended, NoneBefore
<1> QED
  BY <1>1, <1>2, <1>3, <1>4, <1>5, <1>6 DEF Next

LEMMA Invariance == Spec => []IInv
  BY InitInvariant, StepInvariant, PTL DEF Spec

(* Orders, pictures and canvases stay well formed, and a repair under way  *)
(* has its canvas.                                                         *)
THEOREM TypeCorrect == Spec => []TypeOK
<1>1. IInv => TypeOK
  BY DEF IInv
<1> QED
  BY Invariance, <1>1, PTL

(* Every canvas the repair produces passes the bleed check of its recheck  *)
(* and of every later inspection, for every picture and declared size:     *)
(* rounding the PPI never takes away what rounding the margin outward gave.*)
THEOREM RepairClearsBleed == Spec => []RepairedHasItsBleed
<1>1. IInv => RepairedHasItsBleed
  <2> SUFFICES ASSUME IInv, stage = "repaired",
                      NEW r \in Hundredths(EffectivePPI(canvas.tw, canvas.th, order))
               PROVE  BleedSuffices(canvas.w, canvas.h, [w |-> canvas.tw, h |-> canvas.th], r)
    BY DEF RepairedHasItsBleed
  <2>1. canvas = Extended(picture, order) /\ order \in OrderType /\ picture \in PictureType
    BY DEF IInv, TypeOK, CanvasIsExtended
  <2>2. picture.w \in Size /\ picture.h \in Size
    BY <2>1 DEF PictureType
  <2> DEFINE p == EffectivePPI(picture.w, picture.h, order)
             m == Margin(p)
  <2>3. /\ canvas.tw = picture.w /\ canvas.th = picture.h
        /\ canvas.w = picture.w + 2 * m /\ canvas.h = picture.h + 2 * m
    BY <2>1, ExtendedType
  <2>4. p \in PPI /\ r \in Hundredths(p)
    BY <2>1, <2>2, <2>3, EffectiveIsNear
  <2>5. m \in Nat /\ r \in Nat /\ r <= 1600 * m
    BY <2>4, MarginCovers, Rounding, MarginSurvivesRounding
  <2> HIDE DEF m, p
  <2>6. canvas.w - canvas.tw = 2 * m /\ canvas.h - canvas.th = 2 * m
    BY <2>2, <2>3, <2>5 DEF Size
  <2>7. r <= 800 * (canvas.w - canvas.tw) /\ r <= 800 * (canvas.h - canvas.th)
    BY <2>5, <2>6
  <2>8. 0 <= r \div 62500000
    BY <2>5
  <2> QED BY <2>5, <2>6, <2>7, <2>8 DEF BleedSuffices
<1> QED
  BY Invariance, <1>1, PTL

(* The tolerance of the aspect costs either side at most 2 % of the bleed, *)
(* and floats at most two errors more.                                     *)
THEOREM SidesAreCovered == Spec => []BothSidesAreCovered
<1>1. IInv => BothSidesAreCovered
  <2> DEFINE Short(p) == 98 * p.num - 1600 * canvas.margin * p.den
             Loss(p)  == (200 * MaxError * p.num) \div Scale
  <2> SUFFICES ASSUME IInv, canvas # NoCanvas
               PROVE  \A p \in {PPIOf(canvas.tw, order.dw, order), PPIOf(canvas.th, order.dh, order)} :
                          Short(p) <= Loss(p)
    BY DEF BothSidesAreCovered
  <2>1. /\ canvas = Extended(picture, order) /\ order \in OrderType /\ picture \in PictureType
        /\ AspectMatches(picture, order)
    BY DEF IInv, TypeOK, CanvasIsExtended, Repairable
  <2> DEFINE w  == picture.w
             h  == picture.h
             dw == order.dw
             dh == order.dh
             u  == PerInch(order)
             e  == EffectivePPI(w, h, order)
             l  == LeastPPI(w, h, order)
             m  == canvas.margin
             j  == order.err.aspect
             P  == 49 * Scale - 50 * MaxError
  <2>2. w \in Size /\ h \in Size /\ dw \in Size /\ dh \in Size /\ u \in Size /\ j \in Error
    BY <2>1, LeastIsLeast DEF PictureType, OrderType
  <2>3. canvas.tw = w /\ canvas.th = h /\ m = Margin(e)
    BY <2>1, ExtendedType
  <2>4. /\ e \in PPI /\ m \in Nat /\ e.num <= 16 * (e.den * m)
        /\ e.den = l.den * Scale /\ l.num * (Scale - MaxError) <= e.num
    BY <2>1, <2>2, <2>3, EffectiveIsNear, MarginCovers
  <2>5. l = [num |-> w * u, den |-> dw] \/ l = [num |-> h * u, den |-> dh]
    BY <2>1, <2>2, LeastIsLeast
  <2>6. /\ 50 * (w * dh - dw * h) - dw * h <= (50 * j * (dw * h)) \div Scale
        /\ 50 * (dw * h - w * dh) - dw * h <= (50 * j * (dw * h)) \div Scale
    BY <2>1 DEF AspectMatches
  <2>7. PPIOf(w, dw, order) = [num |-> w * u, den |-> dw] /\ PPIOf(h, dh, order) = [num |-> h * u, den |-> dh]
    BY DEF PPIOf
  <2>8. Scale \in Nat /\ MaxError \in Nat /\ P \in Nat /\ P <= 50 * Scale
    BY FloatAssumption
  <2> HIDE DEF w, h, dw, dh, u, e, l, m, j
  <2>9. w * dh \in Nat /\ dw * h \in Nat /\ dw * h = h * dw /\ w * dw \in Nat /\ h * dh \in Nat
        /\ w * u \in Nat /\ h * u \in Nat
    BY <2>2, Z3 DEF Size
  <2>10. P * (h * dw) <= (50 * Scale) * (w * dh) /\ P * (w * dh) <= (50 * Scale) * (h * dw)
    BY <2>2, <2>6, <2>9, AspectBounds
  <2>11. ASSUME NEW a \in Nat PROVE P * a <= (50 * Scale) * a
    <3>1. a * P <= a * (50 * Scale)
      <4> HIDE DEF P
      <4> QED BY <2>8, Monotone
    <3> HIDE DEF P
    <3>2. a * P = P * a /\ a * (50 * Scale) = (50 * Scale) * a
      BY <2>8
    <3> QED BY <3>1, <3>2
  <2>12. ASSUME NEW s \in Size, NEW ds \in Size, l = [num |-> s * u, den |-> ds]
         PROVE  (s * u) * (Scale - MaxError) <= 16 * ((ds * Scale) * m)
    <3>1. l.num = s * u /\ l.den = ds
      BY <2>12
    <3>2. (s * u) * (Scale - MaxError) <= e.num /\ e.num <= 16 * ((ds * Scale) * m)
      BY <2>4, <3>1
    <3>3. (s * u) * (Scale - MaxError) \in Int /\ e.num \in Int /\ 16 * ((ds * Scale) * m) \in Int
      BY <2>2, <2>4, <2>8, <2>12 DEF PPI, Size
    <3> QED BY <3>2, <3>3
  <2>13. /\ 98 * (w * u) - 1600 * (m * dw) <= (200 * MaxError * (w * u)) \div Scale
         /\ 98 * (h * u) - 1600 * (m * dh) <= (200 * MaxError * (h * u)) \div Scale
    <3>1. CASE l = [num |-> w * u, den |-> dw]
      <4>1. (w * u) * (Scale - MaxError) <= 16 * ((dw * Scale) * m)
        BY <2>2, <2>12, <3>1
      <4> QED BY ONLY <2>2, <2>4, <2>9, <2>10, <2>11, <4>1, OtherSide
    <3>2. CASE l = [num |-> h * u, den |-> dh]
      <4>1. (h * u) * (Scale - MaxError) <= 16 * ((dh * Scale) * m)
        BY <2>2, <2>12, <3>2
      <4> QED BY ONLY <2>2, <2>4, <2>9, <2>10, <2>11, <4>1, OtherSide
    <3> QED BY <2>5, <3>1, <3>2
  <2>14. 1600 * m * dw = 1600 * (m * dw) /\ 1600 * m * dh = 1600 * (m * dh)
    BY <2>2, <2>4, Z3 DEF Size
  <2> QED BY <2>3, <2>7, <2>13, <2>14 DEF m, w, h, dw, dh
<1> QED
  BY Invariance, <1>1, PTL

(* With its trim known, a picture that can be read is only refused where   *)
(* the PPI rounds to nothing.                                              *)
LEMMA RefusesZero ==
    ASSUME NEW o, NEW w, NEW h, NEW light, NEW mode, NEW x,
           x # NoTrim, Readable(w, h, light), o.intent = "full_bleed",
           NEW r \in Hundredths(EffectivePPI(x.w, x.h, o)), r # 0
    PROVE  Inspect(o, w, h, light, mode, x) # {}
  <1> DEFINE common == <<CheckResolution(o, w, h, x), CheckColor(mode)>>
             B(q) == common \o <<CheckBleed(o, w, h, x, q)>>
             S == Hundredths(EffectivePPI(x.w, x.h, o)) \ {0}
  <1>1. TrimOf(o, w, h, x) = x
    BY DEF TrimOf
  <1>2. Inspect(o, w, h, light, mode, x) = {B(q) : q \in S}
    BY <1>1 DEF Inspect
  <1> HIDE DEF B
  <1>3. B(r) \in {B(q) : q \in S}
    OBVIOUS
  <1> QED BY <1>2, <1>3

(* A repaired picture is only ever refused by the service that made it for *)
(* the size of its file, or where the PPI rounds to 0.00.                  *)
THEOREM CanvasIsReadable == Spec => RecheckSucceeds
<1>1. IInv /\ [Next]_vars =>
        ((stage \in {"received", "repaired"} /\ stage' = "failed") =>
            \/ ~picture.light
            \/ 0 \in Hundredths(EffectivePPI(canvas.tw, canvas.th, order)))
  <2> SUFFICES ASSUME IInv, [Next]_vars, stage \in {"received", "repaired"}, stage' = "failed",
                      picture.light
               PROVE  0 \in Hundredths(EffectivePPI(canvas.tw, canvas.th, order))
    OBVIOUS
  <2>1. InspectCanvas
    BY DEF Next, InspectPicture, Repair, Receive, ConfirmTrim, vars
  <2>2. /\ canvas # NoCanvas /\ canvas = Extended(picture, order)
        /\ order \in OrderType /\ picture \in PictureType
        /\ CanvasFits(picture, canvas)
    BY DEF IInv, TypeOK, CanvasIsExtended, Repairable
  <2>3. picture.w \in Size /\ picture.h \in Size /\ canvas.tw = picture.w /\ canvas.th = picture.h
    BY <2>2, ExtendedType DEF PictureType
  <2>4. Readable(canvas.w, canvas.h, picture.light)
    BY <2>2 DEF Readable, CanvasFits
  <2> DEFINE e == EffectivePPI(canvas.tw, canvas.th, order)
  <2>5. e \in PPI /\ Hundredths(e) # {}
    BY <2>2, <2>3, EffectiveIsNear, Rounding
  <2>6. Coordinates(canvas) = [w |-> canvas.tw, h |-> canvas.th] /\ Coordinates(canvas) # NoTrim
    BY <2>2, <2>3 DEF Coordinates, NoTrim, Size
  <2>7. Inspect(order, canvas.w, canvas.h, picture.light, Working(picture.mode), Coordinates(canvas)) = {}
    BY <2>1 DEF InspectCanvas
  <2>8. \A r \in Hundredths(e) : r = 0
    BY <2>2, <2>4, <2>6, <2>7, RefusesZero DEF IInv, CanvasIsExtended
  <2> QED BY <2>5, <2>8
<1> QED
  BY Invariance, <1>1, PTL DEF Spec, RecheckSucceeds

-----------------------------------------------------------------------------
(* Each finding on a trim that is known, and on one that is not. *)
LEMMA ResolutionIsTheRule ==
    ASSUME NEW o \in OrderType, NEW w, NEW h, NEW x, NEW explicit \in BOOLEAN, NEW art,
           Rules!TrimResolved(o.intent, o.trim, explicit) <=> x # NoTrim,
           x # NoTrim => art.ppi = (IF Enough(EffectivePPI(x.w, x.h, o))
                                    THEN "ok" ELSE "low")
    PROVE  CheckResolution(o, w, h, x) = Rules!CheckResolution(o.intent, o.trim, explicit, art)
  BY DEF CheckResolution, Rules!CheckResolution, UnresolvedReason, Rules!UnresolvedTrimReason,
         F, Rules!F

LEMMA BleedIsTheRule ==
    ASSUME NEW o \in OrderType, NEW w, NEW h, NEW x, NEW r, NEW explicit \in BOOLEAN,
           Rules!TrimResolved(o.intent, o.trim, explicit) <=> x # NoTrim,
           x # NoTrim => (BleedSuffices(w, h, x, r) <=> explicit)
    PROVE  CheckBleed(o, w, h, x, r) = Rules!CheckBleed(o.intent, o.trim, explicit)
  BY DEF CheckBleed, Rules!CheckBleed, UnresolvedReason, Rules!UnresolvedTrimReason, F, Rules!F

LEMMA ColorIsTheRule ==
    ASSUME NEW mode, NEW art, art.color = CheckColor(mode).result
    PROVE  CheckColor(mode) = Rules!CheckColor(art)
  BY DEF CheckColor, Rules!CheckColor, F, Rules!F

(* A whole report. *)
LEMMA ReportIsTheRule ==
    ASSUME NEW o \in OrderType, NEW w, NEW h, NEW light, NEW mode, NEW given,
           NEW explicit \in BOOLEAN, NEW art,
           NEW answer \in Inspect(o, w, h, light, mode, given),
           Rules!TrimResolved(o.intent, o.trim, explicit) <=> TrimOf(o, w, h, given) # NoTrim,
           TrimOf(o, w, h, given) # NoTrim =>
              /\ art.ppi = (IF Enough(EffectivePPI(TrimOf(o, w, h, given).w, TrimOf(o, w, h, given).h, o))
                            THEN "ok" ELSE "low")
              /\ o.intent = "full_bleed" =>
                   \A r \in Hundredths(EffectivePPI(TrimOf(o, w, h, given).w, TrimOf(o, w, h, given).h, o)) \ {0} :
                      BleedSuffices(w, h, TrimOf(o, w, h, given), r) <=> explicit,
           art.color = CheckColor(mode).result
    PROVE  answer = Rules!Inspect(o.intent, o.trim, explicit, art)
  <1> DEFINE x == TrimOf(o, w, h, given)
             S == Hundredths(EffectivePPI(x.w, x.h, o)) \ {0}
             res == CheckResolution(o, w, h, x)
             col == CheckColor(mode)
  <1>1. res = Rules!CheckResolution(o.intent, o.trim, explicit, art)
    BY ResolutionIsTheRule
  <1>2. col = Rules!CheckColor(art)
    BY ColorIsTheRule
  <1>3. o.intent \in {"border", "full_bleed"}
    BY DEF OrderType, Intent
  <1>4. CASE o.intent = "border"
    <2>1. answer = <<res, col>>
      BY <1>4 DEF Inspect
    <2> QED BY <1>1, <1>2, <1>4, <2>1 DEF Rules!Inspect
  <1>5. CASE o.intent = "full_bleed"
    <2>1. PICK r : answer = <<res, col>> \o <<CheckBleed(o, w, h, x, r)>> /\ (x # NoTrim => r \in S)
      BY <1>5 DEF Inspect
    <2>2. CheckBleed(o, w, h, x, r) = Rules!CheckBleed(o.intent, o.trim, explicit)
      BY <1>5, <2>1, BleedIsTheRule
    <2>3. answer = Append(<<res, col>>, CheckBleed(o, w, h, x, r))
      BY <2>1
    <2> QED BY <1>1, <1>2, <1>5, <2>2, <2>3 DEF Rules!Inspect
  <1> QED BY <1>3, <1>4, <1>5

(* Where the float decides whether a picture has 300 PPI, the exact PPI is *)
(* no more than an error away from 300.                                    *)
THEOREM FloatsDecideAtTheEdge ==
    ASSUME NEW o \in OrderType, NEW w \in Size, NEW h \in Size
    PROVE  LET p == LeastPPI(w, h, o)
           IN  IF Enough(EffectivePPI(w, h, o))
               THEN (300 * Scale) * p.den <= p.num * (Scale + MaxError)
               ELSE p.num * (Scale - MaxError) < (300 * Scale) * p.den
<1> DEFINE n == LeastPPI(w, h, o).num
           d == LeastPPI(w, h, o).den
           e == EffectivePPI(w, h, o)
<1>1. /\ n \in Nat /\ d \in Size /\ e.num \in Nat /\ e.den = d * Scale
      /\ n * (Scale - MaxError) <= e.num /\ e.num <= n * (Scale + MaxError)
  BY EffectiveIsNear DEF PPI
<1>2. Enough(e) <=> 300 * (d * Scale) <= 1 * e.num
  BY <1>1, Z3 DEF Enough, AtMost, Size
<1> HIDE DEF n, d, e
<1>3. Scale \in Nat /\ MaxError \in Nat /\ d \in Nat
  BY <1>1, FloatAssumption DEF Size
<1>4. 300 * (d * Scale) = (300 * Scale) * d /\ d * Scale \in Nat
      /\ n * (Scale - MaxError) \in Int /\ n * (Scale + MaxError) \in Int
  BY <1>1, <1>3
<1>5. /\ Enough(e) => (300 * Scale) * d <= n * (Scale + MaxError)
      /\ ~Enough(e) => n * (Scale - MaxError) < (300 * Scale) * d
  BY <1>1, <1>2, <1>4
<1> QED
  BY <1>5 DEF n, d, e

(* The reports of the service are what Checks says of a picture's kind,    *)
(* one kind before and after a repair, however the floats decided it: the  *)
(* abstraction under the case model is exact.                              *)
THEOREM ChecksAreFaithful == Spec => ReportsAreTheRules
<1>1. IInv /\ [Next]_vars =>
        (report' # report =>
           report' = Rules!Inspect(order.intent, order.trim, stage' = "repaired", Kind))
  <2> SUFFICES ASSUME IInv, [Next]_vars, report' # report
               PROVE  report' = Rules!Inspect(order.intent, order.trim, stage' = "repaired", Kind)
    OBVIOUS
  <2>1. order \in OrderType /\ picture \in PictureType
    BY DEF IInv, TypeOK
  <2>2. picture.w \in Size /\ picture.h \in Size /\ picture.w # 0 /\ order.intent \in {"border", "full_bleed"}
    BY <2>1 DEF PictureType, OrderType, Size, Intent
  <2> DEFINE e == EffectivePPI(picture.w, picture.h, order)
  <2>3. /\ Kind.ppi = (IF Enough(e) THEN "ok" ELSE "low")
        /\ Kind.color = CheckColor(picture.mode).result
    BY DEF Kind
  <2>4. e \in PPI
    BY <2>1, <2>2, EffectiveIsNear
  <2>5. CASE InspectPicture
    <3> DEFINE x == TrimOf(order, picture.w, picture.h, NoTrim)
    <3>1. /\ report' \in Inspect(order, picture.w, picture.h, TRUE, picture.mode, NoTrim)
          /\ stage' = "inspected"
      BY <2>5 DEF InspectPicture
    <3>2. Rules!TrimResolved(order.intent, order.trim, FALSE) <=> x # NoTrim
      BY <2>2 DEF TrimOf, Rules!TrimResolved, NoTrim
    <3>3. x # NoTrim => x = [w |-> picture.w, h |-> picture.h]
      BY DEF TrimOf
    <3>4. ASSUME x # NoTrim, NEW r \in Hundredths(e) \ {0}
          PROVE  ~BleedSuffices(picture.w, picture.h, x, r)
      <4>1. r \in Nat /\ r # 0
        BY <2>4, <3>4, Rounding
      <4>2. 800 * (picture.w - x.w) = 0
        BY <2>2, <3>3, <3>4 DEF Size
      <4> QED BY <4>1, <4>2 DEF BleedSuffices
    <3> HIDE DEF x
    <3>5. x # NoTrim => EffectivePPI(x.w, x.h, order) = e
      BY <3>3
    <3>6. report' = Rules!Inspect(order.intent, order.trim, FALSE, Kind)
      BY <2>1, <2>3, <3>1, <3>2, <3>4, <3>5, ReportIsTheRule DEF x
    <3>7. (stage' = "repaired") = FALSE
      BY <3>1
    <3> QED BY <3>6, <3>7
  <2>6. CASE InspectCanvas
    <3> DEFINE c == Coordinates(canvas)
               x == TrimOf(order, canvas.w, canvas.h, c)
    <3>1. /\ report' \in Inspect(order, canvas.w, canvas.h, picture.light,
                                 Working(picture.mode), c)
          /\ stage' = "repaired"
      BY <2>6 DEF InspectCanvas
    <3>2. /\ canvas # NoCanvas /\ canvas = Extended(picture, order)
          /\ Eligible(picture)
      BY <2>6 DEF InspectCanvas, IInv, TypeOK, CanvasIsExtended, Repairable
    <3>3. /\ canvas.tw = picture.w /\ canvas.th = picture.h
          /\ canvas.w = picture.w + 2 * Margin(e) /\ canvas.h = picture.h + 2 * Margin(e)
      BY <2>1, <3>2, ExtendedType
    <3>4. x = [w |-> picture.w, h |-> picture.h] /\ x # NoTrim
      BY <2>2, <3>2, <3>3 DEF Coordinates, TrimOf, NoTrim
    <3>5. Rules!TrimResolved(order.intent, order.trim, TRUE)
      BY DEF Rules!TrimResolved
    <3>6. ASSUME NEW r \in Hundredths(e) PROVE BleedSuffices(canvas.w, canvas.h, x, r)
      <4>1. r \in Nat /\ Margin(e) \in Nat /\ r <= 1600 * Margin(e)
        BY <2>4, <3>6, Rounding, MarginCovers, MarginSurvivesRounding
      <4>2. canvas.w - x.w = 2 * Margin(e) /\ canvas.h - x.h = 2 * Margin(e)
        BY <2>2, <3>3, <3>4, <4>1 DEF Size
      <4> HIDE DEF e, x
      <4>3. 800 * (canvas.w - x.w) = 1600 * Margin(e) /\ 800 * (canvas.h - x.h) = 1600 * Margin(e)
        BY <4>1, <4>2
      <4> QED BY <4>1, <4>3 DEF BleedSuffices
    <3>7. CheckColor(Working(picture.mode)).result = CheckColor(picture.mode).result
      BY <3>2 DEF Eligible, Working, CheckColor, F
    <3> HIDE DEF x
    <3>8. EffectivePPI(x.w, x.h, order) = e
      BY <3>4
    <3>9. report' = Rules!Inspect(order.intent, order.trim, TRUE, Kind)
      BY <2>1, <2>3, <3>1, <3>4, <3>5, <3>6, <3>7, <3>8, ReportIsTheRule DEF x
    <3>10. (stage' = "repaired") = TRUE
      BY <3>1
    <3> QED BY <3>9, <3>10
  <2> QED BY <2>5, <2>6 DEF Next, Repair, Receive, ConfirmTrim, vars
<1> QED
  BY Invariance, <1>1, PTL DEF Spec, ReportsAreTheRules
=============================================================================

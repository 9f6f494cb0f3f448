--------------------------- MODULE LimbDivProofs ---------------------------
(***************************************************************************)
(* mtx_limb_div_qr divides: every limb it estimates is right or one too    *)
(* large, nothing of the dividend is lost between two limbs, and when it   *)
(* returns floor and remainder are where the contract wants them, for      *)
(* every limb size, every length and every work space.                     *)
(***************************************************************************)
EXTENDS LimbDiv, NumberFacts

-----------------------------------------------------------------------------
(* Algorithm D on numbers.  T is the two top limbs of what is left, bot    *)
(* the third and rest what is below; vt, vs and l2 the same of the divisor *)
(* n.  The estimate q leaves r of T.                                       *)

KnuthNumbers(q, r, t, bot, rest, vt, vs, l2, b, p) ==
  /\ q \in Nat /\ r \in Nat /\ t \in Nat /\ bot \in Nat /\ rest \in Nat
  /\ vt \in Nat /\ vs \in Nat /\ l2 \in Nat /\ b \in Nat /\ p \in Nat
  /\ rest < p /\ l2 < p
  /\ q * vt + r = t

\* Times the divisor the estimate leaves what r, its second limb and its low
\* limbs leave.
LEMMA EstimateTimesDivisor ==
  ASSUME NEW q, NEW r, NEW t, NEW bot, NEW rest, NEW vt, NEW vs, NEW l2, NEW b, NEW p,
         KnuthNumbers(q, r, t, bot, rest, vt, vs, l2, b, p)
  PROVE  /\ q * ((vt * b + vs) * p + l2) \in Nat
         /\ (t * b + bot) * p + rest \in Nat
         /\ q * ((vt * b + vs) * p + l2) =
              ((t * b + bot) * p + rest) - (r * b + bot - q * vs) * p + q * l2 - rest
<1> USE DEF KnuthNumbers
<1>1. q * ((vt * b + vs) * p + l2) = ((q * vt) * b + q * vs) * p + q * l2
  <2>1. \A x, y \in Nat : q * (x * p + y) = (q * x) * p + q * y
    OBVIOUS
  <2>2. q * (vt * b + vs) = (q * vt) * b + q * vs
    OBVIOUS
  <2>3. vt * b + vs \in Nat
    OBVIOUS
  <2> QED
    BY <2>1, <2>2, <2>3
<1>2. q * vt = t - r /\ q * vs \in Nat /\ q * l2 \in Nat
  OBVIOUS
<1>3. ((t - r) * b + q * vs) * p = (t * b + bot) * p - (r * b + bot - q * vs) * p
  <2>1. \A x, y, z, w \in Int : x = y - z => x * p = y * p - z * p
    OBVIOUS
  <2>2. (t - r) * b = t * b - r * b /\ t * b \in Int /\ r * b \in Int
    OBVIOUS
  <2>3. (t - r) * b + q * vs = (t * b + bot) - (r * b + bot - q * vs)
    BY <1>2, <2>2
  <2> QED
    BY <1>2, <2>1, <2>2, <2>3
<1>4. (t * b + bot) * p \in Nat /\ (r * b + bot - q * vs) * p \in Int
  BY <1>2
<1>5. q * ((vt * b + vs) * p + l2) \in Nat
  OBVIOUS
<1> QED
  BY <1>1, <1>2, <1>3, <1>4, <1>5

\* An estimate that passes the test is at most one too large.
LEMMA KnuthUpper ==
  ASSUME NEW q, NEW r, NEW t, NEW bot, NEW rest, NEW vt, NEW vs, NEW l2, NEW b, NEW p,
         KnuthNumbers(q, r, t, bot, rest, vt, vs, l2, b, p),
         q < b, q * vs <= r * b + bot, b * p <= (vt * b + vs) * p + l2
  PROVE  q * ((vt * b + vs) * p + l2) <
           ((t * b + bot) * p + rest) + ((vt * b + vs) * p + l2)
<1>1. /\ q * ((vt * b + vs) * p + l2) =
           ((t * b + bot) * p + rest) - (r * b + bot - q * vs) * p + q * l2 - rest
      /\ (t * b + bot) * p + rest \in Nat
  BY EstimateTimesDivisor
<1>2. q * vs \in Nat /\ r * b + bot \in Nat /\ p \in Nat /\ rest \in Nat
  BY DEF KnuthNumbers
<1>3. (r * b + bot - q * vs) * p \in Nat
  <2>1. r * b + bot - q * vs \in Nat
    BY <1>2 DEF KnuthNumbers
  <2>2. \A x \in Nat : x * p \in Nat
    BY <1>2
  <2> QED
    BY <2>1, <2>2
<1>4. q * l2 \in Nat /\ q * l2 < b * p
  <2>1. q * l2 \in Nat /\ q * l2 <= q * p /\ q * p \in Nat
    BY DEF KnuthNumbers
  <2>2. b * p = q * p + (b - q) * p /\ (b - q) * p >= b - q /\ b - q > 0
    BY DEF KnuthNumbers
  <2> QED
    BY <2>1, <2>2 DEF KnuthNumbers
<1>5. (vt * b + vs) * p + l2 \in Nat /\ b * p \in Nat
  BY DEF KnuthNumbers
<1> QED
  BY <1>1, <1>2, <1>3, <1>4, <1>5

\* An estimate that fails the test is too large.
LEMMA KnuthLower ==
  ASSUME NEW q, NEW r, NEW t, NEW bot, NEW rest, NEW vt, NEW vs, NEW l2, NEW b, NEW p,
         KnuthNumbers(q, r, t, bot, rest, vt, vs, l2, b, p),
         q * vs > r * b + bot
  PROVE  q * ((vt * b + vs) * p + l2) > (t * b + bot) * p + rest
<1>1. /\ q * ((vt * b + vs) * p + l2) =
           ((t * b + bot) * p + rest) - (r * b + bot - q * vs) * p + q * l2 - rest
      /\ (t * b + bot) * p + rest \in Nat
  BY EstimateTimesDivisor
<1>2. q * vs \in Nat /\ r * b + bot \in Nat /\ p \in Nat /\ rest \in Nat /\ rest < p
  BY DEF KnuthNumbers
<1>3. (r * b + bot - q * vs) * p <= -p
  <2>1. \A x \in Int : x <= -1 => x * p <= -p
    BY <1>2
  <2>2. r * b + bot - q * vs \in Int /\ r * b + bot - q * vs <= -1
    BY <1>2 DEF KnuthNumbers
  <2> QED
    BY <2>1, <2>2
<1>4. q * l2 \in Nat /\ (r * b + bot - q * vs) * p \in Int
  BY <1>2 DEF KnuthNumbers
<1> QED
  BY <1>1, <1>2, <1>3, <1>4

-----------------------------------------------------------------------------
(* Lengths and the shift *)

LEMMA LengthFacts ==
  ASSUME NEW n \in Nat, NEW c \in 0..(DCount + VCount), n < LimbPower(c)
  PROVE  /\ Length(n) \in 0..c
         /\ n < LimbPower(Length(n))
         /\ Length(n) > 0 => n >= LimbPower(Length(n) - 1)
<1> DEFINE T == {l \in Nat : n < LimbPower(l)}
           Is(l) == n < LimbPower(l) /\ (l > 0 => n >= LimbPower(l - 1))
<1>0. DCount + VCount \in Nat /\ c \in Nat /\ \A l \in Nat : LimbPower(l) \in Nat
  BY DivAssumption, LimbPowers
<1>1. PICK l \in T : \A k1 \in T : l <= k1
  <2>1. c \in T /\ T \in SUBSET Nat
    BY <1>0
  <2> HIDE DEF T
  <2> QED
    BY <2>1, LeastNumber
<1>2. l \in 0..c /\ Is(l)
  BY <1>0, <1>1
<1>3. Length(n) \in 0..(DCount + VCount) /\ Is(Length(n))
  <2>1. \E l1 \in 0..(DCount + VCount) : Is(l1)
    BY <1>0, <1>2
  <2> QED
    BY <2>1 DEF Length
<1>4. Length(n) <= c
  <2> SUFFICES ASSUME Length(n) > c
               PROVE  FALSE
    BY <1>0, <1>3
  <2> DEFINE h == Length(n) - 1
  <2>1. h \in Nat /\ n >= LimbPower(h) /\ (c = h \/ c < h)
    BY <1>0, <1>3
  <2> HIDE DEF h
  <2>2. LimbPower(c) <= LimbPower(h)
    <3>1. CASE c = h
      BY <1>0, <3>1
    <3>2. CASE c < h
      BY <1>0, <2>1, <3>2, LimbPowerMonotone
    <3> QED
      BY <2>1, <3>1, <3>2
  <2> QED
    BY <1>0, <2>1, <2>2
<1> QED
  BY <1>0, <1>3, <1>4

LEMMA Sizes ==
  ASSUME TypeOK
  PROVE  /\ dividend \in Nat /\ divisor \in Nat
         /\ DCount \in Nat \ {0} /\ VCount \in Nat \ {0}
         /\ d_count \in 0..DCount /\ v_count \in 0..VCount
         /\ dividend < LimbPower(d_count) /\ divisor < LimbPower(v_count)
         /\ d_count > 0 => dividend >= LimbPower(d_count - 1)
         /\ v_count > 0 => divisor >= LimbPower(v_count - 1) /\ divisor > 0
         /\ v_count = 0 => divisor = 0
<1>1. /\ DCount \in Nat \ {0} /\ VCount \in Nat \ {0}
      /\ DCount \in 0..(DCount + VCount) /\ VCount \in 0..(DCount + VCount)
  BY DivAssumption
<1>2. /\ dividend \in Nat /\ divisor \in Nat
      /\ dividend < LimbPower(DCount) /\ divisor < LimbPower(VCount)
  <2>1. /\ dividend \in 0..(LimbPower(DCount) - 1)
        /\ divisor \in 0..(LimbPower(VCount) - 1)
    BY DivAssumption DEF TypeOK
  <2>2. LimbPower(DCount) \in Nat /\ LimbPower(VCount) \in Nat
    BY <1>1, LimbPowers
  <2> QED
    BY <2>1, <2>2
<1>3. /\ d_count \in 0..DCount /\ dividend < LimbPower(d_count)
      /\ d_count > 0 => dividend >= LimbPower(d_count - 1)
      /\ v_count \in 0..VCount /\ divisor < LimbPower(v_count)
      /\ v_count > 0 => divisor >= LimbPower(v_count - 1)
  BY <1>1, <1>2, LengthFacts DEF d_count, v_count
<1>4. v_count > 0 => divisor > 0
  <2> SUFFICES ASSUME v_count > 0
               PROVE  divisor > 0
    OBVIOUS
  <2>1. v_count - 1 \in Nat
    BY <1>1, <1>3
  <2>2. LimbPower(v_count - 1) \in Nat \ {0}
    BY <2>1, LimbPowers
  <2> QED
    BY <1>2, <1>3, <2>2
<1>5. v_count = 0 => divisor = 0
  BY <1>2, <1>3, LimbPowers
<1> QED
  BY <1>1, <1>2, <1>3, <1>4, <1>5

\* The shift exists, and makes the divisor fill its limbs.
LEMMA ShiftFacts ==
  ASSUME TypeOK, v_count > 0
  PROVE  /\ Shift \in 0..(W - 1) /\ 2^Shift \in Nat \ {0}
         /\ Normal \in Nat \ {0} /\ Normal < LimbPower(v_count)
         /\ 2 * Normal >= LimbPower(v_count)
<1> DEFINE T == {s \in Nat : 2 * divisor * 2^s >= LimbPower(v_count)}
           Is(s) == /\ divisor * 2^s < LimbPower(v_count)
                    /\ 2 * divisor * 2^s >= LimbPower(v_count)
           top == W - 1
           low == v_count - 1
<1>1. /\ divisor \in Nat \ {0} /\ v_count \in Nat /\ divisor < LimbPower(v_count)
      /\ divisor >= LimbPower(low) /\ low \in Nat /\ low + 1 = v_count
  BY Sizes
<1>2. top \in Nat /\ top + 1 = W
  BY WAssumption
<1>3. top \in T
  <2>1. Base = 2 * 2^top /\ 2^top \in Nat
    BY <1>2, PowerNext, PowerType DEF Base
  <2>2. LimbPower(v_count) = Base * LimbPower(low) /\ LimbPower(low) \in Nat
    BY <1>1, LimbPowers
  <2>3. \A x, y, z \in Nat : x >= z => 2 * x * y >= (2 * y) * z
    <3> SUFFICES ASSUME NEW x \in Nat, NEW y \in Nat, NEW z \in Nat, x >= z
                 PROVE  2 * x * y >= (2 * y) * z
      OBVIOUS
    <3>1. y * x >= y * z
      OBVIOUS
    <3> QED
      BY <3>1
  <2> QED
    BY <1>1, <1>2, <2>1, <2>2, <2>3
<1>4. PICK s \in T : \A k1 \in T : s <= k1
  <2>1. T \in SUBSET Nat /\ T # {}
    BY <1>3
  <2> HIDE DEF T
  <2> QED
    BY <2>1, LeastNumber
<1>5. s \in Nat /\ s <= top /\ 2 * divisor * 2^s >= LimbPower(v_count)
  BY <1>3, <1>4
<1>6. divisor * 2^s < LimbPower(v_count)
  <2>1. CASE s = 0
    BY <1>1, <2>1, PowerSmall
  <2>2. CASE s > 0
    <3> DEFINE r == s - 1
    <3>1. r \in Nat /\ r + 1 = s
      BY <1>5, <2>2
    <3>2. r \notin T
      BY <1>4, <1>5, <3>1
    <3>3. 2^s = 2 * 2^r /\ 2^r \in Nat
      BY <3>1, PowerNext, PowerType
    <3> HIDE DEF r
    <3>4. ~ (2 * divisor * 2^r >= LimbPower(v_count))
      BY <3>1, <3>2
    <3>5. LimbPower(v_count) \in Nat
      BY <1>1, LimbPowers
    <3>6. 2 * divisor * 2^r = divisor * (2 * 2^r) /\ 2 * divisor * 2^r \in Nat
      BY <1>1, <3>3
    <3> QED
      BY <3>3, <3>4, <3>5, <3>6
  <2> QED
    BY <1>5, <2>1, <2>2
<1>7. Shift \in 0..(W - 1) /\ Is(Shift)
  <2>1. s \in 0..(W - 1) /\ Is(s)
    BY <1>2, <1>5, <1>6
  <2>2. \E s1 \in 0..(W - 1) : Is(s1)
    BY <2>1
  <2> QED
    BY <2>2 DEF Shift
<1>8. Shift \in Nat /\ 2^Shift \in Nat \ {0}
  BY <1>2, <1>7, PowerType
<1>9. Normal \in Nat \ {0} /\ 2 * Normal = 2 * divisor * 2^Shift
  BY <1>1, <1>8 DEF Normal
<1> QED
  BY <1>7, <1>8, <1>9 DEF Normal

\* The limbs of the normalized divisor.
LEMMA DivisorLimbs ==
  ASSUME TypeOK, v_count > 0
  PROVE  /\ \A l \in Nat : V(l) \in Limb
         /\ \A l \in Nat : Normal % LimbPower(l) \in 0..(LimbPower(l) - 1)
         /\ \A l \in Nat : Normal % LimbPower(l + 1) =
                             (Normal % LimbPower(l)) + V(l) * LimbPower(l)
         /\ Normal % LimbPower(0) = 0
         /\ Normal % LimbPower(v_count) = Normal
<1>1. Normal \in Nat /\ Normal < LimbPower(v_count) /\ v_count \in Nat
  BY Sizes, ShiftFacts
<1>2. \A l \in Nat : V(l) = (Normal \div LimbPower(l)) % Base
  BY DEF V, LimbOf, Normal
<1> HIDE DEF V, Normal
<1>3. ASSUME NEW l \in Nat
      PROVE  /\ V(l) \in Limb
             /\ Normal % LimbPower(l) \in 0..(LimbPower(l) - 1)
             /\ Normal % LimbPower(l + 1) = (Normal % LimbPower(l)) + V(l) * LimbPower(l)
  <2>1. LimbPower(l) \in Nat \ {0} /\ Base \in Nat \ {0} /\ Normal \in Int
    BY <1>1, LimbPowers, BaseType
  <2>2. /\ Normal \div LimbPower(l) \in Int
        /\ Normal % LimbPower(l) \in 0..(LimbPower(l) - 1)
    BY <2>1, Division
  <2>3. (Normal \div LimbPower(l)) % Base \in 0..(Base - 1)
    BY <2>1, <2>2, Division
  <2>4. Normal % LimbPower(l + 1) =
          (Normal % LimbPower(l)) + ((Normal \div LimbPower(l)) % Base) * LimbPower(l)
    BY <2>1, RemainderNext
  <2> QED
    BY <1>2, <2>2, <2>3, <2>4 DEF Limb
<1>4. Normal % LimbPower(0) = 0
  BY <1>1, LimbPowers
<1>5. Normal % LimbPower(v_count) = Normal
  <2>1. /\ LimbPower(v_count) \in Nat \ {0} /\ Normal \in 0..(LimbPower(v_count) - 1)
        /\ Normal \in Int /\ Normal = LimbPower(v_count) * 0 + Normal
    BY <1>1, LimbPowers
  <2> QED
    BY <2>1, DivisionUnique
<1> QED
  BY <1>3, <1>4, <1>5

\* The two top limbs of the normalized divisor.
LEMMA TopLimbs ==
  ASSUME TypeOK, Long
  PROVE  /\ v_count - 2 \in Nat /\ v_count - 1 \in Nat
         /\ LimbPower(v_count - 1) = Base * LimbPower(v_count - 2)
         /\ LimbPower(v_count) = Base * LimbPower(v_count - 1)
         /\ V(v_count - 1) \in Limb \ {0} /\ V(v_count - 2) \in Limb
         /\ Normal % LimbPower(v_count - 2) \in 0..(LimbPower(v_count - 2) - 1)
         /\ Normal = (V(v_count - 1) * Base + V(v_count - 2)) * LimbPower(v_count - 2)
                     + (Normal % LimbPower(v_count - 2))
         /\ Base * LimbPower(v_count - 2) <= Normal
<1> DEFINE h == v_count - 2
           vt == V(h + 1)
           vs == V(h)
           low == Normal % LimbPower(h)
           p == LimbPower(h)
<1>1. v_count \in Nat /\ h \in Nat /\ h + 1 = v_count - 1 /\ (h + 1) + 1 = v_count
  BY Sizes DEF Long
<1> HIDE DEF h
<1>2. /\ LimbPower(h + 1) = Base * p /\ LimbPower((h + 1) + 1) = Base * LimbPower(h + 1)
      /\ p \in Nat \ {0} /\ Base \in Nat /\ Base >= 2
  BY <1>1, LimbPowers, BaseType
<1>3. /\ vt \in Limb /\ vs \in Limb /\ low \in 0..(p - 1)
      /\ Normal % LimbPower(h + 1) = low + vs * p
      /\ Normal % LimbPower((h + 1) + 1) = (Normal % LimbPower(h + 1)) + vt * LimbPower(h + 1)
      /\ Normal % LimbPower(h + 1) \in 0..(LimbPower(h + 1) - 1)
      /\ Normal % LimbPower((h + 1) + 1) = Normal
  BY <1>1, DivisorLimbs DEF Long
<1>4. Normal \in Nat /\ 2 * Normal >= LimbPower((h + 1) + 1)
  BY <1>1, ShiftFacts DEF Long
<1>5. Base * p <= Normal
  <2>1. Base * LimbPower(h + 1) >= 2 * LimbPower(h + 1) /\ LimbPower(h + 1) \in Nat
    BY <1>1, <1>2, LimbPowers
  <2> QED
    BY <1>2, <1>4, <2>1
<1> HIDE DEF p, vt, vs, low
<1>6. vt \in Nat /\ vs \in Nat /\ low \in Nat
  BY <1>3 DEF Limb
<1>7. vt # 0
  <2> SUFFICES ASSUME vt = 0
               PROVE  FALSE
    OBVIOUS
  <2>1. LimbPower(h + 1) \in Nat /\ vt * LimbPower(h + 1) = 0
    BY <1>1, LimbPowers
  <2>2. Normal < LimbPower(h + 1)
    BY <1>3, <2>1
  <2> QED
    BY <1>2, <1>4, <1>5, <2>1, <2>2
<1>8. Normal = (vt * Base + vs) * p + low
  <2>1. vt * (Base * p) = (vt * Base) * p /\ (vt * Base + vs) * p = (vt * Base) * p + vs * p
    BY <1>2, <1>6
  <2>2. Normal = (low + vs * p) + vt * (Base * p)
    BY <1>2, <1>3
  <2>3. vt * (Base * p) \in Nat /\ vs * p \in Nat
    BY <1>2, <1>6
  <2> QED
    BY <1>6, <2>1, <2>2, <2>3
<1>9. V(h + 1) \in Limb \ {0} /\ V(h) \in Limb
  BY <1>3, <1>7 DEF vt, vs
<1>10. Normal = (V(h + 1) * Base + V(h)) * LimbPower(h) + (Normal % LimbPower(h))
  BY <1>8 DEF vt, vs, p, low
<1>11. /\ LimbPower(h + 1) = Base * LimbPower(h) /\ Base * LimbPower(h) <= Normal
       /\ Normal % LimbPower(h) \in 0..(LimbPower(h) - 1)
  BY <1>2, <1>3, <1>5 DEF p, low
<1> QED
  BY <1>1, <1>2, <1>9, <1>10, <1>11 DEF h

-----------------------------------------------------------------------------
(* The invariant *)

Quot == Value(quotient, j, d_count - v_count + 1 - j)

\* What the limbs of quotient so far leave of the dividend.
Left == dividend * 2^Shift - (Quot * LimbPower(j)) * Normal

Whole == Value(u, 0, d_count + 1)

\* The limb of quotient at place idx.
TrueLimb == (Left \div LimbPower(idx)) \div Normal

InLong == pc \in {"estimate", "correct", "subtract", "add_back"}

LongInv ==
  /\ Long
  /\ j <= d_count - v_count + 1
  /\ k <= v_count
  /\ \A x \in (d_count - v_count + 1)..DCount : quotient[x] = Stale
  /\ Left >= 0 /\ Left < LimbPower(j) * Normal
  /\ pc = "estimate" => Left = Whole
  /\ pc # "estimate" =>
       /\ j > 0
       /\ \A x \in (j + v_count)..d_count : u[x] = 0
  /\ pc = "correct" =>
       /\ k = 0 /\ carry = 0
       /\ Left = Whole
       /\ q_hat * V(v_count - 1) + r_hat = Top * Base + Mid
       /\ q_hat >= TrueLimb
  /\ pc = "subtract" =>
       /\ Whole + (q_hat * (Normal % LimbPower(k)) - carry * LimbPower(k)) * LimbPower(idx) = Left
       /\ q_hat \in {TrueLimb, TrueLimb + 1}
       /\ k = 0 => carry = 0
  /\ pc = "add_back" =>
       /\ carry \in {0, 1}
       /\ q_hat = TrueLimb
       /\ Whole = Left - ((q_hat + 1) * Normal) * LimbPower(idx) + LimbPower(j + v_count)
                  + ((Normal % LimbPower(k)) - carry * LimbPower(k)) * LimbPower(idx)

ShortInv ==
  /\ v_count = 1 /\ d_count >= 1 /\ j <= d_count
  /\ \A x \in d_count..DCount : quotient[x] = Stale
  /\ dividend \div LimbPower(j) = Value(quotient, j, d_count - j) * divisor + r_hat
  /\ r_hat < divisor

DivInv ==
  /\ TypeOK
  /\ pc # "returned" => remainder = [x \in 0..(VCount - 1) |-> Stale]
  /\ pc = "start" => quotient = [x \in 0..DCount |-> Stale] /\ u = [x \in 0..DCount |-> 0] /\ k = 0 /\ carry = 0
  /\ pc = "short" => ShortInv
  /\ InLong => LongInv

LEMMA LongSizes ==
  ASSUME TypeOK, Long
  PROVE  /\ v_count \in Nat /\ v_count >= 2 /\ v_count <= d_count
         /\ d_count \in 0..DCount /\ DCount \in Nat /\ j \in Nat
         /\ Limbs(u, 0, d_count + 1)
<1>1. /\ v_count \in Nat /\ v_count >= 2 /\ v_count <= d_count
      /\ d_count \in 0..DCount /\ DCount \in Nat
  BY Sizes DEF Long
<1>2. j \in 0..DCount /\ u \in [0..DCount -> Limb]
  BY Zenon DEF TypeOK
<1> QED
  BY <1>1, <1>2 DEF Limbs

\* The limbs of u that the estimate looks at.
LEMMA WindowLimbs ==
  ASSUME TypeOK, Long, j > 0, j <= d_count - v_count + 1
  PROVE  /\ idx \in Nat /\ idx + v_count + 1 \in 0..(d_count + 1)
         /\ Limbs(u, 0, d_count + 1) /\ Limbs(u, idx, v_count + 1)
         /\ Top \in Limb /\ Mid \in Limb /\ Bot \in Limb
         /\ Value(u, idx, v_count - 2) \in 0..(LimbPower(v_count - 2) - 1)
         /\ Value(u, idx, v_count + 1) =
              ((Top * Base + Mid) * Base + Bot) * LimbPower(v_count - 2)
              + Value(u, idx, v_count - 2)
<1> DEFINE h == v_count - 2
           p == LimbPower(h)
<1>1. /\ v_count \in Nat /\ d_count \in 0..DCount /\ DCount \in Nat /\ j \in Nat
      /\ h \in Nat /\ h + 1 = v_count - 1 /\ (h + 1) + 1 = v_count
      /\ ((h + 1) + 1) + 1 = v_count + 1 /\ idx \in Nat
      /\ idx + v_count + 1 \in 0..(d_count + 1) /\ idx + v_count <= d_count
  <2>1. /\ v_count \in Nat /\ d_count \in 0..DCount /\ DCount \in Nat /\ j \in Nat
        /\ v_count >= 2
    BY LongSizes
  <2> QED
    BY <2>1 DEF idx
<1>2. /\ idx + h = idx + v_count - 2 /\ idx + (h + 1) = idx + v_count - 1
      /\ idx + ((h + 1) + 1) = idx + v_count
  BY <1>1
<1>3. u \in [0..DCount -> Limb]
  BY DEF TypeOK
<1>4. Limbs(u, 0, d_count + 1) /\ Limbs(u, idx, v_count + 1)
  BY <1>1, <1>3 DEF Limbs
<1>5. Top \in Limb /\ Mid \in Limb /\ Bot \in Limb
  <2>1. idx + v_count \in 0..DCount /\ idx + v_count - 1 \in 0..DCount /\ idx + v_count - 2 \in 0..DCount
    BY <1>1
  <2> QED
    BY <1>3, <2>1 DEF Top, Mid, Bot
<1>6. LimbsAt(u, idx, h + 1) /\ LimbsAt(u, idx, (h + 1) + 1) /\ LimbsAt(u, idx, ((h + 1) + 1) + 1)
  <2>1. h + 1 \in 0..(v_count + 1) /\ (h + 1) + 1 \in 0..(v_count + 1) /\ v_count + 1 \in 0..(v_count + 1)
    BY <1>1
  <2> QED
    BY <1>1, <1>4, <2>1, LimbsAreIntegers
<1>7. Limbs(u, idx, h)
  <2>1. h \in 0..(v_count + 1)
    BY <1>1
  <2> QED
    BY <1>1, <1>4, <2>1, LimbsAreIntegers
<1> HIDE DEF h
<1>8. /\ Value(u, idx, h + 1) = Value(u, idx, h) + u[idx + h] * LimbPower(h)
      /\ Value(u, idx, (h + 1) + 1) =
           Value(u, idx, h + 1) + u[idx + (h + 1)] * LimbPower(h + 1)
      /\ Value(u, idx, ((h + 1) + 1) + 1) =
           Value(u, idx, (h + 1) + 1) + u[idx + ((h + 1) + 1)] * LimbPower((h + 1) + 1)
  BY <1>1, <1>6, ValueNext
<1>9. /\ LimbPower(h + 1) = Base * p /\ LimbPower((h + 1) + 1) = Base * (Base * p)
      /\ p \in Nat \ {0} /\ Base \in Nat
  BY <1>1, LimbPowers, BaseType
<1>10. Value(u, idx, h) \in 0..(p - 1)
  BY <1>1, <1>7, <1>9, ValueType
<1> HIDE DEF p
<1>11. Top \in Nat /\ Mid \in Nat /\ Bot \in Nat
  BY <1>5 DEF Limb
<1>12. Value(u, idx, v_count + 1) =
         Value(u, idx, h) + Bot * p + Mid * (Base * p) + Top * (Base * (Base * p))
  BY <1>1, <1>2, <1>8, <1>9 DEF Top, Mid, Bot, p
<1>13. ((Top * Base + Mid) * Base + Bot) * p =
         Bot * p + Mid * (Base * p) + Top * (Base * (Base * p))
  <2>1. ((Top * Base + Mid) * Base + Bot) * p = (Top * Base + Mid) * (Base * p) + Bot * p
    BY <1>9, <1>11
  <2>2. (Top * Base + Mid) * (Base * p) = Top * (Base * (Base * p)) + Mid * (Base * p)
    BY <1>9, <1>11
  <2>3. Bot * p \in Nat /\ Mid * (Base * p) \in Nat /\ Top * (Base * (Base * p)) \in Nat
    BY <1>9, <1>11
  <2> QED
    BY <2>1, <2>2, <2>3
<1>14. Bot * p \in Nat /\ Mid * (Base * p) \in Nat /\ Top * (Base * (Base * p)) \in Nat
  BY <1>9, <1>11
<1>15. Value(u, idx, v_count + 1) = ((Top * Base + Mid) * Base + Bot) * p + Value(u, idx, h)
  BY <1>10, <1>12, <1>13, <1>14
<1> QED
  BY <1>1, <1>4, <1>5, <1>10, <1>15 DEF h, p

\* What is left, cut below the window and below its top limb.
LEMMA WholeParts ==
  ASSUME TypeOK, Long, j > 0, j <= d_count - v_count + 1,
         \A x \in (j + v_count)..d_count : u[x] = 0
  PROVE  /\ Value(u, 0, idx) \in 0..(LimbPower(idx) - 1)
         /\ Whole = Value(u, 0, idx) + Value(u, idx, v_count + 1) * LimbPower(idx)
         /\ Whole \div LimbPower(idx) = Value(u, idx, v_count + 1)
         /\ Value(u, 0, idx + v_count) \in 0..(LimbPower(idx + v_count) - 1)
         /\ Whole = Value(u, 0, idx + v_count) + Top * LimbPower(idx + v_count)
         /\ Whole \in Nat /\ Whole < LimbPower(j + v_count)
<1> DEFINE n == j + v_count
           h == d_count + 1 - n
<1>1. /\ v_count \in Nat /\ d_count \in Nat /\ j \in Nat /\ n \in Nat /\ h \in Nat
      /\ n + h = d_count + 1 /\ n + h - 1 = d_count /\ idx \in 0..n /\ n - idx = v_count + 1
      /\ n = (idx + v_count) + 1 /\ idx + v_count \in 0..n
      /\ n \in 0..(d_count + 1) /\ 0 + idx = idx /\ 0 + (idx + v_count) = idx + v_count
  <2>1. v_count \in Nat /\ d_count \in 0..DCount /\ DCount \in Nat /\ j \in Nat /\ v_count >= 2
    BY LongSizes
  <2> QED
    BY <2>1 DEF idx
<1>2. Limbs(u, 0, d_count + 1) /\ Top \in Limb
  BY WindowLimbs
<1>3. Limbs(u, 0, n) /\ d_count + 1 \in Nat
  BY <1>1, <1>2, LimbsAreIntegers
<1>4. Whole = Value(u, 0, n)
  <2>1. \A l \in n..(n + h - 1) : u[0 + l] = 0
    BY <1>1
  <2> HIDE DEF h, n
  <2>2. n \in Nat /\ h \in Nat /\ 0 \in Int
    BY <1>1
  <2>3. Value(u, 0, n + h) = Value(u, 0, n)
    BY <1>3, <2>1, <2>2, ValueLow
  <2> QED
    BY <1>1, <2>3 DEF Whole
<1> HIDE DEF n, h
<1>5. /\ Value(u, 0, n) \div LimbPower(idx) = Value(u, 0 + idx, n - idx)
      /\ Value(u, 0, n) = Value(u, 0, idx) + Value(u, 0 + idx, n - idx) * LimbPower(idx)
  BY <1>1, <1>3, ValueParts
<1>6. Limbs(u, 0, idx) /\ Limbs(u, 0, idx + v_count) /\ LimbsAt(u, 0, (idx + v_count) + 1)
  <2>1. n \in 0..n
    BY <1>1
  <2> QED
    BY <1>1, <1>3, <2>1, LimbsAreIntegers
<1>7. /\ Value(u, 0, idx) \in Nat /\ Value(u, 0, idx) < LimbPower(idx)
      /\ Value(u, 0, idx + v_count) \in Nat /\ Value(u, 0, idx + v_count) < LimbPower(idx + v_count)
      /\ Value(u, 0, n) \in Nat /\ Value(u, 0, n) < LimbPower(n)
  <2>1. idx \in Nat /\ idx + v_count \in Nat /\ n \in Nat /\ 0 \in Int
    BY <1>1
  <2> QED
    BY <1>3, <1>6, <2>1, ValueType
<1>8. Value(u, 0, n) = Value(u, 0, idx + v_count) + u[0 + (idx + v_count)] * LimbPower(idx + v_count)
  <2>1. idx + v_count \in Nat
    BY <1>1
  <2>2. Value(u, 0, (idx + v_count) + 1) =
          Value(u, 0, idx + v_count) + u[0 + (idx + v_count)] * LimbPower(idx + v_count)
    BY <1>6, <2>1, ValueNext
  <2> QED
    BY <1>1, <2>2
<1>9. /\ LimbPower(idx) \in Nat /\ LimbPower(idx + v_count) \in Nat
  BY <1>1, LimbPowers
<1>10. Whole \div LimbPower(idx) = Value(u, idx, v_count + 1)
  BY <1>1, <1>4, <1>5
<1>11. Whole = Value(u, 0, idx) + Value(u, idx, v_count + 1) * LimbPower(idx)
  BY <1>1, <1>4, <1>5
<1>12. Whole = Value(u, 0, idx + v_count) + Top * LimbPower(idx + v_count)
  BY <1>1, <1>4, <1>8 DEF Top
<1> QED
  BY <1>4, <1>7, <1>9, <1>10, <1>11, <1>12 DEF n

\* What is left fits the limbs above the quotient's, so those above are zero.
LEMMA ZerosAbove ==
  ASSUME TypeOK, Long, j <= d_count - v_count + 1, Whole < LimbPower(j) * Normal
  PROVE  /\ \A x \in (j + v_count)..d_count : u[x] = 0
         /\ Whole \in Nat /\ Whole = Value(u, 0, j + v_count)
<1>1. /\ v_count \in Nat /\ d_count \in 0..DCount /\ DCount \in Nat /\ j \in Nat
      /\ d_count + 1 \in Nat /\ j + v_count \in 0..(d_count + 1)
  <2>1. v_count \in Nat /\ d_count \in 0..DCount /\ DCount \in Nat /\ j \in Nat /\ v_count >= 2
    BY LongSizes
  <2> QED
    BY <2>1
<1>2. Limbs(u, 0, d_count + 1)
  BY LongSizes
<1>3. Whole \in Nat /\ Whole < LimbPower(j + v_count)
  <2>1. Whole \in Nat
    BY <1>1, <1>2, ValueType DEF Whole
  <2>2. LimbPower(j + v_count) = LimbPower(j) * LimbPower(v_count) /\ LimbPower(j) \in Nat
    BY <1>1, LimbPowerAdd, LimbPowers
  <2>3. Normal \in Nat /\ LimbPower(v_count) \in Nat /\ Normal <= LimbPower(v_count)
    BY <1>1, ShiftFacts, LimbPowers DEF Long
  <2>4. LimbPower(j) * Normal <= LimbPower(j) * LimbPower(v_count)
    BY <2>2, <2>3
  <2>5. LimbPower(j) * Normal \in Nat /\ LimbPower(j) * LimbPower(v_count) \in Nat
    BY <2>2, <2>3
  <2> QED
    BY <2>1, <2>2, <2>4, <2>5
<1>4. /\ \A x \in (j + v_count)..((d_count + 1) - 1) : u[0 + x] = 0
      /\ Value(u, 0, d_count + 1) = Value(u, 0, j + v_count)
  BY <1>1, <1>2, <1>3, ValueSmall DEF Whole
<1> QED
  BY <1>1, <1>3, <1>4 DEF Whole

\* What the loops over limbs leave as it is.
Same == UNCHANGED <<dividend, divisor, quotient, j>>

LEMMA SameFacts ==
  ASSUME Same
  PROVE  /\ dividend' = dividend /\ divisor' = divisor /\ quotient' = quotient
         /\ j' = j /\ idx' = idx /\ d_count' = d_count /\ v_count' = v_count
         /\ Shift' = Shift /\ Normal' = Normal /\ Left' = Left /\ TrueLimb' = TrueLimb
         /\ (Long)' = Long
         /\ \A l : V(l)' = V(l)
BY DEF Same, idx, d_count, v_count, Shift, Normal, Left, Quot, TrueLimb, Long, V, Length

\* A quotient by a positive number.
LEMMA QuotientFacts ==
  ASSUME NEW x \in Nat, NEW n \in Nat \ {0}
  PROVE  /\ x \div n \in Nat
         /\ (x \div n) * n <= x /\ x < (x \div n) * n + n
<1>1. x \div n \in Nat /\ x % n \in Nat /\ (x % n) < n /\ x = n * (x \div n) + (x % n)
  BY DivisionFacts
<1>2. n * (x \div n) = (x \div n) * n /\ (x \div n) * n \in Nat
  BY <1>1
<1> QED
  BY <1>1, <1>2

\* A quotient is below what the dividend is below times the divisor.
LEMMA QuotientBelow ==
  ASSUME NEW x \in Nat, NEW n \in Nat \ {0}, NEW q \in Nat, x < q * n
  PROVE  x \div n < q
<1> DEFINE s == x \div n
<1>1. s \in Nat /\ s * n <= x
  BY QuotientFacts
<1> HIDE DEF s
<1> SUFFICES ASSUME s >= q
             PROVE  FALSE
  BY <1>1 DEF s
<1>2. s * n >= q * n /\ s * n \in Nat /\ q * n \in Nat
  BY <1>1
<1> QED
  BY <1>1, <1>2

\* The next limb of quotient is a limb.
LEMMA TrueLimbFacts ==
  ASSUME TypeOK, Long, j > 0, Left \in Nat, Left < LimbPower(j) * Normal
  PROVE  /\ Left \div LimbPower(idx) \in Nat
         /\ Left \div LimbPower(idx) < Base * Normal
         /\ TrueLimb \in Nat /\ TrueLimb < Base
         /\ TrueLimb * Normal <= Left \div LimbPower(idx)
         /\ Left \div LimbPower(idx) < TrueLimb * Normal + Normal
         /\ LimbPower(idx) \in Nat \ {0} /\ Normal \in Nat \ {0} /\ idx \in Nat
         /\ LimbPower(j) = Base * LimbPower(idx)
         /\ (Left \div LimbPower(idx)) * LimbPower(idx) <= Left
         /\ Left < (Left \div LimbPower(idx)) * LimbPower(idx) + LimbPower(idx)
<1>1. idx \in Nat /\ idx + 1 = j
  BY LongSizes DEF idx
<1>2. /\ LimbPower(idx) \in Nat \ {0} /\ LimbPower(j) = Base * LimbPower(idx)
      /\ Base \in Nat
  BY <1>1, LimbPowers, BaseType
<1>3. Normal \in Nat \ {0}
  BY LongSizes, ShiftFacts
<1> DEFINE p == LimbPower(idx)
           x == Left \div p
<1>4. x \in Nat /\ x * p <= Left /\ Left < x * p + p
  BY <1>2, QuotientFacts
<1>5. Left < (Base * Normal) * p /\ Base * Normal \in Nat
  <2>1. (Base * p) * Normal = (Base * Normal) * p
    BY <1>2, <1>3
  <2> QED
    BY <1>2, <1>3, <2>1
<1>6. x < Base * Normal
  BY <1>2, <1>5, QuotientBelow
<1>7. /\ TrueLimb \in Nat /\ TrueLimb * Normal <= x /\ x < TrueLimb * Normal + Normal
      /\ TrueLimb < Base
  BY <1>2, <1>3, <1>4, <1>6, QuotientFacts, QuotientBelow DEF TrueLimb
<1> QED
  BY <1>1, <1>2, <1>3, <1>4, <1>6, <1>7

\* An estimate of at least the limb, and one with which the divisor fits.
LEMMA CloseEstimate ==
  ASSUME NEW q \in Nat, NEW x \in Nat, NEW n \in Nat \ {0}
  PROVE  /\ q * n > x => q >= x \div n + 1
         /\ q * n < x + n => q <= x \div n + 1
<1> DEFINE t == x \div n
<1>1. t \in Nat /\ t * n <= x /\ x < t * n + n
  BY QuotientFacts
<1> HIDE DEF t
<1>2. q * n > x => q >= t + 1
  <2> SUFFICES ASSUME q <= t
               PROVE  q * n <= x
    BY <1>1
  <2>1. q * n <= t * n /\ q * n \in Nat /\ t * n \in Nat
    BY <1>1
  <2> QED
    BY <1>1, <2>1
<1>3. q * n < x + n => q <= t + 1
  <2> SUFFICES ASSUME q >= t + 2
               PROVE  q * n >= x + n
    BY <1>1
  <2>1. q * n >= (t + 2) * n /\ (t + 2) * n = t * n + n + n /\ t * n \in Nat /\ q * n \in Nat
    BY <1>1
  <2> QED
    BY <1>1, <2>1
<1> QED
  BY <1>2, <1>3 DEF t

\* Knuth's numbers in the window, for an estimate q that leaves r.
LEMMA KnuthWindow ==
  ASSUME TypeOK, Long, j > 0, j <= d_count - v_count + 1,
         NEW q \in Nat, NEW r \in Nat, q * V(v_count - 1) + r = Top * Base + Mid
  PROVE  KnuthNumbers(q, r, Top * Base + Mid, Bot, Value(u, idx, v_count - 2),
                      V(v_count - 1), V(v_count - 2), Normal % LimbPower(v_count - 2),
                      Base, LimbPower(v_count - 2))
<1>1. /\ Top \in Limb /\ Mid \in Limb /\ Bot \in Limb
      /\ Value(u, idx, v_count - 2) \in 0..(LimbPower(v_count - 2) - 1)
  BY WindowLimbs
<1>2. /\ V(v_count - 1) \in Limb /\ V(v_count - 2) \in Limb /\ v_count - 2 \in Nat
      /\ Normal % LimbPower(v_count - 2) \in 0..(LimbPower(v_count - 2) - 1)
  BY TopLimbs
<1>3. LimbPower(v_count - 2) \in Nat /\ Base \in Nat
  BY <1>2, LimbPowers, BaseType
<1>4. /\ Top \in Nat /\ Mid \in Nat /\ Bot \in Nat
      /\ V(v_count - 1) \in Nat /\ V(v_count - 2) \in Nat
  BY <1>1, <1>2, <1>3 DEF Limb
<1>5. Top * Base + Mid \in Nat
  BY <1>3, <1>4
<1> QED
  BY <1>1, <1>2, <1>3, <1>4, <1>5 DEF KnuthNumbers

\* An estimate of which the test says it is not too large, or that leaves more
\* than a limb, is right or one too large.
LEMMA EstimatePasses ==
  ASSUME TypeOK, Long, j > 0, j <= d_count - v_count + 1,
         NEW q \in Limb, NEW r \in Nat, q * V(v_count - 1) + r = Top * Base + Mid,
         q * V(v_count - 2) <= r * Base + Bot
  PROVE  q <= Value(u, idx, v_count + 1) \div Normal + 1
<1>1. q \in Nat /\ q < Base /\ Base \in Nat
  BY BaseType DEF Limb
<1>2. KnuthNumbers(q, r, Top * Base + Mid, Bot, Value(u, idx, v_count - 2),
                   V(v_count - 1), V(v_count - 2), Normal % LimbPower(v_count - 2),
                   Base, LimbPower(v_count - 2))
  BY <1>1, KnuthWindow
<1>3. /\ Normal = (V(v_count - 1) * Base + V(v_count - 2)) * LimbPower(v_count - 2)
                  + (Normal % LimbPower(v_count - 2))
      /\ Base * LimbPower(v_count - 2) <= Normal
  BY TopLimbs
<1>4. /\ Value(u, idx, v_count + 1) =
           ((Top * Base + Mid) * Base + Bot) * LimbPower(v_count - 2) + Value(u, idx, v_count - 2)
      /\ Limbs(u, idx, v_count + 1) /\ idx \in Nat
  BY WindowLimbs
<1> DEFINE n == (V(v_count - 1) * Base + V(v_count - 2)) * LimbPower(v_count - 2)
                + (Normal % LimbPower(v_count - 2))
           x == ((Top * Base + Mid) * Base + Bot) * LimbPower(v_count - 2)
                + Value(u, idx, v_count - 2)
<1>5. q * n < x + n
  BY <1>1, <1>2, <1>3, KnuthUpper
<1> HIDE DEF n, x
<1>6. n = Normal /\ x = Value(u, idx, v_count + 1)
  BY <1>3, <1>4 DEF n, x
<1>7. Normal \in Nat \ {0}
  BY LongSizes, ShiftFacts
<1>8. Value(u, idx, v_count + 1) \in Nat
  BY <1>4, LongSizes, ValueType
<1> QED
  BY <1>1, <1>5, <1>6, <1>7, <1>8, CloseEstimate

\* An estimate of which it says it is too large is.
LEMMA EstimateFails ==
  ASSUME TypeOK, Long, j > 0, j <= d_count - v_count + 1,
         NEW q \in Limb, NEW r \in Nat, q * V(v_count - 1) + r = Top * Base + Mid,
         q * V(v_count - 2) > r * Base + Bot
  PROVE  q >= Value(u, idx, v_count + 1) \div Normal + 1
<1>1. q \in Nat /\ q < Base /\ Base \in Nat
  BY BaseType DEF Limb
<1>2. KnuthNumbers(q, r, Top * Base + Mid, Bot, Value(u, idx, v_count - 2),
                   V(v_count - 1), V(v_count - 2), Normal % LimbPower(v_count - 2),
                   Base, LimbPower(v_count - 2))
  BY <1>1, KnuthWindow
<1>3. Normal = (V(v_count - 1) * Base + V(v_count - 2)) * LimbPower(v_count - 2)
               + (Normal % LimbPower(v_count - 2))
  BY TopLimbs
<1>4. /\ Value(u, idx, v_count + 1) =
           ((Top * Base + Mid) * Base + Bot) * LimbPower(v_count - 2) + Value(u, idx, v_count - 2)
      /\ Limbs(u, idx, v_count + 1) /\ idx \in Nat
  BY WindowLimbs
<1> DEFINE n == (V(v_count - 1) * Base + V(v_count - 2)) * LimbPower(v_count - 2)
                + (Normal % LimbPower(v_count - 2))
           x == ((Top * Base + Mid) * Base + Bot) * LimbPower(v_count - 2)
                + Value(u, idx, v_count - 2)
<1>5. q * n > x
  BY <1>2, KnuthLower
<1> HIDE DEF n, x
<1>6. n = Normal /\ x = Value(u, idx, v_count + 1)
  BY <1>3, <1>4 DEF n, x
<1>7. Normal \in Nat \ {0}
  BY LongSizes, ShiftFacts
<1>8. Value(u, idx, v_count + 1) \in Nat
  BY <1>4, LongSizes, ValueType
<1> QED
  BY <1>1, <1>5, <1>6, <1>7, <1>8, CloseEstimate

-----------------------------------------------------------------------------
(* The steps of algorithm D *)

\* What a step that leaves the quotient alone need not be shown again.
LEMMA LongFrame ==
  ASSUME DivInv, InLong, Same, remainder' = remainder, pc' # "start", pc' # "short",
         TypeOK',
         pc' \in {"correct", "subtract", "add_back"},
         /\ j > 0
         /\ k' <= v_count
         /\ \A x \in (j + v_count)..d_count : u'[x] = 0,
         pc' = "correct" =>
           /\ k' = 0 /\ carry' = 0
           /\ Left = Whole'
           /\ q_hat' * V(v_count - 1) + r_hat' = Top' * Base + Mid'
           /\ q_hat' >= TrueLimb,
         pc' = "subtract" =>
           /\ Whole' + (q_hat' * (Normal % LimbPower(k')) - carry' * LimbPower(k')) * LimbPower(idx)
                = Left
           /\ q_hat' \in {TrueLimb, TrueLimb + 1}
           /\ k' = 0 => carry' = 0,
         pc' = "add_back" =>
           /\ carry' \in {0, 1}
           /\ q_hat' = TrueLimb
           /\ Whole' = Left - ((q_hat' + 1) * Normal) * LimbPower(idx) + LimbPower(j + v_count)
                       + ((Normal % LimbPower(k')) - carry' * LimbPower(k')) * LimbPower(idx)
  PROVE  DivInv'
<1>1. /\ dividend' = dividend /\ divisor' = divisor /\ quotient' = quotient
      /\ j' = j /\ idx' = idx /\ d_count' = d_count /\ v_count' = v_count
      /\ Shift' = Shift /\ Normal' = Normal /\ Left' = Left /\ TrueLimb' = TrueLimb
      /\ (Long)' = Long
      /\ \A l : V(l)' = V(l)
  BY SameFacts
<1>2. LongInv /\ (pc # "returned" => remainder = [x \in 0..(VCount - 1) |-> Stale])
      /\ pc # "returned"
  BY DEF DivInv, InLong
<1>3. V(v_count - 1)' = V(v_count - 1)
  BY <1>1
<1>4. LongInv'
  BY <1>1, <1>2, <1>3 DEF LongInv
<1> QED
  BY <1>2, <1>4 DEF DivInv

\* Facts of the invariant in the loops.
LEMMA LongFacts ==
  ASSUME DivInv, InLong, j > 0
  PROVE  /\ TypeOK /\ Long /\ j <= d_count - v_count + 1
         /\ Left \in Nat /\ Left < LimbPower(j) * Normal
         /\ \A x \in (j + v_count)..d_count : u[x] = 0
<1>1. TypeOK /\ LongInv
  BY DEF DivInv
<1>2. Left \in Int
  <2>1. /\ v_count \in Nat /\ v_count >= 2 /\ v_count <= d_count
        /\ d_count \in 0..DCount /\ DCount \in Nat /\ j \in Nat
    BY <1>1, LongSizes DEF LongInv
  <2>2. /\ d_count - v_count + 1 - j \in Nat /\ LimbPower(j) \in Nat
        /\ j + (d_count - v_count + 1 - j) = d_count - v_count + 1
    <3>1. j <= d_count - v_count + 1
      BY <1>1 DEF LongInv
    <3> QED
      BY <2>1, <3>1, LimbPowers
  <2>3. quotient \in [0..DCount -> Limb]
    BY <1>1 DEF TypeOK
  <2>4. Limbs(quotient, j, d_count - v_count + 1 - j)
    <3> SUFFICES ASSUME NEW l \in 0..((d_count - v_count + 1 - j) - 1)
                 PROVE  quotient[j + l] \in Limb
      BY DEF Limbs
    <3>1. j + l \in 0..DCount
      BY <2>1
    <3> QED
      BY <2>3, <3>1
  <2>5. Quot \in Nat
    BY <2>1, <2>2, <2>4, ValueType DEF Quot
  <2>6. dividend \in Nat /\ 2^Shift \in Nat /\ Normal \in Nat
    BY <1>1, <2>1, Sizes, ShiftFacts
  <2>7. dividend * 2^Shift \in Nat /\ (Quot * LimbPower(j)) * Normal \in Nat
    BY <2>2, <2>5, <2>6
  <2> QED
    BY <2>7 DEF Left
<1>3. pc = "estimate" => \A x \in (j + v_count)..d_count : u[x] = 0
  <2> SUFFICES ASSUME pc = "estimate"
               PROVE  \A x \in (j + v_count)..d_count : u[x] = 0
    OBVIOUS
  <2>1. Whole < LimbPower(j) * Normal /\ j <= d_count - v_count + 1 /\ Long
    BY <1>1 DEF LongInv
  <2> QED
    BY <1>1, <2>1, ZerosAbove
<1>4. /\ Long /\ j <= d_count - v_count + 1
      /\ Left >= 0 /\ Left < LimbPower(j) * Normal
      /\ pc # "estimate" => \A x \in (j + v_count)..d_count : u[x] = 0
  BY <1>1 DEF LongInv
<1>5. Left \in Nat
  BY <1>2, <1>4
<1> QED
  BY <1>1, <1>3, <1>4, <1>5

\* The top limb of the window is at most that of the divisor.
LEMMA TopBound ==
  ASSUME NEW top \in Nat, NEW low \in Nat, NEW vt \in Nat, NEW vs \in Nat, NEW l2 \in Nat,
         NEW b \in Nat \ {0}, NEW p \in Nat \ {0}, vs < b, l2 < p,
         (top * b * b) * p + low < b * ((vt * b + vs) * p + l2)
  PROVE  top <= vt
<1> DEFINE c == (b * b) * p
<1>1. c \in Nat \ {0}
  <2>1. b * b \in Nat \ {0}
    OBVIOUS
  <2> QED
    BY <2>1
<1>2. (top * b * b) * p = top * c
  <2>1. \A x, y \in Nat : (x * y) * p = x * (y * p)
    OBVIOUS
  <2>2. top * b * b = top * (b * b) /\ b * b \in Nat
    OBVIOUS
  <2> QED
    BY <2>1, <2>2
<1>3. (vt * b + vs) * p + l2 < ((vt + 1) * b) * p
  <2>1. vt * b + vs + 1 <= (vt + 1) * b /\ vt * b + vs \in Nat /\ (vt + 1) * b \in Nat
    OBVIOUS
  <2>2. (vt * b + vs + 1) * p <= ((vt + 1) * b) * p
    BY <2>1
  <2>3. (vt * b + vs + 1) * p = (vt * b + vs) * p + p /\ (vt * b + vs) * p \in Nat
    BY <2>1
  <2> QED
    BY <2>1, <2>2, <2>3
<1>4. b * ((vt * b + vs) * p + l2) < (vt + 1) * c
  <2> DEFINE n == (vt * b + vs) * p + l2
             m == ((vt + 1) * b) * p
  <2>1. n \in Nat /\ m \in Nat /\ n < m
    BY <1>3
  <2>2. b * m = (vt + 1) * c
    <3>1. \A x, y \in Nat : b * ((x * b) * y) = x * ((b * b) * y)
      OBVIOUS
    <3> QED
      BY <3>1
  <2> HIDE DEF n, m
  <2>3. b * n < b * m
    BY <2>1
  <2> QED
    BY <2>2, <2>3 DEF n
<1> HIDE DEF c
<1>5. top * c < (vt + 1) * c
  <2>1. top * c \in Nat /\ (vt + 1) * c \in Nat /\ b * ((vt * b + vs) * p + l2) \in Nat
    BY <1>1
  <2> QED
    BY <1>2, <1>4, <2>1
<1> SUFFICES ASSUME top >= vt + 1
             PROVE  FALSE
  OBVIOUS
<1>6. top * c >= (vt + 1) * c
  BY <1>1
<1> QED
  BY <1>1, <1>5, <1>6

\* While nothing is taken from the window it gives the next limb.
LEMMA WindowGives ==
  ASSUME DivInv, InLong, j > 0, Left = Whole
  PROVE  /\ TrueLimb = Value(u, idx, v_count + 1) \div Normal
         /\ Value(u, idx, v_count + 1) \in Nat
         /\ Value(u, idx, v_count + 1) < Base * Normal
         /\ TrueLimb \in Nat /\ TrueLimb < Base
         /\ Normal \in Nat \ {0}
<1>1. /\ TypeOK /\ Long /\ j <= d_count - v_count + 1
      /\ Left \in Nat /\ Left < LimbPower(j) * Normal
      /\ \A x \in (j + v_count)..d_count : u[x] = 0
  BY LongFacts
<1>2. Left \div LimbPower(idx) = Value(u, idx, v_count + 1)
  BY <1>1, WholeParts
<1>3. /\ Left \div LimbPower(idx) \in Nat
      /\ Left \div LimbPower(idx) < Base * Normal
      /\ TrueLimb \in Nat /\ TrueLimb < Base /\ Normal \in Nat \ {0}
  BY <1>1, TrueLimbFacts
<1> QED
  BY <1>2, <1>3 DEF TrueLimb

LEMMA EstimateStep ==
  ASSUME DivInv, Estimate
  PROVE  DivInv'
<1> DEFINE vt == V(v_count - 1)
           vs == V(v_count - 2)
           t == Top * Base + Mid
           x == Value(u, idx, v_count + 1)
           p == LimbPower(v_count - 2)
           l2 == Normal % p
           rest == Value(u, idx, v_count - 2)
<1>1. /\ pc = "estimate" /\ j > 0 /\ InLong
      /\ k' = 0 /\ carry' = 0 /\ u' = u /\ remainder' = remainder /\ Same
  BY DEF Estimate, InLong, Same, Args
<1>2. /\ TypeOK /\ Long /\ j <= d_count - v_count + 1
      /\ \A y \in (j + v_count)..d_count : u[y] = 0
  BY <1>1, LongFacts
<1>3. Left = Whole
  BY <1>1 DEF DivInv, LongInv, InLong
<1>4. /\ TrueLimb = x \div Normal /\ x \in Nat /\ x < Base * Normal
      /\ TrueLimb \in Nat /\ TrueLimb < Base /\ Normal \in Nat \ {0}
  BY <1>1, <1>3, WindowGives
<1>5. /\ Top \in Limb /\ Mid \in Limb /\ Bot \in Limb
      /\ rest \in 0..(p - 1) /\ x = (t * Base + Bot) * p + rest
  BY <1>1, <1>2, WindowLimbs
<1>6. /\ vt \in Limb \ {0} /\ vs \in Limb /\ l2 \in 0..(p - 1)
      /\ Normal = (vt * Base + vs) * p + l2 /\ v_count - 2 \in Nat
  BY <1>2, TopLimbs
<1>7. Base \in Nat /\ Base >= 2 /\ p \in Nat \ {0}
  BY <1>6, BaseType, LimbPowers
<1>8. /\ Top' = Top /\ Mid' = Mid /\ Bot' = Bot /\ Whole' = Whole
      /\ v_count' = v_count
  BY <1>1, SameFacts DEF Top, Mid, Bot, Whole
<1>9. /\ Top \in Nat /\ Mid \in Nat /\ Bot \in Nat /\ vt \in Nat \ {0} /\ vs \in Nat
      /\ Top < Base /\ Mid < Base /\ Bot < Base /\ vt < Base /\ vs < Base
      /\ l2 \in Nat /\ l2 < p /\ rest \in Nat /\ rest < p /\ t \in Nat
  BY <1>5, <1>6, <1>7 DEF Limb
<1> HIDE DEF vt, vs, x, p, l2, rest
<1>10. Top <= vt
  <2>1. x = (Top * Base * Base) * p + ((Mid * Base + Bot) * p + rest)
    <3>1. t * Base + Bot = Top * Base * Base + (Mid * Base + Bot)
      BY <1>7, <1>9
    <3>2. \A y, z \in Nat : (y + z) * p = y * p + z * p
      BY <1>7
    <3>3. Top * Base * Base \in Nat /\ Mid * Base + Bot \in Nat
      BY <1>7, <1>9
    <3>4. (t * Base + Bot) * p = (Top * Base * Base) * p + (Mid * Base + Bot) * p
      BY <3>1, <3>2, <3>3
    <3>5. (Top * Base * Base) * p \in Nat /\ (Mid * Base + Bot) * p \in Nat
      BY <3>3, <1>7
    <3> QED
      BY <1>5, <1>9, <3>4, <3>5
  <2>2. (Mid * Base + Bot) * p + rest \in Nat /\ Base \in Nat \ {0}
    BY <1>7, <1>9
  <2>3. (Top * Base * Base) * p + ((Mid * Base + Bot) * p + rest)
          < Base * ((vt * Base + vs) * p + l2)
    BY <1>4, <1>6, <2>1
  <2> QED
    BY <1>7, <1>9, <2>2, <2>3, TopBound
<1>11. CASE Top = vt /\ Top + Mid < Base
  <2>1. q_hat' = Base - 1 /\ r_hat' = Top + Mid /\ pc' = "correct"
    <3>1. (Top + Mid) % Base = Top + Mid
      BY <1>7, <1>9, <1>11
    <3> QED
      BY <1>9, <1>11, <3>1 DEF Estimate, Goes, vt
  <2>2. q_hat' * vt + r_hat' = t
    BY <1>7, <1>9, <1>11, <2>1
  <2>3. q_hat' >= TrueLimb
    BY <1>4, <1>7, <2>1
  <2>4. TypeOK'
    BY <1>1, <1>2, <1>7, <1>9, <1>11, <2>1, DivAssumption DEF TypeOK, Same, Limb
  <2> QED
    BY <1>1, <1>2, <1>3, <1>8, <2>1, <2>2, <2>3, <2>4, LongSizes, LongFrame DEF vt
<1>12. CASE Top = vt /\ Top + Mid >= Base
  <2>1. q_hat' = Base - 1 /\ r_hat' = Top + Mid - Base /\ pc' = "subtract"
    <3>1. (Top + Mid) % Base = Top + Mid - Base
      <4>1. Top + Mid = Base * 1 + (Top + Mid - Base) /\ Top + Mid - Base \in 0..(Base - 1)
        BY <1>7, <1>9, <1>12
      <4> QED
        BY <1>7, <1>9, <4>1, DivisionUnique
    <3>2. Top + Mid - Base < Top
      BY <1>7, <1>9
    <3> QED
      BY <1>12, <3>1, <3>2 DEF Estimate, Goes, vt
  <2>2. (Base - 1) * vt + (Top + Mid) = t
    BY <1>7, <1>9, <1>12
  <2>3. (Base - 1) * vs <= (Top + Mid) * Base + Bot
    <3>1. (Base - 1) * vs <= (Base - 1) * Base /\ (Top + Mid) * Base >= Base * Base
      BY <1>7, <1>9, <1>12
    <3>2. (Base - 1) * Base <= Base * Base /\ (Base - 1) * vs \in Nat
          /\ (Top + Mid) * Base \in Nat /\ Base * Base \in Nat /\ (Base - 1) * Base \in Nat
      BY <1>7, <1>9
    <3> QED
      BY <1>9, <3>1, <3>2
  <2>4. Base - 1 \in Limb /\ Top + Mid \in Nat
    BY <1>7, <1>9 DEF Limb
  <2>5. Base - 1 <= x \div Normal + 1
    BY <1>1, <1>2, <2>2, <2>3, <2>4, EstimatePasses DEF vt, vs, x
  <2>6. q_hat' \in {TrueLimb, TrueLimb + 1}
    BY <1>4, <1>7, <2>1, <2>5
  <2>7. Whole' + (q_hat' * (Normal % LimbPower(k')) - carry' * LimbPower(k')) * LimbPower(idx) = Left
    <3>1. Normal % LimbPower(0) = 0 /\ LimbPower(0) = 1
      BY <1>2, <1>6, LongSizes, DivisorLimbs, LimbPowers
    <3>2. LimbPower(idx) \in Nat /\ Whole \in Int
      BY <1>1, <1>2, WindowLimbs, WholeParts, LimbPowers
    <3> QED
      BY <1>1, <1>3, <1>7, <1>8, <2>1, <3>1, <3>2
  <2>8. TypeOK'
    BY <1>1, <1>2, <1>7, <1>9, <1>12, <2>1, DivAssumption DEF TypeOK, Same, Limb
  <2> QED
    BY <1>1, <1>2, <1>8, <2>1, <2>6, <2>7, <2>8, LongSizes, LongFrame
<1>13. CASE Top # vt
  <2> DEFINE q == t \div vt
             r == t % vt
  <2>1. Top < vt
    BY <1>9, <1>10, <1>13
  <2>2. q \in Nat /\ r \in Nat /\ r < vt /\ t = vt * q + r
    BY <1>9, DivisionFacts
  <2>3. q < Base
    <3>1. t < Base * vt
      <4>1. (Top + 1) * Base <= vt * Base
        BY <1>7, <1>9, <2>1
      <4> QED
        BY <1>7, <1>9, <4>1
    <3> QED
      BY <1>7, <1>9, <3>1, QuotientBelow
  <2>4. q % Base = q
    BY <1>7, <2>2, <2>3
  <2>5. q_hat' = q /\ r_hat' = r /\ pc' = "correct"
    BY <1>13, <2>4 DEF Estimate, Goes, vt
  <2> HIDE DEF q, r
  <2>6. q * vt + r = t
    BY <1>9, <2>2
  <2>7. q >= TrueLimb
    <3>1. x < (q + 1) * Normal
      <4>1. t + 1 <= (q + 1) * vt
        BY <1>9, <2>2
      <4>2. (t + 1) * (Base * p) <= ((q + 1) * vt) * (Base * p)
        BY <1>7, <1>9, <2>2, <4>1
      <4>3. x < (t + 1) * (Base * p)
        <5>1. t * Base + Bot + 1 <= (t + 1) * Base /\ t * Base + Bot \in Nat /\ (t + 1) * Base \in Nat
          BY <1>7, <1>9
        <5>2. (t * Base + Bot + 1) * p <= ((t + 1) * Base) * p
          BY <1>7, <5>1
        <5>3. (t * Base + Bot + 1) * p = (t * Base + Bot) * p + p /\ (t * Base + Bot) * p \in Nat
          BY <1>7, <5>1
        <5>4. ((t + 1) * Base) * p = (t + 1) * (Base * p)
          BY <1>7, <1>9
        <5> QED
          BY <1>5, <1>7, <1>9, <5>2, <5>3, <5>4
      <4>4. ((q + 1) * vt) * (Base * p) <= (q + 1) * Normal
        <5> DEFINE c == (vt * Base) * p
        <5>1. c \in Nat /\ c <= Normal
          <6>1. (vt * Base + vs) * p = (vt * Base) * p + vs * p /\ vs * p \in Nat /\ (vt * Base) * p \in Nat
            BY <1>7, <1>9
          <6> QED
            BY <1>6, <1>9, <6>1
        <5>2. ((q + 1) * vt) * (Base * p) = (q + 1) * c
          BY <1>7, <1>9, <2>2
        <5> HIDE DEF c
        <5>3. (q + 1) * c <= (q + 1) * Normal
          BY <1>4, <2>2, <5>1
        <5> QED
          BY <5>2, <5>3
      <4>5. /\ (t + 1) * (Base * p) \in Nat /\ ((q + 1) * vt) * (Base * p) \in Nat
            /\ (q + 1) * Normal \in Nat
        BY <1>4, <1>7, <1>9, <2>2
      <4> QED
        BY <1>4, <4>2, <4>3, <4>4, <4>5
    <3>2. x \div Normal < q + 1
      <4>1. q + 1 \in Nat
        BY <2>2
      <4> QED
        BY <1>4, <3>1, <4>1, QuotientBelow
    <3> QED
      BY <1>4, <2>2, <3>2
  <2>8. TypeOK'
    BY <1>1, <1>2, <1>7, <1>9, <2>2, <2>3, <2>5, DivAssumption DEF TypeOK, Same, Limb
  <2>9. q_hat' * vt + r_hat' = t /\ q_hat' >= TrueLimb
    BY <2>5, <2>6, <2>7
  <2> QED
    BY <1>1, <1>2, <1>3, <1>8, <2>5, <2>8, <2>9, LongSizes, LongFrame DEF vt
<1> QED
  BY <1>7, <1>9, <1>11, <1>12, <1>13

LEMMA CorrectStep ==
  ASSUME DivInv, Correct
  PROVE  DivInv'
<1> DEFINE vt == V(v_count - 1)
           vs == V(v_count - 2)
           t == Top * Base + Mid
           x == Value(u, idx, v_count + 1)
<1>1. /\ pc = "correct" /\ InLong /\ u' = u /\ remainder' = remainder /\ Same
      /\ k' = k /\ carry' = carry
  BY DEF Correct, InLong, Same, Args
<1>2. /\ j > 0 /\ k = 0 /\ carry = 0 /\ Left = Whole
      /\ q_hat * vt + r_hat = t /\ q_hat >= TrueLimb
  BY <1>1 DEF DivInv, LongInv
<1>3. /\ TypeOK /\ Long /\ j <= d_count - v_count + 1
      /\ \A y \in (j + v_count)..d_count : u[y] = 0
  BY <1>1, <1>2, LongFacts
<1>4. /\ TrueLimb = x \div Normal /\ TrueLimb \in Nat /\ TrueLimb < Base
  BY <1>1, <1>2, WindowGives
<1>5. /\ Top \in Limb /\ Mid \in Limb /\ Bot \in Limb
      /\ vt \in Limb \ {0} /\ vs \in Limb /\ q_hat \in Limb /\ r_hat \in Limb
  BY <1>2, <1>3, WindowLimbs, TopLimbs DEF TypeOK
<1>6. Base \in Nat /\ Base >= 2
  BY BaseType
<1>7. /\ Top' = Top /\ Mid' = Mid /\ Bot' = Bot /\ Whole' = Whole
  BY <1>1, SameFacts DEF Top, Mid, Bot, Whole
<1>8. /\ Top \in Nat /\ Mid \in Nat /\ Bot \in Nat /\ vt \in Nat \ {0} /\ vs \in Nat
      /\ q_hat \in Nat /\ r_hat \in Nat /\ t \in Nat
      /\ vt < Base /\ vs < Base /\ q_hat < Base /\ r_hat < Base
  BY <1>5, <1>6 DEF Limb
<1>9. (q_hat' * (Normal % LimbPower(0)) - 0 * LimbPower(0)) * LimbPower(idx) = 0
      \/ q_hat' \notin Nat
  <2>1. Normal % LimbPower(0) = 0 /\ LimbPower(0) = 1 /\ LimbPower(idx) \in Nat
    BY <1>2, <1>3, WindowLimbs, LongSizes, DivisorLimbs, LimbPowers
  <2> QED
    BY <2>1
<1>10. Whole \in Nat
  BY <1>2, <1>3, WholeParts
<1> HIDE DEF vt, vs, x, t
<1>11. CASE ~TooLarge
  <2>1. q_hat' = q_hat /\ r_hat' = r_hat /\ pc' = "subtract"
    BY <1>11 DEF Correct, Goes
  <2>2. q_hat * vs <= r_hat * Base + Bot
    <3>1. ~ (q_hat * vs > r_hat * Base + Bot)
      BY <1>11 DEF TooLarge, vs
    <3>2. q_hat * vs \in Nat /\ r_hat * Base + Bot \in Nat
      BY <1>6, <1>8
    <3> QED
      BY <3>1, <3>2
  <2>3. q_hat <= x \div Normal + 1
    BY <1>2, <1>3, <1>5, <1>8, <2>2, EstimatePasses DEF vt, vs, x, t
  <2>4. q_hat' \in {TrueLimb, TrueLimb + 1}
    BY <1>2, <1>4, <1>8, <2>1, <2>3
  <2>5. Whole' + (q_hat' * (Normal % LimbPower(k')) - carry' * LimbPower(k')) * LimbPower(idx) = Left
    BY <1>1, <1>2, <1>7, <1>8, <1>9, <1>10, <2>1
  <2>6. TypeOK'
    BY <1>1, <1>3, <2>1 DEF TypeOK, Same
  <2> QED
    BY <1>1, <1>2, <1>3, <1>7, <2>1, <2>4, <2>5, <2>6, LongSizes, LongFrame
<1>12. CASE TooLarge
  <2>1. /\ q_hat' = q_hat - 1 /\ r_hat' = (r_hat + vt) % Base
        /\ pc' = IF r_hat' < vt THEN "subtract" ELSE "correct"
    BY <1>12 DEF Correct, Goes, vt
  <2>2. q_hat >= TrueLimb + 1
    <3>1. q_hat * vs > r_hat * Base + Bot
      BY <1>12 DEF TooLarge, vs
    <3>2. q_hat >= x \div Normal + 1
      BY <1>2, <1>3, <1>5, <1>8, <3>1, EstimateFails DEF vt, vs, x, t
    <3> QED
      BY <1>4, <3>2
  <2>3. /\ q_hat - 1 \in Nat /\ q_hat - 1 \in Limb /\ r_hat + vt \in Nat
        /\ (q_hat - 1) * vt + (r_hat + vt) = t /\ q_hat' >= TrueLimb
    <3>1. q_hat - 1 \in Nat /\ q_hat - 1 \in Limb /\ q_hat' >= TrueLimb
      BY <1>4, <1>6, <1>8, <2>1, <2>2 DEF Limb
    <3>2. (q_hat - 1) * vt = q_hat * vt - vt /\ q_hat * vt \in Nat
      BY <1>8
    <3> QED
      BY <1>2, <1>8, <3>1, <3>2
  <2>4. CASE r_hat + vt < Base
    <3>1. r_hat' = r_hat + vt /\ pc' = "correct"
      <4>1. (r_hat + vt) % Base = r_hat + vt
        BY <1>6, <1>8, <2>4
      <4> QED
        BY <1>8, <2>1, <4>1
    <3>2. TypeOK'
      BY <1>1, <1>3, <1>6, <1>8, <2>1, <2>3, <2>4, <3>1 DEF TypeOK, Same, Limb
    <3>3. q_hat' * vt + r_hat' = t
      BY <2>1, <2>3, <3>1
    <3> QED
      BY <1>1, <1>2, <1>3, <1>7, <2>3, <3>1, <3>2, <3>3, LongSizes, LongFrame DEF vt, t
  <2>5. CASE r_hat + vt >= Base
    <3>1. r_hat' = r_hat + vt - Base /\ pc' = "subtract"
      <4>1. (r_hat + vt) % Base = r_hat + vt - Base
        <5>1. r_hat + vt = Base * 1 + (r_hat + vt - Base) /\ r_hat + vt - Base \in 0..(Base - 1)
          BY <1>6, <1>8, <2>5
        <5> QED
          BY <1>6, <1>8, <5>1, DivisionUnique
      <4>2. r_hat + vt - Base < vt
        BY <1>6, <1>8
      <4> QED
        BY <2>1, <4>1, <4>2
    <3>2. (q_hat - 1) * vs <= (r_hat + vt) * Base + Bot
      <4>1. (q_hat - 1) * vs <= Base * vs /\ Base * vs <= Base * Base
        BY <1>6, <1>8, <2>3
      <4>2. (r_hat + vt) * Base >= Base * Base
        BY <1>6, <1>8, <2>5
      <4>3. /\ (q_hat - 1) * vs \in Nat /\ Base * vs \in Nat /\ Base * Base \in Nat
            /\ (r_hat + vt) * Base \in Nat
        BY <1>6, <1>8, <2>3
      <4> QED
        BY <1>8, <4>1, <4>2, <4>3
    <3>3. q_hat - 1 <= x \div Normal + 1
      BY <1>2, <1>3, <2>3, <3>2, EstimatePasses DEF vt, vs, x, t
    <3>4. q_hat' \in {TrueLimb, TrueLimb + 1}
      BY <1>4, <2>1, <2>3, <3>3
    <3>5. Whole' + (q_hat' * (Normal % LimbPower(k')) - carry' * LimbPower(k')) * LimbPower(idx) = Left
      BY <1>1, <1>2, <1>7, <1>9, <1>10, <2>1, <2>3
    <3>6. TypeOK'
      BY <1>1, <1>3, <1>6, <1>8, <2>1, <2>3, <2>5, <3>1 DEF TypeOK, Same, Limb
    <3> QED
      BY <1>1, <1>2, <1>3, <1>7, <3>1, <3>4, <3>5, <3>6, LongSizes, LongFrame
  <2> QED
    BY <1>6, <2>3, <2>4, <2>5
<1> QED
  BY <1>11, <1>12

\* A limb of u - q_hat * v written and its carry handed on change nothing of
\* what is left in all.  With q = -1 and carries below zero it is u + v.
LEMMA LimbAlgebra ==
  ASSUME NEW w \in Int, NEW w1 \in Int, NEW q \in Int, NEW m \in Int, NEW v \in Int,
         NEW c \in Int, NEW c1 \in Int, NEW a \in Int, NEW a1 \in Int,
         NEW p \in Int, NEW g \in Int, NEW b \in Int, NEW left \in Int,
         a1 - b * c1 = a - (q * v + c),
         w + (q * m - c * p) * g = left,
         w1 = w + (a1 - a) * (g * p)
  PROVE  w1 + (q * (m + v * p) - c1 * (b * p)) * g = left
<1>1. a1 - a = b * c1 - q * v - c
  BY b * c1 \in Int, q * v \in Int
<1>2. (a1 - a) * (g * p) = (b * c1) * (g * p) - (q * v) * (g * p) - c * (g * p)
  <2>1. \A x, y, z, h \in Int : (x - y - z) * h = x * h - y * h - z * h
    OBVIOUS
  <2>2. b * c1 \in Int /\ q * v \in Int /\ g * p \in Int
    OBVIOUS
  <2> QED
    BY <1>1, <2>1, <2>2
<1>3. (q * (m + v * p) - c1 * (b * p)) * g =
        (q * m) * g + (q * v) * (g * p) - (b * c1) * (g * p)
  <2>1. q * (m + v * p) = q * m + (q * v) * p /\ c1 * (b * p) = (b * c1) * p
    OBVIOUS
  <2>2. \A x, y, z \in Int : (x + y * p - z * p) * g = x * g + y * (g * p) - z * (g * p)
    OBVIOUS
  <2>3. q * m \in Int /\ q * v \in Int /\ b * c1 \in Int
    OBVIOUS
  <2> QED
    BY <2>1, <2>2, <2>3
<1>4. (q * m - c * p) * g = (q * m) * g - c * (g * p)
  <2>1. \A x \in Int : (x - c * p) * g = x * g - c * (g * p)
    OBVIOUS
  <2>2. q * m \in Int
    OBVIOUS
  <2> QED
    BY <2>1, <2>2
<1>5. /\ (b * c1) * (g * p) \in Int /\ (q * v) * (g * p) \in Int /\ c * (g * p) \in Int
      /\ (q * m) * g \in Int
  <2>1. b * c1 \in Int /\ q * v \in Int /\ g * p \in Int /\ q * m \in Int
    OBVIOUS
  <2> QED
    BY <2>1
<1> QED
  BY <1>2, <1>3, <1>4, <1>5

\* The limb and the carry of a step of the subtraction.
LEMMA SubtractDigit ==
  ASSUME NEW q \in Limb, NEW v \in Limb, NEW c \in Limb, NEW a \in Limb
  PROVE  LET prod == q * v + c
             a1 == (a - prod) % Base
             c1 == ((prod \div Base) + (IF a < prod % Base THEN 1 ELSE 0)) % Base
         IN  a1 \in Limb /\ c1 \in Limb /\ a1 - Base * c1 = a - (q * v + c)
<1> DEFINE prod == q * v + c
           d == prod \div Base
           m == prod % Base
           a1 == (a - prod) % Base
           c1 == (d + (IF a < m THEN 1 ELSE 0)) % Base
<1>1. /\ Base \in Nat /\ Base >= 2
      /\ q \in 0..(Base - 1) /\ v \in 0..(Base - 1) /\ c \in 0..(Base - 1) /\ a \in 0..(Base - 1)
  BY BaseType DEF Limb
<1>2. prod \in Nat /\ prod <= (Base - 1) * Base
  <2>1. q * v \in Nat /\ q * v <= (Base - 1) * v /\ (Base - 1) * v <= (Base - 1) * (Base - 1)
    BY <1>1
  <2>2. /\ (Base - 1) * Base = (Base - 1) * (Base - 1) + (Base - 1)
        /\ (Base - 1) * v \in Nat /\ (Base - 1) * (Base - 1) \in Nat
    BY <1>1
  <2> QED
    BY <1>1, <2>1, <2>2
<1> HIDE DEF prod
<1>3. d \in Nat /\ m \in Nat /\ m < Base /\ prod = Base * d + m
  BY <1>1, <1>2, DivisionFacts
<1> HIDE DEF d, m
<1>4. d <= Base - 1 /\ (d = Base - 1 => m = 0)
  <2>1. (Base - 1) * Base = Base * (Base - 1)
    BY <1>1
  <2>2. d <= Base - 1
    <3> SUFFICES ASSUME d >= Base
                 PROVE  FALSE
      BY <1>1, <1>3
    <3>1. Base * d >= Base * Base /\ Base * Base = Base * (Base - 1) + Base
      BY <1>1, <1>3
    <3>2. Base * d \in Nat /\ Base * (Base - 1) \in Nat /\ Base * Base \in Nat
      BY <1>1, <1>3
    <3> QED
      BY <1>1, <1>2, <1>3, <2>1, <3>1, <3>2
  <2>3. ASSUME d = Base - 1
        PROVE  m = 0
    <3>1. Base * d = Base * (Base - 1) /\ Base * d \in Nat
      BY <1>1, <1>3, <2>3
    <3> QED
      BY <1>2, <1>3, <2>1, <3>1
  <2> QED
    BY <2>2, <2>3
<1>5. a - prod = (a - m) + Base * (-d) /\ a - m \in Int /\ -d \in Int
  <2>1. Base * (-d) = - (Base * d) /\ Base * d \in Nat
    BY <1>1, <1>3
  <2> QED
    BY <1>1, <1>3, <2>1
<1>6. a1 = (a - m) % Base
  <2>1. ((a - m) + Base * (-d)) % Base = (a - m) % Base
    BY <1>1, <1>5, DivisionShift
  <2> QED
    BY <1>5, <2>1
<1>7. CASE a < m
  <2>1. a1 = a - m + Base
    <3>1. a - m = Base * (-1) + (a - m + Base) /\ a - m + Base \in 0..(Base - 1)
      BY <1>1, <1>3, <1>7
    <3>2. Base \in Nat \ {0} /\ -1 \in Int
      BY <1>1
    <3>3. (a - m) % Base = a - m + Base
      BY <1>5, <3>1, <3>2, DivisionUnique
    <3> QED
      BY <1>6, <3>3
  <2>2. c1 = d + 1
    <3>1. d + 1 \in Nat /\ d + 1 < Base
      BY <1>1, <1>3, <1>4, <1>7
    <3> QED
      BY <1>1, <1>7, <3>1
  <2>3. a1 - Base * c1 = a - prod
    <3>1. Base * (d + 1) = Base * d + Base /\ Base * d \in Nat
      BY <1>1, <1>3
    <3> QED
      BY <1>1, <1>3, <2>1, <2>2, <3>1
  <2>4. a1 \in Limb /\ c1 \in Limb
    BY <1>1, <1>3, <1>4, <1>7, <2>1, <2>2 DEF Limb
  <2> QED
    BY <2>3, <2>4 DEF prod, d, m
<1>8. CASE ~ (a < m)
  <2>1. a1 = a - m
    BY <1>1, <1>3, <1>6, <1>8
  <2>2. c1 = d
    BY <1>1, <1>3, <1>4, <1>8
  <2>3. a1 - Base * c1 = a - prod
    <3>1. Base * d \in Nat
      BY <1>1, <1>3
    <3> QED
      BY <1>1, <1>3, <2>1, <2>2, <3>1
  <2>4. a1 \in Limb /\ c1 \in Limb
    BY <1>1, <1>3, <1>4, <1>8, <2>1, <2>2 DEF Limb
  <2> QED
    BY <2>3, <2>4 DEF prod, d, m
<1> QED
  BY <1>7, <1>8

\* The limb and the carry of a step of the add-back.
LEMMA AddDigit ==
  ASSUME NEW v \in Limb, NEW c \in {0, 1}, NEW a \in Limb, carry = c
  PROVE  LET sum == (a + v + c) % Base
             c1 == IF sum < a \/ (carry # 0 /\ sum = a) THEN 1 ELSE 0
         IN  /\ sum \in Limb /\ c1 \in {0, 1}
             /\ sum + Base * c1 = a + v + c
<1> DEFINE sum == (a + v + c) % Base
           c1 == IF sum < a \/ (carry # 0 /\ sum = a) THEN 1 ELSE 0
<1>1. Base \in Nat /\ Base >= 2 /\ v \in 0..(Base - 1) /\ a \in 0..(Base - 1)
  BY BaseType DEF Limb
<1>2. CASE a + v + c < Base
  <2>1. sum = a + v + c
    BY <1>1, <1>2
  <2> HIDE DEF sum
  <2>2. c1 = 0
    BY <1>1, <2>1
  <2> QED
    BY <1>1, <1>2, <2>1, <2>2 DEF Limb, sum
<1>3. CASE a + v + c >= Base
  <2>1. sum = a + v + c - Base
    <3>1. /\ a + v + c = Base * 1 + (a + v + c - Base)
          /\ a + v + c - Base \in 0..(Base - 1) /\ a + v + c \in Int
      BY <1>1, <1>3
    <3>2. Base \in Nat \ {0} /\ 1 \in Int
      BY <1>1
    <3>3. (a + v + c) % Base = a + v + c - Base
      <4> DEFINE x == a + v + c
                 y == a + v + c - Base
      <4>1. x \in Int /\ y \in 0..(Base - 1) /\ x = Base * 1 + y
        BY <3>1
      <4> HIDE DEF x, y
      <4>2. (x % Base) = y
        BY <3>2, <4>1, DivisionUnique
      <4> QED
        BY <4>2 DEF x, y
    <3> QED
      BY <3>3
  <2> HIDE DEF sum
  <2>2. c1 = 1
    BY <1>1, <2>1
  <2> QED
    BY <1>1, <1>3, <2>1, <2>2 DEF Limb, sum
<1> QED
  BY <1>1, <1>2, <1>3

\* A limb of the window written.
LEMMA WriteWindow ==
  ASSUME TypeOK, Long, j > 0, j <= d_count - v_count + 1,
         \A x \in (j + v_count)..d_count : u[x] = 0,
         NEW l \in 0..v_count, NEW y \in Limb, u' = [u EXCEPT ![idx + l] = y],
         d_count' = d_count
  PROVE  /\ u' \in [0..DCount -> Limb]
         /\ u[idx + l] \in Limb
         /\ \A x \in (j + v_count)..d_count : u'[x] = 0
         /\ Whole' = Whole + (y - u[idx + l]) * (LimbPower(idx) * LimbPower(l))
         /\ Whole \in Nat /\ Whole' \in Nat
         /\ LimbPower(idx) \in Nat \ {0} /\ LimbPower(l) \in Nat \ {0}
         /\ LimbPower(l + 1) = Base * LimbPower(l) /\ Base \in Nat
<1>1. /\ idx \in Nat /\ idx + l \in 0..DCount /\ idx + l \in 0..((d_count + 1) - 1)
      /\ d_count + 1 \in Nat /\ idx + l < j + v_count /\ l \in Nat
  <2>1. /\ v_count \in Nat /\ v_count >= 2 /\ v_count <= d_count
        /\ d_count \in 0..DCount /\ DCount \in Nat /\ j \in Nat
    BY LongSizes
  <2> QED
    BY <2>1 DEF idx
<1>2. u \in [0..DCount -> Limb]
  BY Zenon DEF TypeOK
<1>3. u' \in [0..DCount -> Limb] /\ u[idx + l] \in Limb
  BY <1>1, <1>2
<1>4. \A x \in (j + v_count)..d_count : u'[x] = 0
  <2> SUFFICES ASSUME NEW x \in (j + v_count)..d_count
               PROVE  u'[x] = 0
    OBVIOUS
  <2>1. x # idx + l /\ x \in 0..DCount
    <3>1. j + v_count \in Nat /\ d_count \in 0..DCount /\ DCount \in Nat
      BY LongSizes
    <3> QED
      BY <1>1, <3>1
  <2> QED
    BY <1>2, <2>1
<1>5. LimbsAt(u, 0, d_count + 1)
  <2>1. Limbs(u, 0, d_count + 1) /\ d_count + 1 \in 0..(d_count + 1)
    BY <1>1, LongSizes
  <2> QED
    BY <1>1, <2>1, LimbsAreIntegers
<1>6. Value([u EXCEPT ![0 + (idx + l)] = y], 0, d_count + 1) =
        Value(u, 0, d_count + 1) + (y - u[0 + (idx + l)]) * LimbPower(idx + l)
  <2> DEFINE d == idx + l
             n == d_count + 1
  <2>1. /\ 0 + d \in DOMAIN u /\ y \in Int /\ 0 \in Int /\ n \in Nat
        /\ d \in 0..(n - 1) /\ LimbsAt(u, 0, n)
    BY <1>1, <1>2, <1>5, BaseType DEF Limb
  <2> HIDE DEF d, n
  <2>2. Value([u EXCEPT ![0 + d] = y], 0, n) = Value(u, 0, n) + (y - u[0 + d]) * LimbPower(d)
    BY <2>1, ValueExcept
  <2> QED
    BY <2>2 DEF d, n
<1>7. LimbPower(idx + l) = LimbPower(idx) * LimbPower(l)
  BY <1>1, LimbPowerAdd
<1>8. 0 + (idx + l) = idx + l
  BY <1>1
<1>9. Whole' = Whole + (y - u[idx + l]) * (LimbPower(idx) * LimbPower(l))
  BY <1>6, <1>7, <1>8 DEF Whole
<1>10. Whole' \in Nat
  <2>1. Limbs(u', 0, d_count + 1)
    <3>1. \A x \in 0..((d_count + 1) - 1) : 0 + x \in 0..DCount
      BY LongSizes
    <3> QED
      BY <1>3, <3>1 DEF Limbs
  <2>2. Value(u', 0, d_count + 1) \in Nat
    BY <1>1, <2>1, ValueType
  <2> QED
    BY <2>2 DEF Whole
<1>11. Whole \in Nat
  BY WholeParts
<1> QED
  BY <1>1, <1>3, <1>4, <1>9, <1>10, <1>11, LimbPowers, BaseType

LEMMA SubtractStep ==
  ASSUME DivInv, Subtract
  PROVE  DivInv'
<1> DEFINE v == V(k)
           a == u[idx + k]
           prod == q_hat * v + carry
           a1 == (a - prod) % Base
           c1 == ((prod \div Base) + (IF a < prod % Base THEN 1 ELSE 0)) % Base
           m == Normal % LimbPower(k)
           p == LimbPower(k)
           g == LimbPower(idx)
<1>1. /\ pc = "subtract" /\ pc' = "subtract" /\ InLong /\ Same /\ remainder' = remainder
      /\ k < v_count /\ k' = k + 1 /\ q_hat' = q_hat /\ r_hat' = r_hat
      /\ u' = [u EXCEPT ![idx + k] = a1] /\ carry' = c1
  BY DEF Subtract, InLong, Same, Args
<1>2. /\ j > 0 /\ q_hat \in {TrueLimb, TrueLimb + 1}
      /\ Whole + (q_hat * m - carry * p) * g = Left
  BY <1>1 DEF DivInv, LongInv
<1>3. /\ TypeOK /\ Long /\ j <= d_count - v_count + 1 /\ Left \in Nat
      /\ \A y \in (j + v_count)..d_count : u[y] = 0
  BY <1>1, <1>2, LongFacts
<1>4. k \in 0..v_count /\ k \in Nat /\ v_count \in Nat /\ v_count <= VCount /\ VCount \in Nat
  <2>1. v_count \in Nat /\ v_count <= VCount /\ VCount \in Nat
    BY <1>3, Sizes
  <2>2. k \in 0..VCount
    BY <1>3 DEF TypeOK
  <2> QED
    BY <1>1, <2>1, <2>2
<1>5. q_hat \in Limb /\ carry \in Limb /\ a \in Limb
  <2>1. idx + k \in 0..DCount
    <3>1. /\ v_count \in Nat /\ v_count >= 2 /\ v_count <= d_count
          /\ d_count \in 0..DCount /\ DCount \in Nat /\ j \in Nat
      BY <1>3, LongSizes
    <3> QED
      BY <1>1, <1>2, <1>3, <1>4, <3>1 DEF idx
  <2> QED
    BY <1>3, <2>1 DEF TypeOK
<1>6. /\ v \in Limb /\ m \in 0..(p - 1)
      /\ Normal % LimbPower(k + 1) = m + v * p
  BY <1>3, <1>4, LongSizes, DivisorLimbs
<1>7. a1 \in Limb /\ c1 \in Limb /\ a1 - Base * c1 = a - (q_hat * v + carry)
  BY <1>5, <1>6, SubtractDigit
<1>8. d_count' = d_count
  BY <1>1, SameFacts
<1> HIDE DEF a1, c1
<1>9. /\ u' \in [0..DCount -> Limb]
      /\ \A y \in (j + v_count)..d_count : u'[y] = 0
      /\ Whole' = Whole + (a1 - a) * (g * p)
      /\ Whole \in Nat /\ Whole' \in Nat /\ g \in Nat \ {0} /\ p \in Nat \ {0}
      /\ LimbPower(k + 1) = Base * p /\ Base \in Nat
  BY <1>1, <1>2, <1>3, <1>4, <1>7, <1>8, WriteWindow
<1> HIDE DEF v, a, m, p, g
<1>10. /\ a1 \in Int /\ c1 \in Int /\ a \in Int /\ q_hat \in Int /\ carry \in Int
       /\ v \in Int /\ m \in Int /\ p \in Int /\ g \in Int /\ Left \in Int
       /\ Whole \in Int /\ Whole' \in Int /\ Base \in Int
  BY <1>3, <1>5, <1>6, <1>7, <1>9 DEF Limb
<1>11. Whole' + (q_hat * (m + v * p) - c1 * (Base * p)) * g = Left
  BY <1>2, <1>7, <1>9, <1>10, LimbAlgebra
<1>12. Whole' + (q_hat' * (Normal % LimbPower(k')) - carry' * LimbPower(k')) * LimbPower(idx) = Left
  BY <1>1, <1>6, <1>9, <1>11 DEF m, p, g
<1>13. TypeOK'
  BY <1>1, <1>3, <1>4, <1>7, <1>9 DEF TypeOK, Same
<1>14. k' <= v_count /\ k' # 0
  BY <1>1, <1>4
<1> QED
  BY <1>1, <1>2, <1>3, <1>9, <1>12, <1>13, <1>14, LongFrame

\* A step of the add-back, its parts named.
LEMMA AddBackLimb ==
  ASSUME DivInv, pc = "add_back", pc' = "add_back", k < v_count, k' = k + 1,
         q_hat' = q_hat, r_hat' = r_hat, remainder' = remainder, Same,
         u' = [u EXCEPT ![idx + k] = (u[idx + k] + V(k) + carry) % Base],
         carry' = LET sum == (u[idx + k] + V(k) + carry) % Base
                      a == u[idx + k]
                  IN  IF sum < a \/ (carry # 0 /\ sum = a) THEN 1 ELSE 0
  PROVE  DivInv'
<1>0. k < v_count /\ k' = k + 1 /\ pc = "add_back" /\ pc' = "add_back"
  OBVIOUS
<1> DEFINE v == V(k)
           a == u[idx + k]
           a1 == (a + v + carry) % Base
           c1 == IF a1 < a \/ (carry # 0 /\ a1 = a) THEN 1 ELSE 0
           m == Normal % LimbPower(k)
           p == LimbPower(k)
           g == LimbPower(idx)
           r == Left - ((q_hat + 1) * Normal) * g + LimbPower(j + v_count)
<1>1. /\ pc = "add_back" /\ pc' = "add_back" /\ InLong /\ Same /\ remainder' = remainder
      /\ k < v_count /\ k' = k + 1 /\ q_hat' = q_hat /\ r_hat' = r_hat
      /\ u' = [u EXCEPT ![idx + k] = a1]
  BY Zenon DEF InLong
<1>1c. carry' = c1
  OBVIOUS
<1>2. /\ j > 0 /\ q_hat = TrueLimb /\ carry \in {0, 1}
      /\ Whole = r + (m - carry * p) * g
  BY <1>1 DEF DivInv, LongInv
<1>2a. j > 0
  BY <1>2
<1>3. /\ TypeOK /\ Long /\ j <= d_count - v_count + 1 /\ Left \in Nat
      /\ Left < LimbPower(j) * Normal
      /\ \A y \in (j + v_count)..d_count : u[y] = 0
  BY <1>1, <1>2, LongFacts
<1>4. k \in 0..v_count /\ k \in Nat /\ v_count \in Nat /\ v_count <= VCount /\ VCount \in Nat
  <2>1. v_count \in Nat /\ v_count <= VCount /\ VCount \in Nat
    BY <1>3, Sizes
  <2>2. k \in 0..VCount
    BY <1>3 DEF TypeOK
  <2> QED
    BY <1>0, <2>1, <2>2
<1>5. a \in Limb
  <2>1. idx + k \in 0..DCount
    <3>1. /\ v_count \in Nat /\ v_count >= 2 /\ v_count <= d_count
          /\ d_count \in 0..DCount /\ DCount \in Nat /\ j \in Nat
      BY <1>3, LongSizes
    <3> QED
      BY <1>0, <1>2a, <1>3, <1>4, <3>1 DEF idx
  <2> QED
    BY <1>3, <2>1 DEF TypeOK
<1>6. /\ v \in Limb /\ m \in 0..(p - 1)
      /\ Normal % LimbPower(k + 1) = m + v * p
  BY <1>3, <1>4, LongSizes, DivisorLimbs
<1>7. a1 \in Limb /\ c1 \in {0, 1} /\ a1 + Base * c1 = a + v + carry
  BY <1>2, <1>5, <1>6, AddDigit
<1>8. d_count' = d_count
  BY <1>1, SameFacts
<1> HIDE DEF a1, c1
<1>9. /\ u' \in [0..DCount -> Limb]
      /\ \A y \in (j + v_count)..d_count : u'[y] = 0
      /\ Whole' = Whole + (a1 - a) * (g * p)
      /\ Whole \in Nat /\ Whole' \in Nat /\ g \in Nat \ {0} /\ p \in Nat \ {0}
      /\ LimbPower(k + 1) = Base * p /\ Base \in Nat
  BY <1>1, <1>2, <1>3, <1>4, <1>7, <1>8, WriteWindow
<1>10. r \in Int
  <2>1. TrueLimb \in Nat /\ Normal \in Nat
    BY <1>2, <1>3, TrueLimbFacts
  <2>2. LimbPower(j + v_count) \in Nat
    <3>1. j + v_count \in Nat
      BY <1>3, LongSizes
    <3> QED
      BY <3>1, LimbPowers
  <2>3. ((q_hat + 1) * Normal) * g \in Nat
    BY <1>2, <1>9, <2>1
  <2> QED
    BY <1>3, <2>2, <2>3
<1> HIDE DEF v, a, m, p, g, r
<1>11. /\ a1 \in Int /\ c1 \in Int /\ -c1 \in Int /\ a \in Int /\ carry \in Int /\ -carry \in Int
       /\ v \in Int /\ m \in Int /\ p \in Int /\ g \in Int
       /\ Whole \in Int /\ Whole' \in Int /\ Base \in Int /\ -1 \in Int
  BY <1>2, <1>5, <1>6, <1>7, <1>9 DEF Limb
<1>12. a1 - Base * (-c1) = a - ((-1) * v + (-carry))
  BY <1>7, <1>11
<1>13. Whole + ((-1) * m - (-carry) * p) * g = r
  <2>1. (-1) * m - (-carry) * p = -(m - carry * p)
    BY <1>11
  <2>2. m - carry * p \in Int
    BY <1>11
  <2>3. (-(m - carry * p)) * g = -((m - carry * p) * g) /\ (m - carry * p) * g \in Int
    BY <1>11, <2>2
  <2> QED
    BY <1>2, <1>10, <2>1, <2>3
<1>14. Whole' + ((-1) * (m + v * p) - (-c1) * (Base * p)) * g = r
  BY <1>9, <1>10, <1>11, <1>12, <1>13, LimbAlgebra
<1>15. Whole' = r + ((m + v * p) - c1 * (Base * p)) * g
  <2>1. m + v * p \in Int /\ c1 * (Base * p) \in Int
    BY <1>11
  <2>2. (-1) * (m + v * p) - (-c1) * (Base * p) = -((m + v * p) - c1 * (Base * p))
    BY <1>11, <2>1
  <2>3. (m + v * p) - c1 * (Base * p) \in Int
    BY <2>1
  <2> DEFINE x == (m + v * p) - c1 * (Base * p)
  <2>4. x \in Int
    BY <2>3
  <2>5. Whole' + (-x) * g = r
    BY <1>14, <2>2
  <2> HIDE DEF x
  <2>6. (-x) * g = -(x * g) /\ x * g \in Int
    BY <1>11, <2>4
  <2>7. Whole' = r + x * g
    BY <1>10, <1>11, <2>5, <2>6
  <2> QED
    BY <2>7 DEF x
<1>16. Whole' = Left - ((q_hat' + 1) * Normal) * LimbPower(idx) + LimbPower(j + v_count)
                + ((Normal % LimbPower(k')) - carry' * LimbPower(k')) * LimbPower(idx)
  BY <1>1, <1>1c, <1>6, <1>9, <1>15 DEF m, p, g, r
<1>17. TypeOK'
  <2>1. carry' \in Limb
    BY <1>1c, <1>7, BaseType DEF Limb
  <2>2. k' \in 0..VCount
    BY <1>0, <1>4
  <2>3. /\ u' \in [0..DCount -> Limb] /\ pc' = "add_back" /\ Same /\ remainder' = remainder
        /\ q_hat' = q_hat /\ r_hat' = r_hat
    BY <1>1, <1>9
  <2> QED
    BY <1>3, <2>1, <2>2, <2>3 DEF TypeOK, Same
<1>18. k' <= v_count
  BY <1>0, <1>4
<1> QED
  BY <1>1, <1>1c, <1>2, <1>3, <1>7, <1>9, <1>16, <1>17, <1>18, LongFrame

LEMMA AddBackStep ==
  ASSUME DivInv, AddBack
  PROVE  DivInv'
<1>1. Same /\ remainder' = remainder
  BY DEF AddBack, Same, Args
<1> QED
  BY <1>1, AddBackLimb, Zenon DEF AddBack, AddCarry

\* A limb of quotient known: what is left is less the divisor that often.
LEMMA NextLeft ==
  ASSUME DivInv, InLong, j > 0, NEW q \in Limb,
         quotient' = [quotient EXCEPT ![idx] = q], j' = idx, UNCHANGED <<dividend, divisor>>
  PROVE  /\ Left' = Left - (q * Normal) * LimbPower(idx)
         /\ quotient' \in [0..DCount -> Limb]
         /\ j' = idx /\ j' \in 0..DCount /\ j' <= d_count - v_count + 1
         /\ \A x \in (d_count - v_count + 1)..DCount : quotient'[x] = Stale
         /\ d_count' = d_count /\ v_count' = v_count /\ Shift' = Shift /\ Normal' = Normal
         /\ (Long)' = Long
<1> DEFINE n == d_count - v_count + 1
           h == n - j
           g == LimbPower(idx)
           w == dividend * 2^Shift
<1>1. /\ TypeOK /\ Long /\ j <= n /\ LongInv
  BY LongFacts DEF DivInv
<1>2. /\ n \in Nat /\ h \in Nat /\ idx \in Nat /\ idx + 1 = j /\ idx < n /\ n <= DCount /\ DCount \in Nat
      /\ n - idx = 1 + h /\ j \in Nat /\ d_count \in Nat /\ v_count \in Nat
  <2>1. /\ v_count \in Nat /\ v_count >= 2 /\ v_count <= d_count
        /\ d_count \in 0..DCount /\ DCount \in Nat /\ j \in Nat
    BY <1>1, LongSizes
  <2> QED
    BY <1>1, <2>1 DEF idx
<1>3. /\ quotient' = [quotient EXCEPT ![idx] = q] /\ j' = idx
  OBVIOUS
<1>4. /\ d_count' = d_count /\ v_count' = v_count /\ Shift' = Shift /\ Normal' = Normal
      /\ dividend' = dividend /\ (Long)' = Long
  BY DEF d_count, v_count, Shift, Normal, Length, Long
<1>5. quotient \in [0..DCount -> Limb]
  BY <1>1, Zenon DEF TypeOK
<1>6. quotient' \in [0..DCount -> Limb] /\ quotient'[idx] = q
  BY <1>2, <1>3, <1>5
<1>7. \A x \in n..DCount : quotient'[x] = Stale
  <2>1. \A x \in n..DCount : quotient[x] = Stale
    BY <1>1 DEF LongInv
  <2> QED
    BY <1>2, <1>3, <1>5, <2>1
<1>8. LimbsAt(quotient', idx, 1 + h) /\ LimbsAt(quotient, j, h)
  <2>1. \A x \in 0..DCount : quotient'[x] \in Int /\ quotient[x] \in Int
    BY <1>5, <1>6, BaseType DEF Limb
  <2> HIDE DEF h, n
  <2>2. ASSUME NEW l \in 0..((1 + h) - 1)
        PROVE  idx + l \in 0..DCount
    BY <1>2
  <2>3. ASSUME NEW l \in 0..(h - 1)
        PROVE  j + l \in 0..DCount
    BY <1>2
  <2> QED
    BY <2>1, <2>2, <2>3 DEF LimbsAt
<1>9. /\ Value(quotient', idx, 1 + h) =
           Value(quotient', idx, 1) + Value(quotient', idx + 1, h) * LimbPower(1)
      /\ Value(quotient', idx + 1, h) \in Int
  <2> HIDE DEF h, n
  <2> QED
    BY <1>2, <1>8, ValueSplit
<1>10. Value(quotient', idx, 1) = q
  <2>1. idx \in Int /\ quotient'[idx] \in Int
    BY <1>2, <1>6, BaseType DEF Limb
  <2>2. Value(quotient', idx, 1) = quotient'[idx]
    BY <2>1, ValueOne
  <2> QED
    BY <1>6, <2>2
<1>11. Value(quotient', j, h) = Value(quotient, j, h)
  <2> HIDE DEF h, n
  <2>1. j \in Int /\ h \in Nat
    BY <1>2
  <2>2. \A x \in 0..(h - 1) : quotient'[j + x] = quotient[j + x]
    <3>1. \A x \in Nat : x <= h - 1 => j + x \in 0..DCount /\ j + x # idx
      BY <1>2
    <3> QED
      BY <1>3, <1>5, <2>1, <3>1
  <2> QED
    BY <1>8, <2>1, <2>2, ValueSame
<1>12. Quot' = q + Quot * Base /\ Quot \in Int
  <2>1. Quot' = Value(quotient', idx, 1 + h)
    <3>1. d_count' - v_count' + 1 - j' = 1 + h
      BY <1>2, <1>3, <1>4
    <3> QED
      BY <1>3, <3>1 DEF Quot
  <2>2. Quot = Value(quotient, j, h)
    <3>1. d_count - v_count + 1 - j = h
      BY <1>2
    <3> QED
      BY <3>1 DEF Quot
  <2> QED
    BY <1>2, <1>9, <1>10, <1>11, <2>1, <2>2, LimbPowers
<1>13. g \in Nat /\ LimbPower(j) = Base * g /\ Base \in Nat /\ Normal \in Nat /\ w \in Nat /\ q \in Nat
  <2>1. Normal \in Nat /\ w \in Nat
    BY <1>1, LongSizes, ShiftFacts, Sizes
  <2>2. g \in Nat /\ LimbPower(j) = Base * g
    BY <1>2, LimbPowers
  <2> QED
    BY <2>1, <2>2, BaseType DEF Limb
<1>14. Left' = w - ((q + Quot * Base) * g) * Normal /\ Left = w - (Quot * (Base * g)) * Normal
  BY <1>3, <1>4, <1>12, <1>13 DEF Left
<1> HIDE DEF w, g
<1>15. ((q + Quot * Base) * g) * Normal = (q * Normal) * g + (Quot * (Base * g)) * Normal
  <2>1. (q + Quot * Base) * g = q * g + Quot * (Base * g)
    BY <1>12, <1>13
  <2>2. \A x, y \in Int : (x + y) * Normal = x * Normal + y * Normal
    BY <1>13
  <2>3. q * g \in Int /\ Quot * (Base * g) \in Int
    BY <1>12, <1>13
  <2>4. (q * g) * Normal = (q * Normal) * g
    BY <1>13
  <2> QED
    BY <2>1, <2>2, <2>3, <2>4
<1>16. (q * Normal) * g \in Int /\ (Quot * (Base * g)) * Normal \in Int
  <2>1. Quot * (Base * g) \in Int /\ q * Normal \in Int
    BY <1>12, <1>13
  <2> QED
    BY <1>13, <2>1
<1>17. Left' = Left - (q * Normal) * g
  BY <1>13, <1>14, <1>15, <1>16
<1> QED
  BY <1>2, <1>3, <1>4, <1>6, <1>7, <1>17 DEF g

\* What the true limb leaves is less than the divisor at the next place.
LEMMA TrueLimbLeaves ==
  ASSUME TypeOK, Long, j > 0, Left \in Nat, Left < LimbPower(j) * Normal
  PROVE  /\ (TrueLimb * Normal) * LimbPower(idx) \in Nat
         /\ (TrueLimb * Normal) * LimbPower(idx) <= Left
         /\ Left < ((TrueLimb + 1) * Normal) * LimbPower(idx)
         /\ Left - (TrueLimb * Normal) * LimbPower(idx) < LimbPower(idx) * Normal
<1> DEFINE g == LimbPower(idx)
           n == Normal
           t == TrueLimb * n
           h == Left \div g
<1>1. /\ h \in Nat /\ TrueLimb \in Nat /\ g \in Nat \ {0} /\ n \in Nat \ {0}
      /\ t <= h /\ h < t + n /\ h * g <= Left /\ Left < h * g + g
  BY TrueLimbFacts
<1>2. t \in Nat /\ (TrueLimb + 1) * n = t + n
  BY <1>1
<1> HIDE DEF g, n, t, h
<1>3. t * g \in Nat /\ h * g \in Nat /\ (t + n) * g = t * g + n * g /\ n * g = g * n
  BY <1>1, <1>2
<1>4. t * g <= h * g
  <2>1. h - t \in Nat /\ (h - t) * g \in Nat /\ (h - t) * g = h * g - t * g
    BY <1>1, <1>2
  <2> QED
    BY <1>3, <2>1
<1>5. h * g + g <= (t + n) * g
  <2> DEFINE x == t + n - (h + 1)
  <2>1. x \in Nat /\ t + n = x + (h + 1)
    BY <1>1, <1>2
  <2> HIDE DEF x
  <2>2. x * g \in Nat /\ (x + (h + 1)) * g = x * g + (h + 1) * g /\ (h + 1) * g = h * g + g
    BY <1>1, <2>1
  <2> QED
    BY <1>1, <1>3, <2>1, <2>2
<1>6. t * g <= Left /\ Left < (t + n) * g /\ Left - t * g < g * n
  BY <1>1, <1>3, <1>4, <1>5
<1> QED
  BY <1>2, <1>3, <1>6 DEF t, g, n

\* The true limb written, and the divisor that often taken from u.
LEMMA FinishLimb ==
  ASSUME DivInv, InLong, j > 0, UNCHANGED <<dividend, divisor>>, remainder' = remainder,
         quotient' = [quotient EXCEPT ![idx] = TrueLimb], j' = idx, pc' = "estimate",
         u' \in [0..DCount -> Limb], q_hat' \in Limb, r_hat' \in Limb, carry' \in Limb,
         k' \in 0..VCount, k' <= v_count,
         Whole' = Left - (TrueLimb * Normal) * LimbPower(idx)
  PROVE  DivInv'
<1>1. /\ TypeOK /\ Long /\ j <= d_count - v_count + 1
      /\ Left \in Nat /\ Left < LimbPower(j) * Normal
  BY LongFacts
<1>2. TrueLimb \in Limb
  BY <1>1, TrueLimbFacts, BaseType DEF Limb
<1>3. /\ Left' = Left - (TrueLimb * Normal) * LimbPower(idx)
      /\ quotient' \in [0..DCount -> Limb]
      /\ j' = idx /\ j' \in 0..DCount /\ j' <= d_count - v_count + 1
      /\ \A x \in (d_count - v_count + 1)..DCount : quotient'[x] = Stale
      /\ d_count' = d_count /\ v_count' = v_count /\ Shift' = Shift /\ Normal' = Normal
      /\ (Long)' = Long
  BY <1>2, NextLeft
<1>4. Left' >= 0 /\ Left' < LimbPower(j') * Normal'
  BY <1>1, <1>3, TrueLimbLeaves
<1>5. TypeOK'
  BY <1>1, <1>3 DEF TypeOK
<1>6. LongInv'
  BY <1>1, <1>3, <1>4 DEF LongInv
<1>7. remainder = [x \in 0..(VCount - 1) |-> Stale]
  BY DEF DivInv, InLong
<1> QED
  BY <1>5, <1>6, <1>7 DEF DivInv

\* The top limb, whose place is that of the divisor's length.
LEMMA TopPlace ==
  ASSUME TypeOK, Long, j > 0, j <= d_count - v_count + 1,
         \A x \in (j + v_count)..d_count : u[x] = 0
  PROVE  LET g == LimbPower(idx) * LimbPower(v_count)
         IN  /\ g \in Nat \ {0}
             /\ LimbPower(j + v_count) = Base * g
             /\ Top \in Limb
             /\ \E low \in 0..(g - 1) : Whole = low + Top * g
<1>1. /\ v_count \in Nat /\ idx \in Nat /\ j + v_count = (idx + v_count) + 1
      /\ idx + v_count \in Nat
  BY LongSizes DEF idx
<1>2. /\ LimbPower(idx + v_count) = LimbPower(idx) * LimbPower(v_count)
      /\ LimbPower((idx + v_count) + 1) = Base * LimbPower(idx + v_count)
      /\ LimbPower(idx + v_count) \in Nat \ {0}
  BY <1>1, LimbPowers, LimbPowerAdd
<1>3. /\ Value(u, 0, idx + v_count) \in 0..(LimbPower(idx + v_count) - 1)
      /\ Whole = Value(u, 0, idx + v_count) + Top * LimbPower(idx + v_count)
  BY WholeParts
<1>4. Top \in Limb
  BY WindowLimbs
<1> QED
  BY <1>1, <1>2, <1>3, <1>4

\* The top limb holds the carry: the estimate was right.
LEMMA SubtractTopEnough ==
  ASSUME NEW left \in Nat, NEW n \in Nat, NEW t \in Nat, NEW q \in {t, t + 1}, NEW g \in Nat,
         NEW rest \in Nat, rest + (q * n) * g = left, left < ((t + 1) * n) * g
  PROVE  q = t
<1>1. (q * n) * g \in Nat
  OBVIOUS
<1>2. (q * n) * g < ((t + 1) * n) * g
  BY <1>1
<1> QED
  BY <1>2

LEMMA SubtractTopStep ==
  ASSUME DivInv, SubtractTop
  PROVE  DivInv'
<1> DEFINE c == LimbPower(v_count)
           i == LimbPower(idx)
           g == i * c
           y == (Top - carry) % Base
           n == Normal
<1>1. /\ pc = "subtract" /\ k = v_count /\ u' = [u EXCEPT ![idx + v_count] = y]
      /\ UNCHANGED <<dividend, divisor>> /\ remainder' = remainder /\ r_hat' = r_hat
      /\ InLong
  BY DEF SubtractTop, InLong, Args
<1>2. /\ j > 0 /\ q_hat \in {TrueLimb, TrueLimb + 1}
      /\ Whole + (q_hat * (n % c) - carry * c) * i = Left
  BY <1>1 DEF DivInv, LongInv
<1>3. /\ TypeOK /\ Long /\ j <= d_count - v_count + 1
      /\ Left \in Nat /\ Left < LimbPower(j) * Normal
      /\ \A x \in (j + v_count)..d_count : u[x] = 0
  BY <1>1, <1>2, LongFacts
<1>4. /\ g \in Nat \ {0} /\ LimbPower(j + v_count) = Base * g /\ Top \in Limb
      /\ \E low \in 0..(g - 1) : Whole = low + Top * g
  BY <1>2, <1>3, TopPlace
<1>5. /\ q_hat \in Limb /\ r_hat \in Limb /\ carry \in Limb /\ Base \in Nat /\ Base >= 2
      /\ k \in 0..VCount
  BY <1>3, BaseType DEF TypeOK
<1>6. /\ TrueLimb \in Nat /\ n \in Nat \ {0} /\ i \in Nat \ {0} /\ c \in Nat \ {0}
      /\ n % c = n /\ v_count \in Nat /\ v_count \in 0..v_count
  <2>1. v_count \in Nat /\ v_count > 0
    BY <1>3, LongSizes
  <2>2. n \in Nat \ {0} /\ n < c
    BY <1>3, <2>1, ShiftFacts
  <2>3. c \in Nat \ {0}
    BY <2>1, LimbPowers
  <2>4. TrueLimb \in Nat /\ i \in Nat \ {0}
    BY <1>2, <1>3, TrueLimbFacts
  <2> HIDE DEF c, i, n
  <2>5. n % c = n
    BY <2>2, <2>3
  <2> QED
    BY <2>1, <2>2, <2>3, <2>4, <2>5
<1>7. y \in Limb
  BY <1>4, <1>5 DEF Limb
<1>8. d_count' = d_count
  BY <1>1 DEF d_count, Length
<1> HIDE DEF y
<1>9. /\ u' \in [0..DCount -> Limb]
      /\ \A x \in (j + v_count)..d_count : u'[x] = 0
      /\ Whole' = Whole + (y - Top) * g
      /\ Whole \in Nat /\ Whole' \in Nat
  BY <1>1, <1>2, <1>3, <1>6, <1>7, <1>8, WriteWindow DEF Top
<1>10. /\ (TrueLimb * n) * i \in Nat /\ (TrueLimb * n) * i <= Left
       /\ Left < ((TrueLimb + 1) * n) * i
  BY <1>2, <1>3, TrueLimbLeaves
<1> HIDE DEF c, i, n, g
<1>11. Whole + (q_hat * n) * i - carry * g = Left /\ (q_hat * n) * i \in Nat /\ carry * g \in Nat
  <2>1. q_hat * n \in Nat /\ carry * c \in Nat
    BY <1>5, <1>6 DEF Limb
  <2>2. (q_hat * n - carry * c) * i = (q_hat * n) * i - (carry * c) * i
    BY <1>6, <2>1
  <2>3. (carry * c) * i = carry * g /\ (carry * c) * i \in Nat /\ (q_hat * n) * i \in Nat
    BY <1>5, <1>6, <2>1 DEF g, Limb
  <2> QED
    BY <1>2, <1>6, <1>9, <2>2, <2>3
<1>12. CASE ~ (Top < carry)
  <2>1. y = Top - carry
    BY <1>4, <1>5, <1>12 DEF y, Limb
  <2>2. (y - Top) * g = - (carry * g)
    BY <1>4, <1>5, <2>1 DEF Limb
  <2>3. Whole' + (q_hat * n) * i = Left
    BY <1>3, <1>9, <1>11, <2>2
  <2>4. q_hat = TrueLimb
    BY <1>2, <1>3, <1>6, <1>9, <1>10, <2>3, SubtractTopEnough
  <2>5. Whole' = Left - (TrueLimb * n) * i
    BY <1>3, <1>9, <1>10, <2>3, <2>4
  <2>6. /\ quotient' = [quotient EXCEPT ![idx] = TrueLimb] /\ j' = idx /\ pc' = "estimate"
        /\ q_hat' = q_hat /\ k' = k /\ carry' = carry
    BY <1>12, <2>4 DEF SubtractTop, NextLimb, Goes, idx
  <2>7. k' <= v_count /\ k' \in 0..VCount /\ q_hat' \in Limb /\ r_hat' \in Limb /\ carry' \in Limb
    BY <1>1, <1>5, <1>6, <2>6
  <2> QED
    BY <1>1, <1>2, <1>9, <2>5, <2>6, <2>7, FinishLimb DEF n, i
<1>13. CASE Top < carry
  <2>1. y = Top - carry + Base
    <3> DEFINE x == Top - carry
               z == Top - carry + Base
    <3>1. x \in Int /\ -1 \in Int /\ Base \in Nat \ {0} /\ z \in 0..(Base - 1) /\ x = Base * (-1) + z
      BY <1>4, <1>5, <1>13 DEF Limb
    <3> HIDE DEF x, z
    <3>2. x % Base = z
      BY <3>1, DivisionUnique
    <3> QED
      BY <3>2 DEF y, x, z
  <2>2. (y - Top) * g = Base * g - carry * g /\ Base * g \in Nat
    BY <1>4, <1>5, <2>1 DEF Limb
  <2>3. Whole' = Left - (q_hat * n) * i + Base * g
    BY <1>3, <1>9, <1>11, <2>2
  <2>4. q_hat = TrueLimb + 1
    <3>1. PICK low \in 0..(g - 1) : Whole = low + Top * g
      BY <1>4
    <3>2. Top * g + g <= carry * g
      <4>1. Top \in Nat /\ carry \in Nat /\ carry - (Top + 1) \in Nat
        BY <1>4, <1>5, <1>13 DEF Limb
      <4>2. (carry - (Top + 1)) * g \in Nat
        BY <1>4, <4>1
      <4>3. (carry - (Top + 1)) * g = carry * g - (Top * g + g) /\ Top * g \in Nat
        BY <1>4, <4>1
      <4> QED
        BY <1>4, <1>11, <4>2, <4>3
    <3>3. Top * g \in Nat
      BY <1>4, <1>5 DEF Limb
    <3>4. Left < (q_hat * n) * i
      BY <1>3, <1>4, <1>9, <1>11, <3>1, <3>2, <3>3
    <3>5. q_hat # TrueLimb
      BY <1>3, <1>10, <1>11, <3>4
    <3> QED
      BY <1>2, <3>5
  <2>5. /\ q_hat' = q_hat - 1 /\ k' = 0 /\ carry' = 0 /\ pc' = "add_back" /\ Same
    BY <1>1, <1>13 DEF SubtractTop, Goes, Same
  <2>6. q_hat' = TrueLimb /\ q_hat' + 1 = q_hat /\ q_hat' \in Limb
    BY <1>5, <1>6, <2>4, <2>5 DEF Limb
  <2>7. Whole' = Left - ((q_hat' + 1) * Normal) * LimbPower(idx) + LimbPower(j + v_count)
                 + ((Normal % LimbPower(k')) - carry' * LimbPower(k')) * LimbPower(idx)
    <3>1. LimbPower(k') = 1 /\ n % 1 = 0
      BY <1>6, <2>5, LimbPowers
    <3>2. ((n % LimbPower(k')) - carry' * LimbPower(k')) * i = 0
      BY <1>6, <2>5, <3>1
    <3>3. Whole' = Left - ((q_hat' + 1) * n) * i + LimbPower(j + v_count) + 0
      BY <1>3, <1>4, <1>9, <1>11, <2>2, <2>3, <2>6
    <3> QED
      BY <3>2, <3>3 DEF n, i
  <2>8. TypeOK'
    <3>1. /\ 0 \in 0..VCount /\ 0 \in Limb
      BY <1>5, DivAssumption DEF Limb
    <3> QED
      BY <1>1, <1>3, <1>9, <2>5, <2>6, <3>1 DEF TypeOK, Same
  <2>9. k' <= v_count
    BY <1>6, <2>5
  <2> QED
    BY <1>1, <1>2, <1>9, <2>5, <2>6, <2>7, <2>8, <2>9, LongFrame
<1> QED
  BY <1>12, <1>13

LEMMA AddBackTopStep ==
  ASSUME DivInv, AddBackTop
  PROVE  DivInv'
<1> DEFINE c == LimbPower(v_count)
           i == LimbPower(idx)
           g == i * c
           y == (Top + carry) % Base
           n == Normal
           r == Left - (TrueLimb * n) * i
<1>1. /\ pc = "add_back" /\ k = v_count /\ u' = [u EXCEPT ![idx + v_count] = y]
      /\ UNCHANGED <<dividend, divisor>> /\ remainder' = remainder /\ r_hat' = r_hat
      /\ InLong /\ q_hat' = q_hat /\ k' = k /\ carry' = carry
      /\ quotient' = [quotient EXCEPT ![idx] = q_hat] /\ j' = idx /\ pc' = "estimate"
  BY DEF AddBackTop, InLong, Args, NextLimb, Goes, idx
<1>2. /\ j > 0 /\ q_hat = TrueLimb /\ carry \in {0, 1}
      /\ Whole = Left - ((q_hat + 1) * n) * i + LimbPower(j + v_count) + ((n % c) - carry * c) * i
  BY <1>1 DEF DivInv, LongInv
<1>3. /\ TypeOK /\ Long /\ j <= d_count - v_count + 1
      /\ Left \in Nat /\ Left < LimbPower(j) * Normal
      /\ \A x \in (j + v_count)..d_count : u[x] = 0
  BY <1>1, <1>2, LongFacts
<1>4. /\ g \in Nat \ {0} /\ LimbPower(j + v_count) = Base * g /\ Top \in Limb
      /\ \E low \in 0..(g - 1) : Whole = low + Top * g
  BY <1>2, <1>3, TopPlace
<1>5. /\ q_hat \in Limb /\ r_hat \in Limb /\ carry \in Limb /\ Base \in Nat /\ Base >= 2
      /\ k \in 0..VCount
  BY <1>3, BaseType DEF TypeOK
<1>6. /\ TrueLimb \in Nat /\ n \in Nat \ {0} /\ i \in Nat \ {0} /\ c \in Nat \ {0}
      /\ n % c = n /\ n < c /\ v_count \in Nat /\ v_count \in 0..v_count
  <2>1. v_count \in Nat /\ v_count > 0
    BY <1>3, LongSizes
  <2>2. n \in Nat \ {0} /\ n < c
    BY <1>3, <2>1, ShiftFacts
  <2>3. c \in Nat \ {0}
    BY <2>1, LimbPowers
  <2>4. TrueLimb \in Nat /\ i \in Nat \ {0}
    BY <1>2, <1>3, TrueLimbFacts
  <2> HIDE DEF c, i, n
  <2>5. n % c = n
    BY <2>2, <2>3
  <2> QED
    BY <2>1, <2>2, <2>3, <2>4, <2>5
<1>7. /\ (TrueLimb * n) * i \in Nat /\ (TrueLimb * n) * i <= Left /\ r < i * n
  BY <1>2, <1>3, TrueLimbLeaves
<1>8. d_count' = d_count
  BY <1>1 DEF d_count, Length
<1> HIDE DEF c, i, n, g, y
<1>9. r \in 0..(g - 1)
  <2>1. i * n \in Nat /\ i * n <= g
    <3>1. c - n \in Nat /\ i * (c - n) \in Nat /\ i * (c - n) = i * c - i * n /\ i * n \in Nat
      BY <1>6
    <3> QED
      BY <1>4, <3>1 DEF g
  <2> QED
    BY <1>3, <1>4, <1>7, <2>1
<1>10. Whole = r + (Base - carry) * g
  <2>1. ((q_hat + 1) * n) * i = (TrueLimb * n) * i + n * i /\ n * i \in Nat
    <3>1. (TrueLimb + 1) * n = TrueLimb * n + n /\ TrueLimb * n \in Nat
      BY <1>6
    <3> QED
      BY <1>2, <1>6, <3>1
  <2>2. (n - carry * c) * i = n * i - carry * g /\ carry * g \in Int
    <3>1. carry * c \in Nat /\ (carry * c) * i = carry * g
      BY <1>2, <1>6 DEF g
    <3> QED
      BY <1>2, <1>4, <1>6, <3>1
  <2>3. (Base - carry) * g = Base * g - carry * g /\ Base * g \in Nat
    BY <1>2, <1>4, <1>5
  <2>4. Whole = Left - ((TrueLimb * n) * i + n * i) + Base * g + (n * i - carry * g)
    <3>1. Whole = Left - ((q_hat + 1) * n) * i + Base * g + (n - carry * c) * i
      BY <1>2, <1>4, <1>6
    <3> QED
      BY <2>1, <2>2, <3>1
  <2> DEFINE x == (TrueLimb * n) * i
             z == n * i
             s == carry * g
             b == Base * g
  <2>5. /\ x \in Nat /\ z \in Nat /\ s \in Int /\ b \in Nat /\ Left \in Nat
        /\ Whole = Left - (x + z) + b + (z - s) /\ (Base - carry) * g = b - s
    BY <1>3, <1>7, <2>1, <2>2, <2>3, <2>4
  <2> HIDE DEF x, z, s, b
  <2>6. Whole = (Left - x) + (b - s)
    BY <2>5
  <2> QED
    BY <2>5, <2>6 DEF x
<1> HIDE DEF r
<1>11. Top = Base - carry
  <2>1. PICK low \in 0..(g - 1) : Whole = low + Top * g
    BY <1>4
  <2>2. Base - carry \in Int /\ Top \in Int
    BY <1>2, <1>4, <1>5 DEF Limb
  <2>3. /\ Whole = g * Top + low /\ Whole = g * (Base - carry) + r /\ Whole \in Int
    <3>1. g * Top = Top * g /\ g * (Base - carry) = (Base - carry) * g
      BY <1>4, <2>2
    <3>2. g * Top \in Int /\ low \in Int /\ r \in Int /\ g * (Base - carry) \in Int
      BY <1>4, <1>9, <2>1, <2>2
    <3> QED
      BY <1>10, <2>1, <3>1, <3>2
  <2> DEFINE a == Base - carry
             b == Top
  <2> HIDE DEF a, b
  <2>4. /\ a \in Int /\ b \in Int /\ Whole \in Int /\ g \in Nat \ {0}
        /\ Whole = g * a + r /\ Whole = g * b + low
        /\ r \in 0..(g - 1) /\ low \in 0..(g - 1)
    BY <1>4, <1>9, <2>1, <2>2, <2>3 DEF a, b
  <2>5. Whole \div g = a /\ Whole \div g = b
    BY <2>4, DivisionUnique
  <2> QED
    BY <2>5 DEF a, b
<1>12. carry = 1 /\ Top = Base - 1
  BY <1>2, <1>4, <1>5, <1>11 DEF Limb
<1>13. y = 0 /\ 0 \in Limb
  <2>1. Top + carry = Base
    BY <1>5, <1>12
  <2> QED
    BY <1>5, <2>1 DEF y, Limb
<1>14. /\ u' \in [0..DCount -> Limb]
       /\ Whole' = Whole + (0 - Top) * g
       /\ Whole \in Nat /\ Whole' \in Nat
  BY <1>1, <1>2, <1>3, <1>6, <1>8, <1>13, WriteWindow DEF Top, g, c, i
<1>15. Whole' = r
  <2>1. (0 - Top) * g = - (Top * g) /\ Top * g \in Nat
    BY <1>4, <1>5 DEF Limb
  <2> QED
    BY <1>9, <1>10, <1>11, <1>14, <2>1
<1>16. Whole' = Left - (TrueLimb * Normal) * LimbPower(idx)
  BY <1>15 DEF r, n, i
<1>17. /\ k' <= v_count /\ k' \in 0..VCount
       /\ q_hat' \in Limb /\ r_hat' \in Limb /\ carry' \in Limb
  BY <1>1, <1>5, <1>6
<1> QED
  BY <1>1, <1>2, <1>14, <1>16, <1>17, FinishLimb

-----------------------------------------------------------------------------
(* The start, the loop for one limb, and the returns *)

\* A limb of a dividend of d_count limbs.
LEMMA DividendLimb ==
  ASSUME NEW n \in Nat, NEW i \in Nat
  PROVE  /\ LimbOf(n, i) \in Limb
         /\ n \div LimbPower(i) \in Nat
         /\ n \div LimbPower(i) = (n \div LimbPower(i + 1)) * Base + LimbOf(n, i)
<1> DEFINE p == LimbPower(i)
           a == n \div p
           q == a \div Base
           l == a % Base
           r == n % p
<1>1. /\ p \in Nat \ {0} /\ LimbPower(i + 1) = Base * p
      /\ Base \in Nat \ {0}
  BY LimbPowers, BaseType
<1>2. a \in Nat /\ r \in 0..(p - 1) /\ n = p * a + r
  <2> HIDE DEF p
  <2> QED
    BY <1>1, DivisionFacts
<1>3. q \in Nat /\ l \in 0..(Base - 1) /\ a = Base * q + l
  <2> HIDE DEF a
  <2> QED
    BY <1>1, <1>2, DivisionFacts
<1>4. n \div (Base * p) = q
  <2> HIDE DEF p, a, q, l, r
  <2>1. n = (Base * p) * q + (r + l * p)
    <3>1. p * a = p * (Base * q) + p * l /\ p * (Base * q) = (Base * p) * q /\ p * l = l * p
      BY <1>1, <1>2, <1>3
    <3>2. (Base * p) * q \in Nat /\ l * p \in Nat
      BY <1>1, <1>3
    <3> QED
      BY <1>2, <3>1, <3>2
  <2>2. r + l * p \in 0..(Base * p - 1) /\ Base * p \in Nat \ {0}
    <3>1. r + l * p \in Nat /\ r + l * p < Base * p
      BY <1>1, <1>2, <1>3, DigitBound
    <3> QED
      BY <1>1, <3>1
  <2> DEFINE d == Base * p
             e == r + l * p
  <2>3. n \in Int /\ d \in Nat \ {0} /\ q \in Int /\ e \in 0..(d - 1) /\ n = d * q + e
    BY <1>3, <2>1, <2>2
  <2> HIDE DEF d, e
  <2>4. n \div d = q
    BY <2>3, DivisionUnique
  <2> QED
    BY <2>4 DEF d
<1>5. Base * q = q * Base
  BY <1>1, <1>3
<1> QED
  BY <1>1, <1>2, <1>3, <1>4, <1>5 DEF LimbOf, Limb

\* A limb written below those of the quotient so far.
LEMMA LimbBelow ==
  ASSUME NEW n \in Nat, NEW m \in [0..n -> Limb], NEW i \in Nat, NEW h \in Nat,
         i + h <= n, NEW y \in Limb, 
         NEW p \in [0..n -> Limb], p[i] = y, \A x \in 0..n : x # i => p[x] = m[x]
  PROVE  /\ Value(p, i, 1 + h) = y + Value(m, i + 1, h) * Base
         /\ Value(m, i + 1, h) \in Nat
<1>1. /\ p \in [0..n -> Limb] /\ p[i] = y
      /\ \A x \in 0..n : x # i => p[x] = m[x]
  OBVIOUS
<1>2. \A x \in 0..((1 + h) - 1) : i + x \in 0..n
  OBVIOUS
<1>3. \A x \in 0..(h - 1) : /\ (i + 1) + x \in 0..n
                            /\ p[(i + 1) + x] = m[(i + 1) + x]
  BY <1>1
<1>4. Limbs(p, i, 1 + h) /\ Limbs(m, i + 1, h) /\ LimbsAt(m, i + 1, h)
  <2>1. Limbs(p, i, 1 + h) /\ Limbs(m, i + 1, h)
    BY <1>1, <1>2, <1>3 DEF Limbs
  <2>2. i + 1 \in Int
    OBVIOUS
  <2> QED
    BY <2>1, <2>2, LimbsAreIntegers
<1>5. Value(p, i, 1 + h) = Value(p, i, 1) + Value(p, i + 1, (1 + h) - 1) * LimbPower(1)
  BY <1>4, ValueParts
<1>6. Value(p, i, 1) = y
  <2>1. i \in Int /\ p[i] \in Int
    BY <1>1, BaseType DEF Limb
  <2>2. Value(p, i, 1) = p[i]
    BY <2>1, ValueOne
  <2> QED
    BY <1>1, <2>2
<1>7. Value(p, i + 1, h) = Value(m, i + 1, h)
  <2> DEFINE a == i + 1
  <2>1. /\ a \in Int /\ \A x \in 0..(h - 1) : p[a + x] = m[a + x]
        /\ LimbsAt(m, a, h)
    BY <1>3, <1>4
  <2> HIDE DEF a
  <2>2. Value(p, a, h) = Value(m, a, h)
    BY <2>1, ValueSame
  <2> QED
    BY <2>2 DEF a
<1>8. Value(m, i + 1, h) \in Nat
  BY <1>4, ValueType
<1>9. (1 + h) - 1 = h
  OBVIOUS
<1> QED
  BY <1>1, <1>5, <1>6, <1>7, <1>8, <1>9, LimbPowers

LEMMA StartShortStep ==
  ASSUME DivInv, StartShort
  PROVE  DivInv'
<1>1. /\ pc = "start" /\ pc' = "short" /\ v_count = 1 /\ d_count >= 1
      /\ j' = d_count /\ r_hat' = 0
      /\ UNCHANGED <<dividend, divisor, quotient, remainder, u, q_hat, k, carry>>
  BY DEF StartShort, Args, Goes
<1>2. /\ TypeOK /\ remainder = [x \in 0..(VCount - 1) |-> Stale]
      /\ quotient = [x \in 0..DCount |-> Stale]
  BY <1>1 DEF DivInv
<1>3. d_count' = d_count /\ v_count' = v_count
  BY <1>1 DEF d_count, v_count, Length
<1>4. /\ dividend \in Nat /\ divisor \in Nat /\ divisor > 0 /\ d_count \in 0..DCount
      /\ DCount \in Nat /\ d_count \in Nat /\ dividend < LimbPower(d_count)
  BY <1>1, <1>2, Sizes
<1>5. dividend \div LimbPower(d_count) = 0 /\ Value(quotient, d_count, 0) = 0
  <2> DEFINE p == LimbPower(d_count)
  <2>1. /\ p \in Nat \ {0} /\ dividend \in Int /\ 0 \in Int
        /\ dividend \in 0..(p - 1) /\ dividend = p * 0 + dividend
    BY <1>4, LimbPowers
  <2> HIDE DEF p
  <2>2. dividend \div p = 0
    BY <2>1, DivisionUnique
  <2> QED
    BY <1>4, <2>2, ValueZero DEF p
<1>6. ShortInv'
  <2>1. d_count - d_count = 0
    BY <1>4
  <2>2. /\ v_count' = 1 /\ d_count' >= 1 /\ j' <= d_count'
        /\ \A x \in d_count'..DCount : quotient'[x] = Stale
        /\ r_hat' < divisor'
    BY <1>1, <1>2, <1>3, <1>4
  <2>3. dividend' \div LimbPower(j') = Value(quotient', j', d_count' - j') * divisor' + r_hat'
    BY <1>1, <1>3, <1>4, <1>5, <2>1
  <2> QED
    BY <2>2, <2>3 DEF ShortInv
<1>7. TypeOK'
  <2>1. 0 \in Limb
    BY BaseType DEF Limb
  <2> QED
    BY <1>1, <1>2, <1>4, <2>1 DEF TypeOK
<1> QED
  BY <1>1, <1>2, <1>6, <1>7 DEF DivInv, InLong

LEMMA ShortStep ==
  ASSUME DivInv, Short
  PROVE  DivInv'
<1> DEFINE i == j - 1
           h == d_count - j
           s == TwoLimbs
           q == s \div divisor
           r == s % divisor
           b == Value(quotient, j, h)
           l == LimbOf(dividend, i)
<1>1. /\ pc = "short" /\ pc' = "short" /\ j > 0 /\ j' = i
      /\ quotient' = [quotient EXCEPT ![i] = q % Base] /\ r_hat' = r
      /\ UNCHANGED <<dividend, divisor, remainder, u, q_hat, k, carry>>
  BY DEF Short, Args
<1>2. /\ TypeOK /\ remainder = [x \in 0..(VCount - 1) |-> Stale] /\ ShortInv
  BY <1>1 DEF DivInv
<1>3. /\ dividend \in Nat /\ divisor \in Nat \ {0} /\ d_count \in 0..DCount /\ d_count \in Nat
      /\ DCount \in Nat /\ v_count = 1 /\ divisor < Base /\ Base \in Nat \ {0} /\ Base >= 2
  <2>1. v_count = 1
    BY <1>2 DEF ShortInv
  <2>2. LimbPower(v_count) = Base
    BY <2>1, LimbPowers
  <2>3. /\ dividend \in Nat /\ divisor \in Nat /\ divisor > 0 /\ d_count \in 0..DCount
        /\ DCount \in Nat /\ divisor < LimbPower(v_count)
    BY <1>2, <2>1, Sizes
  <2> QED
    BY <2>1, <2>2, <2>3, BaseType
<1>4. /\ j \in Nat /\ i \in Nat /\ i + 1 = j /\ h \in Nat /\ j <= d_count /\ j + h = d_count
      /\ quotient \in [0..DCount -> Limb] /\ r_hat \in Limb /\ r_hat \in Nat /\ r_hat < divisor
  <2>1. j \in 0..DCount /\ quotient \in [0..DCount -> Limb] /\ r_hat \in Limb
    BY <1>2, Zenon DEF TypeOK
  <2>2. j <= d_count /\ r_hat < divisor
    BY <1>2 DEF ShortInv
  <2>3. r_hat \in Nat
    BY <2>1, BaseType DEF Limb
  <2> QED
    BY <1>1, <1>3, <2>1, <2>2, <2>3
<1>5. d_count' = d_count /\ v_count' = v_count
  BY <1>1 DEF d_count, v_count, Length
<1>6. /\ l \in 0..(Base - 1)
      /\ dividend \div LimbPower(i) = (dividend \div LimbPower(j)) * Base + l
  BY <1>3, <1>4, DividendLimb DEF Limb
<1>7. s = l + r_hat * Base /\ s \in Nat /\ s < divisor * Base
  <2>1. s = r_hat * Base + l
    BY DEF TwoLimbs
  <2> HIDE DEF s, l
  <2>2. r_hat * Base \in Nat
    BY <1>3, <1>4
  <2>3. r_hat \in 0..(divisor - 1)
    BY <1>3, <1>4
  <2>4. l + r_hat * Base \in Nat /\ l + r_hat * Base < divisor * Base
    BY <1>3, <1>6, <2>3, DigitBound
  <2> QED
    BY <1>6, <2>1, <2>2, <2>4
<1> HIDE DEF s, l
<1>8. q \in Nat /\ r \in 0..(divisor - 1) /\ s = divisor * q + r
  <2> DEFINE d == divisor
  <2>1. d \in Nat \ {0} /\ s \in Int
    BY <1>3, <1>7
  <2> HIDE DEF d
  <2>2. s \div d \in Nat
    BY <1>7, <2>1, DivisionFacts
  <2>3. s % d \in 0..(d - 1) /\ s = d * (s \div d) + (s % d)
    BY <2>1, Division
  <2> QED
    BY <2>2, <2>3 DEF d
<1> HIDE DEF q, r
<1>9. q \in Limb /\ q % Base = q
  <2>1. q < Base
    <3>1. ASSUME q >= Base
          PROVE  FALSE
      <4>1. q - Base \in Nat /\ divisor * (q - Base) \in Nat
        BY <1>3, <1>8, <3>1
      <4>2. divisor * (q - Base) = divisor * q - divisor * Base
        BY <1>3, <1>8
      <4>3. divisor * q \in Nat /\ divisor * Base \in Nat
        BY <1>3, <1>8
      <4> QED
        BY <1>7, <1>8, <4>1, <4>2, <4>3
    <3> QED
      BY <1>3, <1>8, <3>1
  <2> QED
    BY <1>3, <1>8, <2>1 DEF Limb
<1>10. quotient' = [quotient EXCEPT ![i] = q]
  BY <1>1, <1>9
<1>11. /\ quotient' \in [0..DCount -> Limb]
       /\ Value(quotient', i, 1 + h) = q + Value(quotient, i + 1, h) * Base
       /\ Value(quotient, i + 1, h) \in Nat
  <2>1. i + h <= DCount /\ i \in 0..DCount
    BY <1>3, <1>4
  <2> HIDE DEF i, h
  <2>2. /\ quotient' \in [0..DCount -> Limb] /\ quotient'[i] = q
        /\ \A x \in 0..DCount : x # i => quotient'[x] = quotient[x]
    BY <1>4, <1>9, <1>10, <2>1
  <2> DEFINE p == quotient'
             m == quotient
  <2>3. /\ p \in [0..DCount -> Limb] /\ m \in [0..DCount -> Limb] /\ p[i] = q /\ q \in Limb
        /\ \A x \in 0..DCount : x # i => p[x] = m[x]
        /\ DCount \in Nat /\ i \in Nat /\ h \in Nat /\ i + h <= DCount
    BY <1>3, <1>4, <1>9, <2>1, <2>2
  <2> HIDE DEF p, m
  <2>4. Value(p, i, 1 + h) = q + Value(m, i + 1, h) * Base /\ Value(m, i + 1, h) \in Nat
    BY <2>3, LimbBelow
  <2> QED
    BY <2>2, <2>4 DEF p, m
<1>12. /\ b \in Nat /\ Value(quotient', j', d_count' - j') = q + b * Base
  <2>1. d_count' - j' = 1 + h
    BY <1>1, <1>3, <1>4, <1>5
  <2> QED
    BY <1>1, <1>4, <1>11, <2>1
<1>13. dividend \div LimbPower(j) = b * divisor + r_hat
  BY <1>2 DEF ShortInv
<1> HIDE DEF b
<1>14. dividend \div LimbPower(i) = (q + b * Base) * divisor + r
  <2>1. (b * divisor + r_hat) * Base + l = (b * divisor) * Base + (r_hat * Base + l)
    BY <1>3, <1>4, <1>6, <1>12
  <2>2. (q + b * Base) * divisor = q * divisor + (b * Base) * divisor
    BY <1>3, <1>8, <1>12
  <2>3. (b * Base) * divisor = (b * divisor) * Base /\ q * divisor = divisor * q
    BY <1>3, <1>8, <1>12
  <2>4. (b * divisor) * Base \in Nat /\ divisor * q \in Nat /\ r_hat * Base \in Nat
    BY <1>3, <1>4, <1>8, <1>12
  <2> QED
    BY <1>6, <1>7, <1>8, <1>13, <2>1, <2>2, <2>3, <2>4
<1>15. ShortInv'
  <2>1. \A x \in d_count..DCount : quotient'[x] = Stale
    <3>1. \A x \in d_count..DCount : quotient[x] = Stale
      BY <1>2 DEF ShortInv
    <3> QED
      BY <1>3, <1>4, <1>10, <3>1
  <2>2. j' <= d_count /\ r_hat' < divisor
    BY <1>1, <1>3, <1>4, <1>8
  <2>3. v_count' = 1 /\ d_count' >= 1
    BY <1>2, <1>5 DEF ShortInv
  <2>4. dividend' \div LimbPower(j') = Value(quotient', j', d_count' - j') * divisor' + r_hat'
    BY <1>1, <1>12, <1>14
  <2> QED
    BY <1>1, <1>5, <2>1, <2>2, <2>3, <2>4 DEF ShortInv
<1>16. TypeOK'
  <2>1. r_hat' \in Limb /\ j' \in 0..DCount
    BY <1>1, <1>3, <1>4, <1>8 DEF Limb
  <2> QED
    BY <1>1, <1>2, <1>11, <2>1 DEF TypeOK
<1> QED
  BY <1>1, <1>2, <1>15, <1>16 DEF DivInv, InLong

LEMMA NormalizeStep ==
  ASSUME DivInv, Normalize
  PROVE  DivInv'
<1> DEFINE n == d_count - v_count + 1
           e == 2^Shift
           w == dividend * e
<1>1. /\ pc = "start" /\ pc' = "estimate" /\ Long /\ j' = n
      /\ u' = Stored(u, 0, d_count + 1, w)
      /\ UNCHANGED <<dividend, divisor, quotient, remainder, q_hat, r_hat, k, carry>>
  BY DEF Normalize, Args, Goes
<1>2. /\ TypeOK /\ remainder = [x \in 0..(VCount - 1) |-> Stale]
      /\ quotient = [x \in 0..DCount |-> Stale] /\ k = 0
  BY <1>1 DEF DivInv
<1>3. /\ dividend \in Nat /\ divisor \in Nat \ {0} /\ v_count \in Nat /\ v_count >= 2
      /\ v_count <= d_count /\ d_count \in 0..DCount /\ d_count \in Nat /\ DCount \in Nat
      /\ dividend < LimbPower(d_count) /\ divisor >= LimbPower(v_count - 1)
      /\ u \in [0..DCount -> Limb]
  <2>1. v_count \in Nat /\ v_count >= 2 /\ v_count <= d_count /\ d_count \in 0..DCount /\ DCount \in Nat
    BY <1>1, <1>2, LongSizes
  <2>2. u \in [0..DCount -> Limb]
    BY <1>2, Zenon DEF TypeOK
  <2> QED
    BY <1>2, <2>1, <2>2, Sizes
<1>4. /\ d_count' = d_count /\ v_count' = v_count /\ Shift' = Shift /\ Normal' = Normal
      /\ (Long)' = Long
  BY <1>1 DEF d_count, v_count, Shift, Normal, Length, Long
<1>5. e \in Nat \ {0} /\ e < Base /\ Normal = divisor * e /\ Normal \in Nat \ {0}
  <2>1. Shift \in 0..(W - 1) /\ e \in Nat \ {0} /\ Normal \in Nat \ {0}
    BY <1>2, <1>3, ShiftFacts
  <2>2. Shift \in Nat /\ W \in Nat /\ Shift < W
    BY <2>1, WAssumption
  <2> QED
    BY <2>1, <2>2, PowerMonotone DEF Base, Normal
<1>6. n \in Nat /\ v_count - 1 \in Nat /\ n + (v_count - 1) = d_count /\ n <= DCount /\ d_count + 1 \in Nat
  BY <1>3
<1>7. w \in Nat /\ w < LimbPower(d_count + 1)
  <2> DEFINE p == LimbPower(d_count)
  <2>1. p \in Nat \ {0} /\ LimbPower(d_count + 1) = Base * p /\ Base \in Nat
    BY <1>3, LimbPowers, BaseType
  <2>2. w \in Nat
    BY <1>3, <1>5
  <2>3. w < Base * p
    <3> HIDE DEF p, e
    <3>1. p - dividend \in Nat /\ (p - dividend) * e \in Nat /\ (p - dividend) * e = p * e - dividend * e
      BY <1>3, <1>5, <2>1 DEF p
    <3>2. Base - e \in Nat \ {0} /\ p * (Base - e) \in Nat \ {0} /\ p * (Base - e) = p * Base - p * e
      BY <1>5, <2>1
    <3>3. p * e \in Nat /\ p * Base = Base * p /\ p * Base \in Nat
      BY <1>5, <2>1
    <3> QED
      BY <2>2, <3>1, <3>2, <3>3
  <2> QED
    BY <2>1, <2>2, <2>3
<1> HIDE DEF w, e
<1>8. u' \in [0..DCount -> Limb]
  BY <1>1, <1>3, <1>6, <1>7, StoredLimbs
<1>9. Whole' = w
  <2> DEFINE l == d_count + 1
  <2>1. l \in Nat /\ 0..(0 + l - 1) \subseteq DOMAIN u /\ w \in Int
    BY <1>3, <1>7
  <2> HIDE DEF l
  <2>2. Value(Stored(u, 0, l, w), 0, l) = w % LimbPower(l)
    BY <2>1, StoredValue
  <2>3. w % LimbPower(d_count + 1) = w
    <3>1. LimbPower(d_count + 1) \in Nat \ {0}
      BY <1>6, LimbPowers
    <3> QED
      BY <1>7, <3>1
  <2> QED
    BY <1>1, <1>4, <2>2, <2>3 DEF Whole, l
<1>10. Left' = w
  <2>1. d_count' - v_count' + 1 - j' = 0
    BY <1>1, <1>3, <1>4
  <2>2. Quot' = 0
    <3>1. j' \in Int
      BY <1>1, <1>6
    <3> QED
      BY <2>1, <3>1, ValueZero DEF Quot
  <2>3. (0 * LimbPower(n)) * Normal = 0
    BY <1>5, <1>6, LimbPowers
  <2>4. Left' = w - (0 * LimbPower(n)) * Normal
    BY <1>1, <1>4, <2>2 DEF Left, w, e
  <2> QED
    BY <1>7, <2>3, <2>4
<1>11. w < LimbPower(n) * Normal
  <2> DEFINE a == LimbPower(n)
             b == LimbPower(v_count - 1)
  <2>1. a \in Nat \ {0} /\ b \in Nat \ {0} /\ a * b = LimbPower(d_count)
    <3>1. LimbPower(n + (v_count - 1)) = a * b
      BY <1>6, LimbPowerAdd
    <3> QED
      BY <1>6, <3>1, LimbPowers
  <2> HIDE DEF a, b
  <2>2. a * divisor >= a * b
    <3>1. divisor - b \in Nat /\ a * (divisor - b) \in Nat
      BY <1>3, <2>1 DEF b
    <3>2. a * (divisor - b) = a * divisor - a * b /\ a * divisor \in Nat /\ a * b \in Nat
      BY <1>3, <2>1
    <3> QED
      BY <3>1, <3>2
  <2>3. a * divisor > dividend /\ a * divisor \in Nat
    BY <1>3, <2>1, <2>2
  <2>4. (a * divisor) * e > dividend * e
    <3> DEFINE x == a * divisor
    <3>1. x \in Nat /\ x - dividend \in Nat \ {0}
      BY <1>3, <2>3
    <3> HIDE DEF x
    <3>2. (x - dividend) * e \in Nat \ {0} /\ (x - dividend) * e = x * e - dividend * e
      BY <1>3, <1>5, <3>1
    <3>3. x * e \in Nat /\ dividend * e \in Nat
      BY <1>3, <1>5, <3>1
    <3> QED
      BY <3>2, <3>3 DEF x
  <2>5. (a * divisor) * e = a * (divisor * e)
    BY <1>3, <1>5, <2>1
  <2> QED
    BY <1>5, <2>4, <2>5 DEF a, w
<1>12. TypeOK'
  <2>1. j' \in 0..DCount
    BY <1>1, <1>6
  <2> QED
    BY <1>1, <1>2, <1>8, <2>1 DEF TypeOK
<1>13. LongInv'
  <2>1. \A x \in n..DCount : quotient[x] = Stale
    BY <1>2, <1>6
  <2>2. /\ Left' >= 0 /\ Left' < LimbPower(j') * Normal' /\ Left' = Whole'
    BY <1>1, <1>4, <1>7, <1>9, <1>10, <1>11
  <2>3. j' <= n /\ k' <= v_count
    BY <1>1, <1>2, <1>3, <1>6
  <2> QED
    BY <1>1, <1>4, <2>1, <2>2, <2>3 DEF LongInv
<1> QED
  BY <1>1, <1>2, <1>12, <1>13 DEF DivInv

LEMMA ReturnStep ==
  ASSUME DivInv, ZeroDivisor \/ Smaller \/ EndShort \/ NoMemory \/ EndLong
  PROVE  DivInv'
<1>1. /\ TypeOK /\ pc' = "returned" /\ UNCHANGED <<dividend, divisor, u, j, q_hat, r_hat, k, carry>>
  BY DEF DivInv, ZeroDivisor, Smaller, EndShort, NoMemory, EndLong, Args, Work, Goes
<1>2. /\ quotient \in [0..DCount -> Limb] /\ remainder \in [0..(VCount - 1) -> Limb]
      /\ u \in [0..DCount -> Limb] /\ r_hat \in Limb
  BY <1>1, Zenon DEF TypeOK
<1>3. /\ dividend \in Nat /\ divisor \in Nat /\ DCount \in Nat /\ VCount - 1 \in Nat
      /\ v_count \in Nat /\ d_count \in 0..DCount /\ 0 \in Limb
  BY <1>1, Sizes, BaseType DEF Limb
<1>4. CASE ZeroDivisor \/ NoMemory
  <2>1. quotient' = quotient /\ remainder' = remainder
    BY <1>4 DEF ZeroDivisor, NoMemory
  <2>2. TypeOK'
    BY <1>1, <2>1 DEF TypeOK
  <2> QED
    BY <1>1, <2>2 DEF DivInv, InLong
<1>5. CASE Smaller
  <2>1. quotient' \in [0..DCount -> Limb]
    BY <1>2, <1>3, <1>5 DEF Smaller
  <2>2. remainder' \in [0..(VCount - 1) -> Limb]
    <3> DEFINE n == VCount - 1
    <3>1. remainder' = Stored(remainder, 0, v_count, dividend)
      BY <1>5 DEF Smaller
    <3>2. /\ dividend \in Int /\ n \in Nat /\ remainder \in [0..n -> Limb] /\ v_count \in Nat
      BY <1>2, <1>3
    <3> HIDE DEF n
    <3>3. Stored(remainder, 0, v_count, dividend) \in [0..n -> Limb]
      BY <3>2, StoredLimbs
    <3> QED
      BY <3>1, <3>3 DEF n
  <2>3. TypeOK'
    BY <1>1, <2>1, <2>2 DEF TypeOK
  <2> QED
    BY <1>1, <2>3 DEF DivInv, InLong
<1>6. CASE EndShort
  <2>1. quotient' = quotient /\ remainder' \in [0..(VCount - 1) -> Limb]
    BY <1>2, <1>6 DEF EndShort
  <2>2. TypeOK'
    BY <1>1, <2>1 DEF TypeOK
  <2> QED
    BY <1>1, <2>2 DEF DivInv, InLong
<1>7. CASE EndLong
  <2>1. pc = "estimate" /\ quotient' = quotient
        /\ remainder' = Stored(remainder, 0, v_count, Value(u, 0, v_count) \div 2^Shift)
    BY <1>7 DEF EndLong
  <2>2. Long
    BY <2>1 DEF DivInv, InLong, LongInv
  <2>3. v_count \in Nat /\ v_count > 0 /\ v_count \in 0..(d_count + 1)
        /\ Limbs(u, 0, d_count + 1) /\ d_count + 1 \in Nat
    BY <1>1, <1>3, <2>2, LongSizes
  <2>4. Value(u, 0, v_count) \in Nat
    BY <2>3, LimbsBeyond, ValueType
  <2>5. 2^Shift \in Nat \ {0}
    BY <1>1, <2>3, ShiftFacts
  <2> DEFINE x == Value(u, 0, v_count)
             e == 2^Shift
  <2> HIDE DEF x, e
  <2>6. x \div e \in Int
    BY <2>4, <2>5, Division DEF x, e
  <2>7. remainder' \in [0..(VCount - 1) -> Limb]
    <3> DEFINE y == x \div e
               n == VCount - 1
    <3>1. remainder' = Stored(remainder, 0, v_count, y)
      BY <2>1 DEF x, e
    <3>2. y \in Int /\ n \in Nat /\ remainder \in [0..n -> Limb] /\ v_count \in Nat
      BY <1>2, <1>3, <2>6
    <3> HIDE DEF y, n
    <3>3. Stored(remainder, 0, v_count, y) \in [0..n -> Limb]
      BY <3>2, StoredLimbs
    <3> QED
      BY <3>1, <3>3 DEF n
  <2>8. TypeOK'
    BY <1>1, <2>1, <2>7 DEF TypeOK
  <2> QED
    BY <1>1, <2>8 DEF DivInv, InLong
<1> QED
  BY <1>4, <1>5, <1>6, <1>7

-----------------------------------------------------------------------------
(* The invariant holds *)

LEMMA DivInvInit == Init => DivInv
<1> SUFFICES ASSUME Init
             PROVE  DivInv
  OBVIOUS
<1>1. 0 \in Limb /\ Stale \in Limb /\ 0 \in 0..DCount /\ 0 \in 0..VCount
  BY DivAssumption, BaseType DEF Limb
<1>2. TypeOK
  BY <1>1 DEF Init, TypeOK
<1> QED
  BY <1>2 DEF DivInv, Init, InLong

LEMMA DivInvStutter ==
  ASSUME DivInv, UNCHANGED vars
  PROVE  DivInv'
<1>1. /\ dividend' = dividend /\ divisor' = divisor /\ quotient' = quotient
      /\ remainder' = remainder /\ u' = u /\ j' = j /\ q_hat' = q_hat /\ r_hat' = r_hat
      /\ k' = k /\ carry' = carry /\ pc' = pc
  BY DEF vars
<1>2. /\ d_count' = d_count /\ v_count' = v_count /\ Shift' = Shift /\ Normal' = Normal
      /\ (Long)' = Long /\ idx' = idx /\ (\A i : V(i)' = V(i))
  BY <1>1 DEF d_count, v_count, Shift, Normal, Long, Length, idx, V
<1>3. Quot' = Quot /\ Whole' = Whole /\ Top' = Top /\ Mid' = Mid
  BY <1>1, <1>2 DEF Quot, Whole, Top, Mid
<1>4. Left' = Left
  BY <1>1, <1>2, <1>3 DEF Left
<1>5. TrueLimb' = TrueLimb
  BY <1>2, <1>4 DEF TrueLimb
<1>6. TypeOK' = TypeOK /\ ShortInv' = ShortInv /\ InLong' = InLong
  BY <1>1, <1>2 DEF TypeOK, ShortInv, InLong
<1>7. LongInv' = LongInv
  BY <1>1, <1>2, <1>3, <1>4, <1>5 DEF LongInv
<1> QED
  BY <1>1, <1>6, <1>7 DEF DivInv

LEMMA DivInvNext == DivInv /\ [Next]_vars => DivInv'
<1> SUFFICES ASSUME DivInv, [Next]_vars
             PROVE  DivInv'
  OBVIOUS
<1>1. CASE UNCHANGED vars
  BY <1>1, DivInvStutter
<1>2. CASE ZeroDivisor \/ Smaller \/ EndShort \/ NoMemory \/ EndLong
  BY <1>2, ReturnStep
<1>3. CASE StartShort
  BY <1>3, StartShortStep
<1>4. CASE Short
  BY <1>4, ShortStep
<1>5. CASE Normalize
  BY <1>5, NormalizeStep
<1>6. CASE Estimate
  BY <1>6, EstimateStep
<1>7. CASE Correct
  BY <1>7, CorrectStep
<1>8. CASE Subtract
  BY <1>8, SubtractStep
<1>9. CASE SubtractTop
  BY <1>9, SubtractTopStep
<1>10. CASE AddBack
  BY <1>10, AddBackStep
<1>11. CASE AddBackTop
  BY <1>11, AddBackTopStep
<1> QED
  BY <1>1, <1>2, <1>3, <1>4, <1>5, <1>6, <1>7, <1>8, <1>9, <1>10, <1>11 DEF Next

THEOREM DivInvariant == Spec => []DivInv
BY DivInvInit, DivInvNext, PTL DEF Spec

\* The limbs, places and counters of the division stay in their ranges.
THEOREM DivTyped == Spec => []TypeOK
<1>1. DivInv => TypeOK
  BY Zenon DEF DivInv
<1> QED
  BY <1>1, DivInvariant, PTL

\* The corrected estimate of every limb of the quotient is right or one too
\* large, for every width of limb, every dividend and every divisor.
THEOREM EstimatesAreClose == Spec => []EstimateIsClose
<1>1. DivInv => EstimateIsClose
  <2> SUFFICES ASSUME DivInv, pc = "subtract", k = 0
               PROVE  LET true == Value(u, idx, v_count + 1) \div Normal
                      IN  q_hat \in {true, true + 1}
    BY DEF EstimateIsClose
  <2>1. /\ j > 0 /\ q_hat \in {TrueLimb, TrueLimb + 1} /\ InLong /\ carry = 0
        /\ Whole + (q_hat * (Normal % LimbPower(k)) - carry * LimbPower(k)) * LimbPower(idx) = Left
    BY DEF DivInv, LongInv, InLong
  <2>2. /\ TypeOK /\ Long /\ j <= d_count - v_count + 1 /\ Left \in Nat
        /\ Left < LimbPower(j) * Normal
        /\ \A x \in (j + v_count)..d_count : u[x] = 0
    BY <2>1, LongFacts
  <2>3. /\ Whole \div LimbPower(idx) = Value(u, idx, v_count + 1) /\ Whole \in Nat
    BY <2>1, <2>2, WholeParts
  <2>4. LimbPower(idx) \in Nat /\ Normal \in Nat \ {0} /\ TrueLimb \in Nat
    BY <2>1, <2>2, TrueLimbFacts
  <2>5. Whole = Left
    <3> DEFINE i == LimbPower(idx)
               n == Normal
    <3>1. LimbPower(k) = 1 /\ n % 1 = 0
      BY <2>4, LimbPowers
    <3>2. q_hat \in Nat
      BY <2>1, <2>4
    <3> HIDE DEF n, i
    <3>3. (q_hat * (n % LimbPower(k)) - carry * LimbPower(k)) * i = 0
      BY <2>1, <2>4, <3>1, <3>2 DEF i
    <3> QED
      BY <2>1, <2>2, <2>3, <3>3 DEF n, i
  <2> QED
    BY <2>1, <2>3, <2>5 DEF TrueLimb
<1> QED
  BY <1>1, DivInvariant, PTL

\* Between two limbs the quotient so far and what is left make up the
\* dividend, and what is left is less than the divisor at that place.
THEOREM DividendIsKept == Spec => []NothingIsLost
<1>1. DivInv => NothingIsLost
  <2> SUFFICES ASSUME DivInv
               PROVE  NothingIsLost
    OBVIOUS
  <2>1. ASSUME pc = "estimate"
        PROVE  /\ dividend * 2^Shift =
                    Value(quotient, j, d_count - v_count + 1 - j) * LimbPower(j) * Normal
                    + Value(u, 0, d_count + 1)
               /\ Value(u, 0, d_count + 1) < LimbPower(j) * Normal
    <3>1. TypeOK /\ LongInv /\ Left = Whole /\ Left < LimbPower(j) * Normal /\ Long
      BY <2>1 DEF DivInv, InLong, LongInv
    <3>2. /\ v_count \in Nat /\ v_count >= 2 /\ v_count <= d_count /\ d_count \in Nat
          /\ j \in Nat /\ Limbs(u, 0, d_count + 1) /\ d_count + 1 \in Nat
      BY <3>1, LongSizes
    <3>3. dividend \in Nat /\ 2^Shift \in Nat /\ Normal \in Nat
      BY <3>1, <3>2, Sizes, ShiftFacts
    <3>4. Whole \in Nat
      BY <3>2, ValueType DEF Whole
    <3>5. Quot \in Nat
      <4> DEFINE h == d_count - v_count + 1 - j
      <4>1. h \in Nat /\ j + h <= DCount + 1
        <5>1. j <= d_count - v_count + 1
          BY <3>1 DEF LongInv
        <5>2. d_count \in 0..DCount /\ DCount \in Nat
          BY <3>1, LongSizes
        <5> QED
          BY <3>2, <5>1, <5>2
      <4>2. \A x \in 0..(h - 1) : j + x \in 0..DCount
        <5>1. j + h <= d_count /\ d_count \in 0..DCount /\ DCount \in Nat
          <6>1. d_count \in 0..DCount /\ DCount \in Nat
            BY <3>1, LongSizes
          <6> QED
            BY <3>2, <6>1
        <5> HIDE DEF h
        <5> QED
          BY <3>2, <4>1, <5>1
      <4>3. quotient \in [0..DCount -> Limb]
        BY <3>1, Zenon DEF TypeOK
      <4>4. Limbs(quotient, j, h)
        BY <4>2, <4>3 DEF Limbs
      <4> HIDE DEF h
      <4>5. Value(quotient, j, h) \in Nat
        BY <3>2, <4>1, <4>4, ValueType
      <4> QED
        BY <4>5 DEF Quot, h
    <3>6. LimbPower(j) \in Nat
      BY <3>2, LimbPowers
    <3>7. dividend * 2^Shift = (Quot * LimbPower(j)) * Normal + Whole
      <4> DEFINE a == dividend * 2^Shift
                 b == (Quot * LimbPower(j)) * Normal
      <4>1. a \in Nat /\ b \in Nat
        <5>1. Quot * LimbPower(j) \in Nat
          BY <3>5, <3>6
        <5> QED
          BY <3>3, <5>1
      <4>2. Left = a - b
        BY DEF Left
      <4> HIDE DEF a, b
      <4>3. a = b + Whole
        BY <3>1, <3>4, <4>1, <4>2
      <4> QED
        BY <4>3 DEF a, b
    <3> QED
      BY <3>1, <3>7 DEF Quot, Whole
  <2>2. ASSUME pc = "short"
        PROVE  /\ dividend \div LimbPower(j) = Value(quotient, j, d_count - j) * divisor + r_hat
               /\ r_hat < divisor
    BY <2>2 DEF DivInv, ShortInv
  <2> QED
    BY <2>1, <2>2 DEF NothingIsLost
<1> QED
  BY <1>1, DivInvariant, PTL

-----------------------------------------------------------------------------
(* The contract *)

\* The contract's operators are those of the division.
LEMMA ContractOperators ==
  /\ \A n : Contract!LimbPower(n) = LimbPower(n)
  /\ Contract!Base = Base /\ Contract!Limb = Limb
  /\ \A n : Contract!Length(n) = Length(n)
  /\ \A m, a, n, v : Contract!Stored(m, a, n, v) = Stored(m, a, n, v)
<1>1. /\ \A n : Contract!LimbPower(n) = LimbPower(n)
      /\ Contract!Base = Base
  BY DEF Contract!LimbPower, LimbPower, Contract!Base, Base
<1>2. Contract!Limb = Limb
  BY <1>1 DEF Contract!Limb, Limb
<1>3. ASSUME NEW n
      PROVE  Contract!Length(n) = Length(n)
  BY Zenon DEF Contract!Length, Length, Contract!LimbPower, LimbPower
<1>4. ASSUME NEW m, NEW a, NEW n, NEW v
      PROVE  Contract!Stored(m, a, n, v) = Stored(m, a, n, v)
  BY Zenon DEF Contract!Stored, Stored, Contract!LimbPower, LimbPower, Contract!Base, Base
<1> QED
  BY <1>1, <1>2, <1>3, <1>4

\* The buffers as they are at the call, and after a division.
Untouched == /\ quotient = Filled(DCount, Stale)
             /\ remainder = Filled(VCount - 1, Stale)

Divided ==
  /\ divisor # 0
  /\ quotient' = Stored(Filled(DCount, Stale), 0,
                        IF d_count < v_count THEN 1 ELSE d_count - v_count + 1,
                        dividend \div divisor)
  /\ remainder' = Stored(Filled(VCount - 1, Stale), 0, v_count, dividend % divisor)

LEMMA SmallerDivides ==
  ASSUME DivInv, Smaller
  PROVE  Divided
<1>1. /\ pc = "start" /\ v_count > 0 /\ d_count < v_count
      /\ quotient' = [quotient EXCEPT ![0] = 0]
      /\ remainder' = Stored(remainder, 0, v_count, dividend)
  BY DEF Smaller
<1>2. TypeOK /\ Untouched
  BY <1>1 DEF DivInv, Untouched, Filled
<1>3. /\ dividend \in Nat /\ divisor \in Nat \ {0} /\ d_count \in Nat /\ v_count \in Nat
      /\ dividend < LimbPower(d_count) /\ divisor >= LimbPower(v_count - 1)
      /\ DCount \in Nat /\ Stale \in Limb /\ 0 \in Limb
  BY <1>1, <1>2, Sizes, DivAssumption, BaseType DEF Limb
<1>4. dividend < divisor
  <2>1. v_count - 1 \in Nat /\ LimbPower(d_count) \in Nat /\ LimbPower(v_count - 1) \in Nat
    BY <1>1, <1>3, LimbPowers
  <2>2. LimbPower(d_count) <= LimbPower(v_count - 1)
    <3>1. CASE d_count = v_count - 1
      BY <2>1, <3>1
    <3>2. CASE d_count # v_count - 1
      <4>1. d_count < v_count - 1
        BY <1>1, <1>3, <3>2
      <4>2. LimbPower(d_count) < LimbPower(v_count - 1)
        BY <1>3, <2>1, <4>1, LimbPowerMonotone
      <4> QED
        BY <2>1, <4>2
    <3> QED
      BY <3>1, <3>2
  <2> QED
    BY <1>3, <2>1, <2>2
<1>5. dividend \div divisor = 0 /\ dividend % divisor = dividend
  <2> DEFINE a == dividend
             p == divisor
  <2>1. a \in Int /\ p \in Nat \ {0} /\ 0 \in Int /\ a \in 0..(p - 1) /\ a = p * 0 + a
    BY <1>3, <1>4
  <2> HIDE DEF a, p
  <2>2. a \div p = 0 /\ a % p = a
    BY <2>1, DivisionUnique
  <2> QED
    BY <2>2 DEF a, p
<1>6. /\ quotient' \in [0..DCount -> Limb] /\ quotient'[0] = 0
      /\ \A x \in 1..DCount : quotient'[x] = Stale
  BY <1>1, <1>2, <1>3 DEF Untouched, Filled
<1>7. Value(quotient', 0, 1) = 0
  <2>1. 0 \in Int /\ quotient'[0] \in Int
    BY <1>6
  <2> QED
    BY <1>6, <2>1, ValueOne
<1>8. quotient' = Stored(Filled(DCount, Stale), 0, 1, Value(quotient', 0, 1))
  <2> DEFINE p == quotient'
  <2>1. /\ p \in [0..DCount -> Limb] /\ 1 \in 0..(DCount + 1) /\ \A x \in 1..DCount : p[x] = Stale
    BY <1>3, <1>6
  <2> HIDE DEF p
  <2>2. p = Stored(Filled(DCount, Stale), 0, 1, Value(p, 0, 1))
    BY <1>3, <2>1, FilledIsStored
  <2> QED
    BY <2>2 DEF p
<1> QED
  BY <1>1, <1>2, <1>3, <1>5, <1>7, <1>8 DEF Divided, Untouched

\* The quotient of the loops.
LEMMA QuotientStored ==
  ASSUME TypeOK, v_count > 0, v_count <= d_count,
         NEW q, q = Value(quotient, 0, d_count - v_count + 1),
         \A x \in (d_count - v_count + 1)..DCount : quotient[x] = Stale
  PROVE  quotient = Stored(Filled(DCount, Stale), 0, d_count - v_count + 1, q)
<1> DEFINE p == quotient
           l == d_count - v_count + 1
<1>1. /\ p \in [0..DCount -> Limb] /\ DCount \in Nat /\ Stale \in Limb
      /\ l \in 0..(DCount + 1)
  <2>1. p \in [0..DCount -> Limb]
    BY Zenon DEF TypeOK
  <2>2. d_count \in 0..DCount /\ v_count \in 0..VCount /\ DCount \in Nat /\ VCount \in Nat
    BY Sizes
  <2> QED
    BY <2>1, <2>2, DivAssumption
<1>2. (\A x \in l..DCount : p[x] = Stale) /\ q = Value(p, 0, l)
  OBVIOUS
<1> HIDE DEF p, l
<1>3. p = Stored(Filled(DCount, Stale), 0, l, Value(p, 0, l))
  BY <1>1, <1>2, FilledIsStored
<1> QED
  BY <1>2, <1>3 DEF p, l

LEMMA EndShortDivides ==
  ASSUME DivInv, EndShort
  PROVE  Divided
<1> DEFINE q == Value(quotient, 0, d_count)
<1>1. /\ pc = "short" /\ j = 0 /\ quotient' = quotient
      /\ remainder' = [remainder EXCEPT ![0] = r_hat]
  BY DEF EndShort
<1>2. TypeOK /\ ShortInv /\ remainder = Filled(VCount - 1, Stale)
  BY <1>1 DEF DivInv, Filled
<1>3. /\ v_count = 1 /\ d_count >= 1
      /\ \A x \in d_count..DCount : quotient[x] = Stale
      /\ dividend \div LimbPower(0) = Value(quotient, 0, d_count - 0) * divisor + r_hat
      /\ r_hat < divisor
  BY <1>1, <1>2 DEF ShortInv
<1>4. /\ dividend \in Nat /\ divisor \in Nat \ {0} /\ d_count \in 0..DCount /\ d_count \in Nat
      /\ DCount \in Nat /\ VCount - 1 \in Nat /\ Stale \in Limb
  BY <1>2, <1>3, Sizes, DivAssumption
<1>5. r_hat \in Limb /\ r_hat \in Nat
  <2>1. r_hat \in Limb
    BY <1>2, Zenon DEF TypeOK
  <2> QED
    BY <2>1, BaseType DEF Limb
<1>6. q \in Nat
  <2>1. quotient \in [0..DCount -> Limb]
    BY <1>2, Zenon DEF TypeOK
  <2>2. \A x \in 0..(d_count - 1) : 0 + x \in 0..DCount
    BY <1>4
  <2>3. Limbs(quotient, 0, d_count)
    BY <2>1, <2>2 DEF Limbs
  <2> QED
    BY <1>4, <2>3, ValueType
<1>7. dividend = q * divisor + r_hat
  <2>1. dividend \div 1 = dividend /\ d_count - 0 = d_count
    BY <1>4
  <2> QED
    BY <1>3, <2>1, LimbPowers
<1> HIDE DEF q
<1>8. dividend \div divisor = q /\ dividend % divisor = r_hat
  <2> DEFINE a == dividend
             p == divisor
  <2>1. /\ a \in Int /\ p \in Nat \ {0} /\ q \in Int /\ r_hat \in 0..(p - 1)
        /\ a = p * q + r_hat
    BY <1>3, <1>4, <1>5, <1>6, <1>7
  <2> HIDE DEF a, p
  <2>2. a \div p = q /\ a % p = r_hat
    BY <2>1, DivisionUnique
  <2> QED
    BY <2>2 DEF a, p
<1>9. quotient' = Stored(Filled(DCount, Stale), 0, d_count - v_count + 1, dividend \div divisor)
  <2>1. d_count - v_count + 1 = d_count /\ v_count > 0 /\ v_count <= d_count
    BY <1>3, <1>4
  <2>2. q = Value(quotient, 0, d_count - v_count + 1)
    BY <2>1 DEF q
  <2>3. \A x \in (d_count - v_count + 1)..DCount : quotient[x] = Stale
    BY <1>3, <2>1
  <2> QED
    BY <1>1, <1>2, <1>8, <2>1, <2>2, <2>3, QuotientStored
<1>10. remainder' = Stored(Filled(VCount - 1, Stale), 0, v_count, r_hat)
  <2> DEFINE n == VCount - 1
             p == remainder'
  <2>1. /\ p \in [0..n -> Limb] /\ p[0] = r_hat /\ \A x \in 1..n : p[x] = Stale
    BY <1>1, <1>2, <1>4, <1>5 DEF Filled
  <2>2. n \in Nat /\ 1 \in 0..(n + 1) /\ 0 \in Int /\ p[0] \in Int
    BY <1>4, <1>5, <2>1
  <2> HIDE DEF n, p
  <2>3. Value(p, 0, 1) = r_hat
    BY <2>1, <2>2, ValueOne
  <2>4. p = Stored(Filled(n, Stale), 0, 1, Value(p, 0, 1))
    BY <1>4, <2>1, <2>2, FilledIsStored
  <2> QED
    BY <1>3, <2>3, <2>4 DEF n, p
<1> QED
  BY <1>3, <1>4, <1>8, <1>9, <1>10 DEF Divided

LEMMA EndLongDivides ==
  ASSUME DivInv, EndLong
  PROVE  Divided
<1> DEFINE n == d_count - v_count + 1
           q == Value(quotient, 0, n)
           e == 2^Shift
           r == Value(u, 0, v_count) \div e
<1>1. /\ pc = "estimate" /\ j = 0 /\ quotient' = quotient
      /\ remainder' = Stored(remainder, 0, v_count, r)
  BY DEF EndLong
<1>2. /\ TypeOK /\ LongInv /\ Long /\ Left = Whole /\ Left < LimbPower(0) * Normal
      /\ \A x \in n..DCount : quotient[x] = Stale
      /\ remainder = Filled(VCount - 1, Stale)
  BY <1>1 DEF DivInv, InLong, LongInv, Filled
<1>3. /\ v_count \in Nat /\ v_count >= 2 /\ v_count <= d_count /\ d_count \in 0..DCount
      /\ DCount \in Nat /\ Limbs(u, 0, d_count + 1) /\ d_count \in Nat
  BY <1>2, LongSizes
<1>4. /\ dividend \in Nat /\ divisor \in Nat \ {0} /\ e \in Nat \ {0} /\ Normal = divisor * e
      /\ Normal \in Nat \ {0} /\ Normal < LimbPower(v_count)
  BY <1>2, <1>3, Sizes, ShiftFacts DEF Normal
<1>5. n \in Nat /\ n <= DCount /\ v_count > 0
  BY <1>3
<1>6. q \in Nat
  <2>1. quotient \in [0..DCount -> Limb]
    BY <1>2, Zenon DEF TypeOK
  <2>2. \A x \in 0..(n - 1) : 0 + x \in 0..DCount
    BY <1>3
  <2>3. Limbs(quotient, 0, n)
    BY <2>1, <2>2 DEF Limbs
  <2> HIDE DEF n
  <2> QED
    BY <1>5, <2>3, ValueType
<1>7. Whole \in Nat /\ Value(u, 0, v_count) = Whole
  <2> DEFINE l == d_count + 1
  <2>1. l \in Nat /\ v_count \in 0..l /\ Limbs(u, 0, l) /\ 0 \in Int
    BY <1>3
  <2>2. Whole = Value(u, 0, l)
    BY DEF Whole
  <2>3. Whole < LimbPower(v_count)
    <3>1. LimbPower(0) * Normal = Normal
      BY <1>4, LimbPowers
    <3>2. LimbPower(v_count) \in Nat
      BY <1>3, LimbPowers
    <3>3. Whole \in Nat
      BY <2>1, <2>2, ValueType
    <3> QED
      BY <1>2, <1>4, <3>1, <3>2, <3>3
  <2> HIDE DEF l
  <2>4. Value(u, 0, l) = Value(u, 0, v_count)
    BY <2>1, <2>2, <2>3, ValueSmall
  <2> QED
    BY <2>1, <2>2, <2>4, ValueType
<1>8. dividend * e = (q * divisor) * e + Whole /\ Whole < divisor * e
  <2>1. Quot = q
    <3>1. d_count - v_count + 1 - j = n
      BY <1>1, <1>3
    <3> QED
      BY <1>1, <3>1 DEF Quot
  <2>2. Left = dividend * e - (q * 1) * Normal
    BY <1>1, <2>1, LimbPowers DEF Left
  <2>3. (q * 1) * Normal = (q * divisor) * e
    BY <1>4, <1>6
  <2>4. dividend * e \in Nat /\ (q * divisor) * e \in Nat
    BY <1>4, <1>6
  <2>5. LimbPower(0) * Normal = Normal
    BY <1>4, LimbPowers
  <2> HIDE DEF q, e
  <2> QED
    BY <1>2, <1>4, <1>7, <2>2, <2>3, <2>4, <2>5
<1>9. r = Whole \div e
  BY <1>7
<1> HIDE DEF q, e, r, n
<1>10. dividend = divisor * q + r /\ r \in 0..(divisor - 1)
  <2> DEFINE x == dividend - q * divisor
  <2>1. q * divisor \in Nat /\ x \in Int /\ x * e = Whole
    <3>1. q * divisor \in Nat
      BY <1>4, <1>6
    <3>2. x * e = dividend * e - (q * divisor) * e
      BY <1>4, <3>1
    <3>3. dividend * e \in Nat /\ (q * divisor) * e \in Nat
      BY <1>4, <3>1
    <3> QED
      BY <1>4, <1>7, <1>8, <3>1, <3>2, <3>3
  <2> HIDE DEF x
  <2>2. Whole \div e = x
    <3>1. Whole = e * x + 0 /\ 0 \in 0..(e - 1) /\ Whole \in Int
      BY <1>4, <1>7, <2>1
    <3> QED
      BY <1>4, <2>1, <3>1, DivisionUnique
  <2>3. x >= 0
    <3> SUFFICES ASSUME x < 0
                 PROVE  FALSE
      BY <2>1
    <3>1. -x \in Nat \ {0} /\ (-x) * e \in Nat \ {0} /\ (-x) * e = -(x * e)
      BY <1>4, <2>1
    <3> QED
      BY <1>7, <2>1, <3>1
  <2>4. x < divisor
    <3> SUFFICES ASSUME x >= divisor
                 PROVE  FALSE
      BY <1>4, <2>1
    <3>1. x - divisor \in Nat /\ (x - divisor) * e \in Nat /\ (x - divisor) * e = x * e - divisor * e
      BY <1>4, <2>1
    <3>2. divisor * e \in Nat
      BY <1>4
    <3> QED
      BY <1>7, <1>8, <2>1, <3>1, <3>2
  <2>5. r = x
    BY <1>9, <2>2
  <2>6. q * divisor = divisor * q
    BY <1>4, <1>6
  <2>7. dividend = q * divisor + x
    BY <1>4, <2>1 DEF x
  <2> QED
    BY <1>4, <2>1, <2>3, <2>4, <2>5, <2>6, <2>7
<1>11. dividend \div divisor = q /\ dividend % divisor = r
  <2> DEFINE a == dividend
             p == divisor
  <2>1. a \in Int /\ p \in Nat \ {0} /\ q \in Int /\ r \in 0..(p - 1) /\ a = p * q + r
    BY <1>4, <1>6, <1>10
  <2> HIDE DEF a, p
  <2>2. a \div p = q /\ a % p = r
    BY <2>1, DivisionUnique
  <2> QED
    BY <2>2 DEF a, p
<1>12. quotient = Stored(Filled(DCount, Stale), 0, d_count - v_count + 1, q)
  BY <1>2, <1>3, <1>5, QuotientStored DEF q, n
<1>13. ~(d_count < v_count)
  BY <1>3
<1> QED
  BY <1>1, <1>2, <1>4, <1>11, <1>12, <1>13 DEF Divided

LEMMA ContractInit == Init => Contract!Init
<1> SUFFICES ASSUME Init
             PROVE  Contract!Init
  OBVIOUS
<1>1. /\ ~Returned /\ Stale \in Limb
      /\ dividend \in 0..(LimbPower(DCount) - 1) /\ divisor \in 0..(LimbPower(VCount) - 1)
  BY DivAssumption DEF Init, Returned
<1> QED
  BY <1>1, ContractOperators DEF Contract!Init

\* A step that returns divides, or does nothing.
LEMMA ContractReturn ==
  ASSUME ~Returned, Returned', UNCHANGED <<dividend, divisor>>,
         Divided \/ (Untouched' /\ (divisor = 0 \/ (Long /\ (d_count + 1 > StackU \/ v_count > StackV))))
  PROVE  Contract!Next
<1>1. CASE Divided
  <2>1. Contract!Divide
    BY <1>1, ContractOperators DEF Contract!Divide, Contract!WrittenLimbs, Divided, Filled, d_count, v_count
  <2> QED
    BY <2>1 DEF Contract!Next
<1>2. CASE Untouched' /\ (divisor = 0 \/ (Long /\ (d_count + 1 > StackU \/ v_count > StackV)))
  <2>1. divisor = 0 \/ Contract!MayStarve(dividend, divisor)
    BY <1>2, ContractOperators DEF Contract!MayStarve, Long, d_count, v_count
  <2>2. quotient' = Filled(DCount, Stale) /\ remainder' = Filled(VCount - 1, Stale)
    BY <1>2 DEF Untouched, Filled
  <2>3. Contract!DoNothing
    BY <2>1, <2>2 DEF Contract!DoNothing, Filled
  <2> QED
    BY <2>3 DEF Contract!Next
<1> QED
  BY <1>1, <1>2

LEMMA ContractNext == DivInv /\ [Next]_vars => [Contract!Next]_(Contract!vars)
<1> SUFFICES ASSUME DivInv, [Next]_vars
             PROVE  Contract!Next \/ UNCHANGED Contract!vars
  OBVIOUS
<1>1. CASE UNCHANGED vars
  BY <1>1 DEF vars, Contract!vars, Returned
<1>2. CASE StartShort \/ Short \/ Normalize \/ Estimate \/ Correct
           \/ Subtract \/ SubtractTop \/ AddBack \/ AddBackTop
  <2>1. UNCHANGED <<dividend, divisor>> /\ pc # "returned"
    BY <1>2 DEF StartShort, Short, Normalize, Estimate, Correct, Subtract, SubtractTop, AddBack,
                AddBackTop, Args
  <2>2. pc' # "returned"
    BY <1>2 DEF StartShort, Short, Normalize, Estimate, Correct, Subtract, SubtractTop, AddBack,
                AddBackTop, NextLimb, Goes
  <2> QED
    BY <2>1, <2>2 DEF Contract!vars, Returned
<1>3. ASSUME ZeroDivisor \/ Smaller \/ EndShort \/ NoMemory \/ EndLong
      PROVE  ~Returned /\ Returned' /\ UNCHANGED <<dividend, divisor>>
  BY <1>3 DEF ZeroDivisor, Smaller, EndShort, NoMemory, EndLong, Returned, Args, Goes
<1>4. CASE ZeroDivisor \/ NoMemory
  <2>1. /\ pc = "start" /\ quotient' = quotient /\ remainder' = remainder
        /\ v_count = 0 \/ (Long /\ (d_count + 1 > StackU \/ v_count > StackV))
    BY <1>4 DEF ZeroDivisor, NoMemory
  <2>2. TypeOK /\ Untouched
    BY <2>1 DEF DivInv, Untouched, Filled
  <2>3. Untouched'
    BY <2>1, <2>2 DEF Untouched, Filled
  <2>4. v_count = 0 => divisor = 0
    BY <2>2, Sizes
  <2> QED
    BY <1>3, <1>4, <2>1, <2>3, <2>4, ContractReturn
<1>5. CASE Smaller
  BY <1>3, <1>5, SmallerDivides, ContractReturn
<1>6. CASE EndShort
  BY <1>3, <1>6, EndShortDivides, ContractReturn
<1>7. CASE EndLong
  BY <1>3, <1>7, EndLongDivides, ContractReturn
<1> QED
  BY <1>1, <1>2, <1>4, <1>5, <1>6, <1>7 DEF Next

\* The division writes floor and remainder, exactly the limbs its callers
\* expect, or nothing when the divisor is zero or memory is short: for every
\* width of limb, every length and every pair of numbers.
THEOREM DivisionImplementsContract == Spec => ImplementsContract
BY DivInvariant, ContractInit, ContractNext, PTL DEF Spec, ImplementsContract, Contract!Steps
=============================================================================

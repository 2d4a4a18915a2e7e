---------------------------- MODULE FieldProofs ----------------------------
(***************************************************************************)
(* The rotation laws of spec 8 for get_rotation_idx (evaluation.rs:37-39), *)
(* for every domain size, rotation and rotation scale; and the defining     *)
(* equation of FPow (pow_vartime), which TLAPS does not get for free from  *)
(* a recursive function definition.                                        *)
(***************************************************************************)
EXTENDS Field, WellFoundedInduction, TLAPS

\* % by a positive modulus, shifted by a multiple of k, over plain integers.
LEMMA ModShift ==
  ASSUME NEW a \in Int, NEW k \in Int, NEW n \in Nat \ {0}
  PROVE  /\ (a % n) \in 0..(n - 1)
         /\ ((a % n) + k) % n = (a + k) % n
<1>1. (a % n) \in 0..(n - 1)
  OBVIOUS
<1>2. PICK q \in Int : a = q * n + (a % n)
  <2>1. a = (a \div n) * n + (a % n) /\ a \div n \in Int
    OBVIOUS
  <2> QED
    BY <2>1
<1>3. ASSUME NEW m \in Int, NEW j \in Int
      PROVE  (m + j * n) % n = m % n
  <2>1. m \div n \in Int /\ (m % n) \in 0..(n - 1) /\ m = (m \div n) * n + (m % n)
    OBVIOUS
  <2>2. (m \div n) + j \in Int /\ m + j * n \in Int
        /\ m + j * n = ((m \div n) + j) * n + (m % n)
    BY <2>1
  <2>3. ASSUME NEW x \in Int, NEW c \in Int, NEW e \in 0..(n - 1), x = c * n + e
        PROVE  x % n = e
    <3>1. PICK u \in Int : (x % n) \in 0..(n - 1) /\ x = u * n + (x % n)
      <4>1. (x % n) \in 0..(n - 1) /\ x = (x \div n) * n + (x % n) /\ x \div n \in Int
        OBVIOUS
      <4> QED
        BY <4>1
    <3>2. (c - u) \in Int /\ (c - u) * n = (x % n) - e
      BY <3>1, <2>3
    <3>3. ASSUME NEW dd \in Int, dd * n \in -(n - 1)..(n - 1)
          PROVE  dd = 0
      <4>1. ASSUME NEW v \in Nat PROVE v * n \in Nat
        OBVIOUS
      <4>2. CASE dd >= 1
        <5>1. dd - 1 \in Nat /\ dd * n = (dd - 1) * n + n
          BY <4>2
        <5> QED
          BY <5>1, <4>1, <3>3, <4>2
      <4>3. CASE dd <= -1
        <5>1. -dd - 1 \in Nat /\ dd * n = -((-dd - 1) * n) - n
          BY <4>3
        <5> QED
          BY <5>1, <4>1, <3>3, <4>3
      <4> QED
        BY <4>2, <4>3
    <3>4. c - u = 0
      BY <3>1, <3>2, <3>3
    <3> QED
      BY <3>2, <3>4
  <2> QED
    BY <2>1, <2>2, <2>3, Zenon
<1>4. (a % n) + k = (a + k) + (-q) * n
  BY <1>2
<1>5. ((a % n) + k) % n = ((a + k) + (-q) * n) % n
  BY <1>4
<1>6. ((a + k) + (-q) * n) % n = (a + k) % n
  <2>1. a + k \in Int /\ -q \in Int
    OBVIOUS
  <2> QED
    BY <2>1, <1>3, Zenon
<1> QED
  BY <1>1, <1>5, <1>6

(***************************************************************************)
(* get_rotation_idx always lands in the domain, even for the negative      *)
(* rotations of r_prev and r_last (rem_euclid, not the sign-keeping %      *)
(* of Rust); rotation 0 is the identity on the domain; and rotating by r   *)
(* then by -r returns to the starting row.  Every rotated read of the      *)
(* quotient passes and of the row evaluator depends on these.              *)
(***************************************************************************)
THEOREM RotationLaws ==
  ASSUME NEW n \in Nat \ {0}, NEW s \in Int, NEW r \in Int, NEW idx \in 0..(n - 1)
  PROVE  /\ \A i \in Int : GetRotationIdx(i, r, s, n) \in 0..(n - 1)
         /\ GetRotationIdx(idx, 0, s, n) = idx
         /\ GetRotationIdx(GetRotationIdx(idx, r, s, n), -r, s, n) = idx
<1> DEFINE k == r * s
<1>1. k \in Int /\ (-r) * s = -k
  OBVIOUS
<1>2. \A i \in Int : GetRotationIdx(i, r, s, n) \in 0..(n - 1)
  BY <1>1, ModShift DEF GetRotationIdx
<1>3. GetRotationIdx(idx, 0, s, n) = idx
  BY DEF GetRotationIdx
<1>4. GetRotationIdx(GetRotationIdx(idx, r, s, n), -r, s, n) = ((idx + k) + -k) % n
  <2>1. GetRotationIdx(GetRotationIdx(idx, r, s, n), -r, s, n) = (((idx + k) % n) + -k) % n
    BY <1>1 DEF GetRotationIdx
  <2>2. idx + k \in Int /\ -k \in Int
    BY <1>1
  <2>3. (((idx + k) % n) + -k) % n = ((idx + k) + -k) % n
    BY <2>2, ModShift, Zenon
  <2> QED
    BY <2>1, <2>3
<1>5. ((idx + k) + -k) % n = idx
  BY <1>1
<1> QED
  BY <1>2, <1>3, <1>4, <1>5

-----------------------------------------------------------------------------
(***************************************************************************)
(* FPow.  A recursive function definition denotes CHOOSE f : f = [...], so *)
(* its equation holds only once some function satisfying it is shown to   *)
(* exist.  The witness is built from the finite power tables g[0..n], and  *)
(* the inductions are done by hand from the least element of a non-empty  *)
(* set of naturals (WFMin), since the induction theorems of the library    *)
(* take an operator parameter.                                             *)
(***************************************************************************)
\* g tabulates a^0 .. a^n in F.
PowTable(a, n, g) ==
  /\ g \in [0..n -> F]
  /\ g[0] = 1
  /\ \A i \in 1..n : g[i] = FMul(a, g[i - 1])

\* Every non-empty set of naturals has a least element.
LEMMA LeastNat ==
  ASSUME NEW T \in SUBSET Nat, T # {}
  PROVE  \E m \in T : \A y \in T : ~(y < m)
<1>1. \E m \in T : \A y \in T : ~(<<y, m>> \in OpToRel(<, Nat))
  BY NatLessThanWellFounded, WFMin, Zenon
<1> QED
  BY <1>1 DEF OpToRel

LEMMA FMulType ==
  ASSUME NEW a \in F, NEW b \in F
  PROVE  FMul(a, b) \in F
BY PAssumption DEF FMul, F

LEMMA PowTableExists ==
  ASSUME NEW a \in F, NEW n \in Nat
  PROVE  \E g : PowTable(a, n, g)
<1> DEFINE Bad == {m \in Nat : ~\E g : PowTable(a, m, g)}
<1> SUFFICES ASSUME Bad # {} PROVE FALSE
  OBVIOUS
<1>1. PICK m \in Bad : \A y \in Bad : ~(y < m)
  BY LeastNat
<1>2. CASE m = 0
  <2>1. PowTable(a, 0, [i \in 0..0 |-> 1])
    BY PAssumption DEF PowTable, F
  <2> QED
    BY <1>1, <1>2, <2>1
<1>3. CASE m # 0
  <2>1. m - 1 \in Nat /\ m - 1 \notin Bad
    BY <1>1, <1>3
  <2>2. PICK g : PowTable(a, m - 1, g)
    BY <2>1
  <2> DEFINE h == [i \in 0..m |-> IF i < m THEN g[i] ELSE FMul(a, g[m - 1])]
  <2>3. FMul(a, g[m - 1]) \in F
    BY <1>3, <2>2, FMulType DEF PowTable
  <2>4. PowTable(a, m, h)
    BY <1>3, <2>2, <2>3 DEF PowTable
  <2> QED
    BY <1>1, <2>4
<1> QED
  BY <1>2, <1>3

LEMMA PowTableUnique ==
  ASSUME NEW a \in F, NEW n \in Nat, NEW g, NEW h,
         PowTable(a, n, g), PowTable(a, n, h)
  PROVE  g = h
<1> DEFINE Bad == {i \in 0..n : g[i] # h[i]}
<1>0. (\A i \in 0..n : g[i] = h[i]) => g = h
  BY DEF PowTable
<1>1. SUFFICES ASSUME Bad # {} PROVE FALSE
  BY <1>0
<1>1a. Bad \subseteq Nat
  OBVIOUS
<1>2. PICK i \in Bad : \A y \in Bad : ~(y < i)
  BY <1>1, <1>1a, LeastNat
<1>3. CASE i = 0
  BY <1>2, <1>3 DEF PowTable
<1>4. CASE i # 0
  <2>1. i - 1 \in 0..n /\ i - 1 \notin Bad
    BY <1>2, <1>4
  <2> QED
    BY <1>2, <1>4, <2>1 DEF PowTable
<1> QED
  BY <1>3, <1>4

LEMMA PowTablePrefix ==
  ASSUME NEW a \in F, NEW n \in Nat \ {0}, NEW g, PowTable(a, n, g)
  PROVE  PowTable(a, n - 1, [i \in 0..(n - 1) |-> g[i]])
BY DEF PowTable

\* The table's last entry, as a function of n.
PowLast(a, n) == (CHOOSE g : PowTable(a, n, g))[n]
PowW(a) == [n \in Nat |-> PowLast(a, n)]

LEMMA PowWFixpoint ==
  ASSUME NEW a \in F
  PROVE  PowW(a) = [k \in Nat |-> IF k = 0 THEN 1 ELSE FMul(a, PowW(a)[k - 1])]
<1> SUFFICES ASSUME NEW n \in Nat
             PROVE  PowW(a)[n] = IF n = 0 THEN 1 ELSE FMul(a, PowW(a)[n - 1])
  BY DEF PowW
<1> DEFINE g == CHOOSE g : PowTable(a, n, g)
<1>1. PowTable(a, n, g)
  BY PowTableExists
<1>2. PowW(a)[n] = g[n]
  BY DEF PowW, PowLast
<1>3. CASE n = 0
  BY <1>1, <1>2, <1>3 DEF PowTable
<1>4. CASE n # 0
  <2> DEFINE g1 == CHOOSE g1 : PowTable(a, n - 1, g1)
  <2>1. PowTable(a, n - 1, g1)
    BY <1>4, PowTableExists
  <2>2. PowTable(a, n - 1, [i \in 0..(n - 1) |-> g[i]])
    BY <1>1, <1>4, PowTablePrefix
  <2>3. g1 = [i \in 0..(n - 1) |-> g[i]]
    BY <1>4, <2>1, <2>2, PowTableUnique
  <2>4. PowW(a)[n - 1] = g1[n - 1]
    BY <1>4 DEF PowW, PowLast
  <2>5. n - 1 \in 0..(n - 1) /\ n \in 1..n
    BY <1>4
  <2>6. g1[n - 1] = g[n - 1]
    BY <2>3, <2>5
  <2>7. g[n] = FMul(a, g[n - 1])
    BY <1>1, <2>5 DEF PowTable
  <2> QED
    BY <1>2, <1>4, <2>4, <2>6, <2>7
<1> QED
  BY <1>3, <1>4

\* The recursive function inside FPow, with a as a parameter.
PowFcn(a) == CHOOSE pw : pw = [k \in Nat |-> IF k = 0 THEN 1 ELSE FMul(a, pw[k - 1])]

LEMMA PowFcnFixpoint ==
  ASSUME NEW a \in F
  PROVE  PowFcn(a) = [k \in Nat |-> IF k = 0 THEN 1 ELSE FMul(a, PowFcn(a)[k - 1])]
<1>1. \E pw : pw = [k \in Nat |-> IF k = 0 THEN 1 ELSE FMul(a, pw[k - 1])]
  BY PowWFixpoint
<1> QED
  BY <1>1 DEF PowFcn

\* pow_vartime's defining equation: a^0 = 1 and a^n = a * a^(n-1); and a^n
\* is a field element.
LEMMA FPowDef ==
  ASSUME NEW a \in F, NEW n \in Nat
  PROVE  FPow(a, n) = IF n = 0 THEN 1 ELSE FMul(a, FPow(a, n - 1))
<1>1. \A k \in Nat : FPow(a, k) = PowFcn(a)[k]
  BY DEF FPow, PowFcn
<1> QED
  BY <1>1, PowFcnFixpoint

LEMMA FPowType ==
  ASSUME NEW a \in F, NEW n \in Nat
  PROVE  FPow(a, n) \in F
<1> DEFINE Bad == {k \in Nat : FPow(a, k) \notin F}
<1> SUFFICES ASSUME Bad # {} PROVE FALSE
  OBVIOUS
<1>1. PICK m \in Bad : \A y \in Bad : ~(y < m)
  BY LeastNat
<1>2. CASE m = 0
  BY <1>1, <1>2, FPowDef, PAssumption DEF F
<1>3. CASE m # 0
  <2>1. m - 1 \in Nat /\ FPow(a, m - 1) \in F
    BY <1>1, <1>3
  <2>2. FPow(a, m) = FMul(a, FPow(a, m - 1))
    BY <1>1, <1>3, FPowDef
  <2> QED
    BY <1>1, <2>1, <2>2, FMulType
<1> QED
  BY <1>2, <1>3

=============================================================================

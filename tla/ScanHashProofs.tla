--------------------------- MODULE ScanHashProofs --------------------------
(***************************************************************************)
(* Proofs about ScanHash, for any number of threads, of nonces and of      *)
(* words, and any target:                                                  *)
(*                                                                         *)
(*   FulltestCorrect  the word by word comparison is that of two numbers,  *)
(*   SolutionIsSound  what a scan leaves for submission is sound,          *)
(*   MissedAtTopOnly  what it passes over ties with the target on top,     *)
(*   NonceHashedOnce  no nonce of a unit of work is hashed twice.          *)
(*                                                                         *)
(* fulltest and Value are recursive functions; the first section gets what *)
(* they compute from the least number principle.                           *)
(***************************************************************************)
EXTENDS ScanHash, Integers, Recursion, TLAPS

-----------------------------------------------------------------------------
(* The index of the most significant word. *)
Top == Words - 1

(* Value is computed from the most significant word on. *)
LEMMA ValueUnfolds ==
  ASSUME NEW h \in Numbers
  PROVE  \E v \in [0 .. Top -> Nat] :
           /\ Value(h) = v[Top]
           /\ \A i \in 0 .. Top : v[i] = h[Top - i] + (IF i = 0 THEN 0 ELSE Base * v[i - 1])
<1>0. Top \in Nat /\ Base \in Nat /\ \A i \in 0 .. Top : Top - i \in 0 .. Top /\ h[i] \in Nat
  <2>1. Words \in Nat /\ Words > 0 /\ Base \in Nat
    BY ScanAssumption
  <2>2. h \in [0 .. Top -> 0 .. Base - 1]
    BY DEF Numbers, Top
  <2>3. \A i \in 0 .. Top : h[i] \in Nat
    BY <2>1, <2>2
  <2>4. Top \in Nat
    BY <2>1 DEF Top
  <2> QED
    BY <2>1, <2>3, <2>4
<1> DEFINE step == [p \in (1 .. Top) \X Nat |-> h[Top - p[1]] + Base * p[2]]
           Unfolds(v) == v = [i \in 0 .. Top |->
                                h[Top - i] + (IF i = 0 THEN 0 ELSE Base * v[i - 1])]
           val == CHOOSE v : Unfolds(v)
<1>1. step \in [(1 .. Top) \X Nat -> Nat]
  <2> SUFFICES ASSUME NEW p \in (1 .. Top) \X Nat PROVE h[Top - p[1]] + Base * p[2] \in Nat
    OBVIOUS
  <2>1. h[Top - p[1]] \in Nat
    BY <1>0
  <2>2. Base * p[2] \in Nat
    BY <1>0
  <2> QED
    BY <2>1, <2>2
<1>2. h[Top] \in Nat
  BY <1>0
<1>3. PICK g \in [0 .. Top -> Nat] : Recursive(g, h[Top], step, Top)
  <2> HIDE DEF step
  <2> QED
    BY <1>0, <1>1, <1>2, Recursion
<1>4. \A i \in 0 .. Top : g[i] = h[Top - i] + (IF i = 0 THEN 0 ELSE Base * g[i - 1])
  <2> TAKE i \in 0 .. Top
  <2>1. CASE i = 0
    BY <1>0, <1>3, <2>1 DEF Recursive
  <2>2. CASE i # 0
    <3>1. i \in 1 .. Top /\ g[i - 1] \in Nat
      BY <1>0, <1>3, <2>2
    <3>2. step[<<i, g[i - 1]>>] = h[Top - i] + Base * g[i - 1]
      BY <3>1
    <3> QED
      BY <1>3, <2>2, <3>1, <3>2 DEF Recursive
  <2> QED
    BY <2>1, <2>2
<1>5. Unfolds(g)
  BY <1>3, <1>4
<1>6. Unfolds(val)
  BY <1>5
<1>7. Value(h) = val[Top]
  BY DEF Value, Top
<1> HIDE DEF val
<1>8. \A i \in 0 .. Top : val[i] = h[Top - i] + (IF i = 0 THEN 0 ELSE Base * val[i - 1])
  BY <1>6
<1> DEFINE S == {i \in 0 .. Top : val[i] \in Nat}
<1>9. 0 .. Top \subseteq S
  <2>1. 0 \in S
    BY <1>0, <1>8
  <2>2. ASSUME NEW k \in 0 .. Top, k \in S, k < Top PROVE k + 1 \in S
    <3>1. k + 1 \in 0 .. Top /\ k + 1 # 0 /\ (k + 1) - 1 = k
      BY <1>0, <2>2
    <3>2. val[k + 1] = h[Top - (k + 1)] + Base * val[k]
      BY <1>8, <3>1
    <3>3. Base * val[k] \in Nat
      BY <1>0, <2>2
    <3> QED
      BY <1>0, <3>1, <3>2, <3>3
  <2> HIDE DEF S
  <2> QED
    BY <1>0, <2>1, <2>2, SetInduction
<1>10. val \in [0 .. Top -> Nat]
  BY <1>6, <1>9
<1> QED
  BY <1>7, <1>8, <1>10

(* fulltest decides at the first word, from the most significant one, that *)
(* differs from the target's.                                              *)
LEMMA FulltestUnfolds ==
  ASSUME NEW h \in Numbers
  PROVE  \E b \in [0 .. Top -> BOOLEAN] :
           /\ fulltest(h) = b[Top]
           /\ \A i \in 0 .. Top :
                /\ h[i] > Target[i] => ~ b[i]
                /\ h[i] < Target[i] => b[i]
                /\ h[i] = Target[i] => (b[i] <=> i = 0 \/ b[i - 1])
<1>0. Top \in Nat
  BY ScanAssumption DEF Top
<1> DEFINE Test(i, rest) == IF h[i] > Target[i] THEN FALSE
                            ELSE IF h[i] < Target[i] THEN TRUE ELSE i = 0 \/ rest
           step == [p \in (1 .. Top) \X BOOLEAN |-> Test(p[1], p[2])]
           Unfolds(b) == b = [i \in 0 .. Top |-> Test(i, b[i - 1])]
           below == CHOOSE b : Unfolds(b)
<1>1. \A i \in 0 .. Top, r \in BOOLEAN : Test(i, r) \in BOOLEAN
  OBVIOUS
<1>2. \A r : Test(0, r) = Test(0, TRUE)
  OBVIOUS
<1>6. Unfolds(below)
  <2>1. step \in [(1 .. Top) \X BOOLEAN -> BOOLEAN]
    BY Zenon
  <2>2. PICK g \in [0 .. Top -> BOOLEAN] : Recursive(g, Test(0, TRUE), step, Top)
    <3>1. Test(0, TRUE) \in BOOLEAN
      OBVIOUS
    <3> HIDE DEF step, Test
    <3> QED
      BY <1>0, <2>1, <3>1, Recursion
  <2>3. \A i \in 0 .. Top : g[i] = Test(i, g[i - 1])
    <3> TAKE i \in 0 .. Top
    <3>1. CASE i = 0
      <4> HIDE DEF Test
      <4> QED
        BY <1>2, <2>2, <3>1 DEF Recursive
    <3>2. CASE i # 0
      <4>1. i \in 1 .. Top /\ i - 1 \in 0 .. Top
        BY <1>0, <3>2
      <4>2. step[<<i, g[i - 1]>>] = Test(i, g[i - 1])
        <5>1. <<i, g[i - 1]>> \in (1 .. Top) \X BOOLEAN
          BY <2>2, <4>1
        <5> HIDE DEF Test
        <5> QED
          BY <5>1
      <4> HIDE DEF Test, step
      <4> QED
        BY <2>2, <4>1, <4>2 DEF Recursive
    <3> QED
      BY <3>1, <3>2
  <2>4. Unfolds(g)
    <3> HIDE DEF Test
    <3> QED
      BY <2>2, <2>3
  <2> HIDE DEF Test
  <2> QED
    BY <2>4
<1>7. fulltest(h) = below[Top]
  BY Zenon DEF fulltest, Top
<1> HIDE DEF below
<1>8. \A i \in 0 .. Top : below[i] = Test(i, below[i - 1])
  <2> HIDE DEF Test
  <2> QED
    BY <1>6
<1>9. below \in [0 .. Top -> BOOLEAN]
  <2>1. \A i, r : Test(i, r) \in BOOLEAN
    BY Zenon
  <2> HIDE DEF Test
  <2> QED
    BY <1>6, <2>1
<1>10. ASSUME NEW i \in 0 .. Top
       PROVE  /\ h[i] > Target[i] => ~ below[i]
              /\ h[i] < Target[i] => below[i]
              /\ h[i] = Target[i] => (below[i] <=> i = 0 \/ below[i - 1])
  <2>1. h[i] \in Int /\ Target[i] \in Int
    BY ScanAssumption DEF Numbers, Top
  <2>2. /\ h[i] < Target[i] => ~ (h[i] > Target[i])
        /\ h[i] = Target[i] => ~ (h[i] > Target[i]) /\ ~ (h[i] < Target[i])
    BY <2>1
  <2>3. below[i] = Test(i, below[i - 1])
    BY <1>8
  <2> QED
    BY <2>2, <2>3, Zenon
<1> QED
  BY <1>7, <1>9, <1>10

(* Multiplication is monotone. *)
LEMMA TimesMonotone ==
  ASSUME NEW c \in Nat, NEW a \in Nat, NEW b \in Nat, a <= b
  PROVE  c * a \in Nat /\ c * b \in Nat /\ c * a <= c * b
<1>1. PICK d \in Nat : b = a + d
  <2>1. b - a \in Nat /\ b = a + (b - a)
    OBVIOUS
  <2> QED
    BY <2>1
<1>2. c * (a + d) = c * a + c * d
  OBVIOUS
<1>3. c * a \in Nat /\ c * d \in Nat
  OBVIOUS
<1> QED
  BY <1>1, <1>2, <1>3

(* One more word behind two numbers does not change their order. *)
LEMMA NextWord ==
  ASSUME NEW B \in Nat, NEW x \in 0 .. B - 1, NEW y \in 0 .. B - 1,
         NEW a \in Nat, NEW b \in Nat, a < b
  PROVE  x + B * a < y + B * b
<1>1. B * (a + 1) <= B * b
  BY TimesMonotone
<1>2. B * (a + 1) = B * a + B
  OBVIOUS
<1>3. B * a \in Nat /\ B * b \in Nat
  OBVIOUS
<1> QED
  BY <1>1, <1>2, <1>3

(* fulltest compares two numbers, for words of any base and any number of  *)
(* them.                                                                   *)
THEOREM FulltestCorrect ==
  \A h \in Numbers : fulltest(h) <=> Value(h) <= Value(Target)
<1> SUFFICES ASSUME NEW h \in Numbers PROVE fulltest(h) <=> Value(h) <= Value(Target)
  OBVIOUS
<1>0. /\ Top \in Nat /\ Base \in Nat
      /\ \A i \in 0 .. Top : h[i] \in 0 .. Base - 1 /\ Target[i] \in 0 .. Base - 1
  <2>1. Words \in Nat /\ Words > 0 /\ Base \in Nat /\ Target \in Numbers
    BY SMT, ScanAssumption
  <2> QED
    BY SMT, <2>1 DEF Top, Numbers
<1> DEFINE Extends(v, w) == \A i \in 0 .. Top :
             v[i] = w[Top - i] + (IF i = 0 THEN 0 ELSE Base * v[i - 1])
<1>1. PICK v \in [0 .. Top -> Nat] : Value(h) = v[Top] /\ Extends(v, h)
  BY ValueUnfolds
<1>2. PICK t \in [0 .. Top -> Nat] : Value(Target) = t[Top] /\ Extends(t, Target)
  BY ValueUnfolds, ScanAssumption
<1>3. PICK b \in [0 .. Top -> BOOLEAN] :
        /\ fulltest(h) = b[Top]
        /\ \A i \in 0 .. Top :
             /\ h[i] > Target[i] => ~ b[i]
             /\ h[i] < Target[i] => b[i]
             /\ h[i] = Target[i] => (b[i] <=> i = 0 \/ b[i - 1])
  BY FulltestUnfolds
<1> DEFINE Equal(j)   == v[j] = t[j] /\ (j < Top => (b[Top] <=> b[Top - j - 1])) /\ (j = Top => b[Top])
           Less(j)    == v[j] < t[j] /\ b[Top]
           Greater(j) == v[j] > t[j] /\ ~ b[Top]
           S == {j \in 0 .. Top : Equal(j) \/ Less(j) \/ Greater(j)}
<1>4. 0 \in S
  <2>1. v[0] = h[Top] /\ t[0] = Target[Top]
    BY <1>0, <1>1, <1>2
  <2>2. CASE h[Top] = Target[Top]
    <3>1. b[Top] <=> Top = 0 \/ b[Top - 1]
      BY <1>0, <1>3, <2>2
    <3> QED
      BY <1>0, <2>1, <2>2, <3>1
  <2>3. CASE h[Top] < Target[Top]
    BY <1>0, <1>3, <2>1, <2>3
  <2>4. CASE h[Top] > Target[Top]
    BY <1>0, <1>3, <2>1, <2>4
  <2> QED
    BY <1>0, <2>2, <2>3, <2>4
<1>5. ASSUME NEW k \in 0 .. Top, k \in S, k < Top PROVE k + 1 \in S
  <2> DEFINE i == Top - (k + 1)
  <2>1. k + 1 \in 0 .. Top /\ k + 1 # 0 /\ (k + 1) - 1 = k /\ i \in 0 .. Top
        /\ Top - k - 1 = i /\ Top - (k + 1) - 1 = i - 1
    BY <1>0, <1>5
  <2>2. v[k + 1] = h[i] + Base * v[k] /\ t[k + 1] = Target[i] + Base * t[k]
    BY <1>1, <1>2, <2>1
  <2>3. h[i] \in 0 .. Base - 1 /\ Target[i] \in 0 .. Base - 1 /\ v[k] \in Nat /\ t[k] \in Nat
    BY <1>0, <1>1, <1>2, <2>1
  <2>4. CASE Less(k)
    <3>1. h[i] + Base * v[k] < Target[i] + Base * t[k]
      BY <1>0, <2>3, <2>4, NextWord
    <3>2. v[k + 1] < t[k + 1]
      BY <2>2, <3>1
    <3> QED
      BY <2>1, <2>4, <3>2
  <2>5. CASE Greater(k)
    <3>1. Target[i] + Base * t[k] < h[i] + Base * v[k]
      BY <1>0, <2>3, <2>5, NextWord
    <3>2. v[k + 1] > t[k + 1]
      <4>1. v[k + 1] \in Nat /\ t[k + 1] \in Nat
        BY <1>1, <1>2, <2>1
      <4> QED
        BY <2>2, <3>1, <4>1
    <3> QED
      BY <2>1, <2>5, <3>2
  <2>6. CASE Equal(k)
    <3>1. (b[Top] <=> b[i]) /\ v[k] = t[k]
      BY <1>5, <2>1, <2>6
    <3>2. Base * v[k] \in Nat
      BY <1>0, <2>3
    <3>3. CASE h[i] = Target[i]
      <4>1. b[i] <=> i = 0 \/ b[i - 1]
        BY <1>3, <2>1, <2>3, <3>3
      <4>2. v[k + 1] = t[k + 1]
        BY <2>2, <3>1, <3>3
      <4>3. k + 1 = Top <=> i = 0
        BY <1>0, <2>1
      <4> QED
        BY <1>0, <2>1, <3>1, <4>1, <4>2, <4>3
    <3>4. CASE h[i] < Target[i]
      <4>1. b[i]
        BY <1>3, <2>1, <2>3, <3>4
      <4>2. v[k + 1] < t[k + 1]
        BY <2>2, <2>3, <3>1, <3>2, <3>4
      <4> QED
        BY <2>1, <3>1, <4>1, <4>2
    <3>5. CASE h[i] > Target[i]
      <4>1. ~ b[i]
        BY <1>3, <2>1, <2>3, <3>5
      <4>2. v[k + 1] > t[k + 1]
        BY <2>2, <2>3, <3>1, <3>2, <3>5
      <4> QED
        BY <2>1, <3>1, <4>1, <4>2
    <3> QED
      BY <2>3, <3>3, <3>4, <3>5
  <2> QED
    BY <1>5, <2>4, <2>5, <2>6
<1>6. Top \in S
  <2>1. 0 .. Top \subseteq S
    <3> HIDE DEF S
    <3> QED
      BY <1>0, <1>4, <1>5, SetInduction
  <2>2. Top \in 0 .. Top
    BY <1>0
  <2> HIDE DEF S
  <2> QED
    BY <2>1, <2>2
<1>7. v[Top] \in Nat /\ t[Top] \in Nat
  BY <1>0
<1> QED
  BY <1>1, <1>2, <1>3, <1>6, <1>7

(* Quotient and remainder. *)
LEMMA Division ==
  ASSUME NEW D \in Nat, D > 0, NEW x \in Nat
  PROVE  /\ x \div D \in Nat /\ x % D \in 0 .. D - 1
         /\ x = D * (x \div D) + (x % D)
OBVIOUS

(* Quotient and remainder are determined by the product they make up. *)
LEMMA DivisionUnique ==
  ASSUME NEW D \in Nat, D > 0, NEW a \in Nat, NEW b \in 0 .. D - 1
  PROVE  /\ D * a + b \in Nat
         /\ (D * a + b) \div D = a /\ (D * a + b) % D = b
<1>0. D * a \in Nat
  OBVIOUS
<1> DEFINE x == D * a + b
           q == x \div D
           r == x % D
<1>1. x \in Nat
  BY <1>0
<1>2. q \in Nat /\ r \in 0 .. D - 1 /\ x = D * q + r
  <2> HIDE DEF x
  <2> QED
    BY <1>1, Division
<1> HIDE DEF q, r
<1>3. D * q \in Nat
  BY <1>2
<1>4. ASSUME q < a PROVE FALSE
  <2>1. D * (q + 1) <= D * a
    BY <1>2, <1>4, TimesMonotone
  <2>2. D * (q + 1) = D * q + D
    BY <1>2
  <2> QED
    BY <1>0, <1>2, <1>3, <2>1, <2>2
<1>5. ASSUME q > a PROVE FALSE
  <2>1. D * (a + 1) <= D * q
    BY <1>2, <1>5, TimesMonotone
  <2>2. D * (a + 1) = D * a + D
    OBVIOUS
  <2> QED
    BY <1>0, <1>2, <1>3, <2>1, <2>2
<1>6. q = a
  BY <1>2, <1>4, <1>5
<1>7. r = b
  BY <1>0, <1>2, <1>6
<1> QED
  BY <1>1, <1>6, <1>7 DEF q, r

(* Swapping the bytes of a nonce twice restores it. *)
LEMMA SwabInvolution ==
  ASSUME NEW x \in Nonces
  PROVE  swab32(x) \in Nonces /\ swab32(swab32(x)) = x
<1> DEFINE q == x \div Digit
           r == x % Digit
<1>1. Digit \in Nat /\ Digit > 1 /\ Digit * Digit \in Nat
  BY ScanAssumption
<1>2. x \in Nat /\ x < Digit * Digit
  BY <1>1 DEF Nonces, UINT
<1>3. q \in Nat /\ r \in 0 .. Digit - 1 /\ x = Digit * q + r
  BY <1>1, <1>2, Division
<1>4. swab32(x) = Digit * r + q
  <2>1. r * Digit = Digit * r
    BY <1>1, <1>3
  <2> QED
    BY <2>1 DEF swab32
<1> HIDE DEF q, r
<1>5. q \in 0 .. Digit - 1
  <2> SUFFICES ASSUME q >= Digit PROVE FALSE
    BY <1>1, <1>3
  <2>1. Digit * Digit <= Digit * q
    BY <1>1, <1>3, TimesMonotone
  <2>2. Digit * q \in Nat
    BY <1>1, <1>3
  <2> QED
    BY <1>1, <1>2, <1>3, <2>1, <2>2
<1>6. /\ Digit * r + q \in Nat
      /\ (Digit * r + q) \div Digit = r /\ (Digit * r + q) % Digit = q
  BY <1>1, <1>3, <1>5, DivisionUnique
<1>7. swab32(swab32(x)) = x
  <2>1. swab32(swab32(x)) = q * Digit + r
    BY <1>4, <1>6 DEF swab32
  <2>2. q * Digit = Digit * q
    BY <1>1, <1>3
  <2> QED
    BY <1>3, <2>1, <2>2
<1>8. Digit * r + q < Digit * Digit
  <2>1. Digit * (r + 1) <= Digit * Digit
    BY <1>1, <1>3, TimesMonotone
  <2>2. Digit * (r + 1) = Digit * r + Digit
    BY <1>1, <1>3
  <2>3. Digit * r \in Nat
    BY <1>1, <1>3
  <2> QED
    BY <1>1, <1>5, <2>1, <2>2, <2>3
<1> QED
  BY <1>1, <1>4, <1>6, <1>7, <1>8 DEF Nonces, UINT

(* The shares of the nonces lie one behind the other, Gap apart. *)
LEMMA Shares ==
  /\ UINT \in Nat /\ UINT > 1 /\ N \in Nat /\ Gap \in Nat
  /\ \A t \in Threads :
       /\ first_nonce(t) \in Nat /\ end_nonce(t) \in Nat
       /\ first_nonce(t) < end_nonce(t) /\ end_nonce(t) + Gap <= UINT - 1
       /\ \A u \in Threads : t < u => end_nonce(t) + Gap <= first_nonce(u)
<1> DEFINE s == (UINT - 1) \div N
<1>1. /\ N \in Nat /\ N > 0 /\ Gap \in Nat /\ Digit \in Nat /\ Digit > 1
      /\ (Digit * Digit - 1) \div N > Gap
  BY ScanAssumption
<1>2. UINT \in Nat /\ UINT > 1
  <2>1. Digit * 1 <= Digit * Digit /\ Digit * Digit \in Nat
    BY <1>1, TimesMonotone
  <2> QED
    BY <1>1, <2>1 DEF UINT
<1>3. s \in Nat /\ N * s <= UINT - 1
  <2>1. UINT - 1 \in Nat
    BY <1>2
  <2>2. /\ s \in Nat /\ (UINT - 1) % N \in 0 .. N - 1
        /\ UINT - 1 = N * s + ((UINT - 1) % N)
    BY <1>1, <2>1, Division
  <2> HIDE DEF s
  <2>3. N * s \in Nat
    BY <1>1, <2>2
  <2> QED
    BY <1>1, <1>2, <2>2, <2>3
<1>4. s > Gap
  BY <1>1 DEF UINT
<1>5. \A t \in Threads : first_nonce(t) = s * t /\ end_nonce(t) = s * (t + 1) - Gap
  BY DEF first_nonce, end_nonce
<1> HIDE DEF s
<1>6. ASSUME NEW t \in Threads
      PROVE  /\ first_nonce(t) \in Nat /\ end_nonce(t) \in Nat
             /\ first_nonce(t) < end_nonce(t) /\ end_nonce(t) + Gap <= UINT - 1
  <2>1. t \in Nat /\ t + 1 <= N
    BY <1>1 DEF Threads
  <2>2. s * t \in Nat /\ s * (t + 1) = s * t + s
    BY <1>3, <2>1
  <2>3. s * (t + 1) <= s * N /\ s * N = N * s /\ s * N \in Nat
    BY <1>1, <1>3, <2>1, TimesMonotone
  <2> QED
    BY <1>1, <1>2, <1>3, <1>4, <1>5, <2>2, <2>3
<1>7. ASSUME NEW t \in Threads, NEW u \in Threads, t < u
      PROVE  end_nonce(t) + Gap <= first_nonce(u)
  <2>1. t + 1 \in Nat /\ u \in Nat /\ t + 1 <= u
    BY <1>1, <1>7 DEF Threads
  <2>2. s * (t + 1) <= s * u /\ s * (t + 1) \in Nat /\ s * u \in Nat
    BY <1>3, <2>1, TimesMonotone
  <2> QED
    BY <1>1, <1>5, <2>2
<1> QED
  BY <1>1, <1>2, <1>6, <1>7

-----------------------------------------------------------------------------
(* The values the variables range over. *)
Types ==
  /\ want_batchmode \in BOOLEAN
  /\ gwork \in Nat /\ work \in [Threads -> Nat]
  /\ data19 \in [Threads -> Nonces]
  /\ pc \in [Threads -> {"top", "scan"}]
  /\ n \in [Threads -> Nonces] /\ max_nonce \in [Threads -> Nonces]
  /\ pipe \in [Threads -> Nonces]
  /\ found \in BOOLEAN /\ hashed \subseteq Nonces

(* The VM of a batch holds the nonce the scan is at. *)
InStep == want_batchmode => \A t \in Threads : pc[t] = "scan" => pipe[t] = n[t]

ScanInv == Types /\ InStep

(* The threads start with types and places in order. *)
LEMMA TypesInit == Init => ScanInv
<1> SUFFICES ASSUME Init PROVE ScanInv
  OBVIOUS
<1>1. 0 \in Nonces
  BY Shares DEF Nonces
<1>2. Types
  BY <1>1 DEF Init, Types
<1>3. InStep
  BY DEF Init, InStep
<1> QED
  BY <1>2, <1>3 DEF ScanInv

(* The nonce after a nonce; it wraps at the end of an unsigned int only. *)
LEMMA NonceSuccessor ==
  ASSUME NEW x \in Nonces
  PROVE  (x + 1) % UINT \in Nonces /\ (x + 1 < UINT => (x + 1) % UINT = x + 1)
<1>1. UINT \in Nat /\ UINT > 1 /\ x + 1 \in Nat
  BY Shares DEF Nonces
<1>2. (x + 1) % UINT \in 0 .. UINT - 1
  BY <1>1, Division
<1>3. ASSUME x + 1 < UINT PROVE (x + 1) % UINT = x + 1
  <2>1. (UINT * 0 + (x + 1)) % UINT = x + 1
    BY <1>1, <1>3, DivisionUnique
  <2>2. UINT * 0 + (x + 1) = x + 1
    BY <1>1
  <2> QED
    BY <2>1, <2>2
<1> QED
  BY <1>2, <1>3 DEF Nonces

(* What a thread that starts a scan sets. *)
LEMMA StartTypes ==
  ASSUME Types, NEW t \in Threads, NEW span \in 1 .. MaxSpan, StartScan(t, span)
  PROVE  /\ data19' \in [Threads -> Nonces] /\ n' \in [Threads -> Nonces]
         /\ pipe' \in [Threads -> Nonces] /\ max_nonce' \in [Threads -> Nonces]
         /\ n'[t] = IF work[t] # gwork THEN first_nonce(t) ELSE (data19[t] + 1) % UINT
         /\ data19'[t] = n'[t] /\ pipe'[t] = n'[t]
         /\ max_nonce'[t] <= end_nonce(t)
         /\ \A u \in Threads \ {t} :
              /\ data19'[u] = data19[u] /\ n'[u] = n[u] /\ pipe'[u] = pipe[u]
              /\ max_nonce'[u] = max_nonce[u]
<1> DEFINE start == IF work[t] # gwork THEN first_nonce(t)
                    ELSE (data19[t] + 1) % UINT
           last == IF start + span > end_nonce(t) THEN end_nonce(t)
                   ELSE start + span
<1>1. /\ data19' = [data19 EXCEPT ![t] = start] /\ n' = [n EXCEPT ![t] = start]
      /\ pipe' = [pipe EXCEPT ![t] = start]
      /\ max_nonce' = [max_nonce EXCEPT ![t] = last]
  BY DEF StartScan
<1>2. /\ UINT \in Nat /\ UINT > 1 /\ first_nonce(t) \in Nat /\ end_nonce(t) \in Nat
      /\ first_nonce(t) < end_nonce(t) /\ end_nonce(t) + Gap <= UINT - 1 /\ Gap \in Nat
  BY Shares
<1>3. start \in Nonces
  <2>1. data19[t] \in Nonces
    BY DEF Types
  <2>2. (data19[t] + 1) % UINT \in Nonces
    BY <2>1, NonceSuccessor
  <2>3. first_nonce(t) \in Nonces
    BY <1>2 DEF Nonces
  <2> QED
    BY <2>2, <2>3
<1>4. last \in Nonces /\ last <= end_nonce(t)
  <2>1. start \in Nat /\ span \in Nat
    BY <1>2, <1>3 DEF Nonces
  <2> HIDE DEF start
  <2> QED
    BY <1>2, <2>1 DEF Nonces
<1> HIDE DEF last
<1>5. start = IF work[t] # gwork THEN first_nonce(t) ELSE (data19[t] + 1) % UINT
  OBVIOUS
<1> HIDE DEF start
<1> QED
  BY <1>1, <1>3, <1>4, <1>5 DEF Types

(* What a step that scans does to the locals of its thread. *)
LEMMA FoundTypes ==
  ASSUME Types, NEW t \in Threads, NEW x, NEW c \in Nonces, NEW h, Found(t, x, c, h)
  PROVE  /\ data19' \in [Threads -> Nonces] /\ n' = n
         /\ pc' = [pc EXCEPT ![t] = "top"]
         /\ \A u \in Threads \ {t} : data19'[u] = data19[u]
         /\ solution'.hash = x /\ solution'.commitment = c /\ solution'.sent = c
         /\ solution'.value = h
<1>1. store_nonce(c) \in Nonces /\ swab32(store_nonce(c)) = c
  BY SwabInvolution DEF store_nonce
<1>2. /\ data19' = [data19 EXCEPT ![t] = store_nonce(c)]
      /\ solution' = [hash |-> x, commitment |-> c,
                      sent |-> swab32(store_nonce(c)), value |-> h]
      /\ n' = n /\ pc' = [pc EXCEPT ![t] = "top"]
  BY DEF Found
<1> QED
  BY <1>1, <1>2 DEF Types

(* What a thread that goes on, or is interrupted, sets. *)
LEMMA ContinueTypes ==
  ASSUME Types, NEW t \in Threads, NEW x \in Nonces, NEW restart \in BOOLEAN,
         Continue(t, x, restart)
  PROVE  /\ data19' \in [Threads -> Nonces] /\ n' = [n EXCEPT ![t] = x]
         /\ pc' \in [Threads -> {"top", "scan"}]
         /\ pc'[t] = "scan" => pc[t] = "scan" /\ x < max_nonce[t]
         /\ pc[t] = "scan" /\ pc'[t] # "scan" => data19'[t] = x
         /\ \A u \in Threads \ {t} : data19'[u] = data19[u] /\ pc'[u] = pc[u]
         /\ solution' = NoSolution
<1>1. n' = [n EXCEPT ![t] = x] /\ solution' = NoSolution
  BY DEF Continue
<1>2. CASE x < max_nonce[t] /\ ~ restart
  <2>1. data19' = data19 /\ pc' = pc
    BY <1>2 DEF Continue
  <2> QED
    BY <1>1, <1>2, <2>1 DEF Types
<1>3. CASE ~ (x < max_nonce[t] /\ ~ restart)
  <2>1. /\ data19' = [data19 EXCEPT ![t] = x] /\ pc' = [pc EXCEPT ![t] = "top"]
    BY <1>3 DEF Continue
  <2> QED
    BY <1>1, <2>1 DEF Types
<1> QED
  BY <1>2, <1>3

(* The history of one hash keeps its types. *)
LEMMA RecordTypes ==
  ASSUME Types, NEW t \in Threads, NEW x \in Nonces, NEW h, Record(t, x, h)
  PROVE  found' \in BOOLEAN /\ hashed' \subseteq Nonces
<1>1. CASE work[t] = gwork
  <2>1. /\ found' = (found \/ Passes(h))
        /\ hashed' = IF found' THEN {} ELSE hashed \cup {x}
    BY <1>1 DEF Record
  <2>2. found' \in BOOLEAN
    BY <2>1, Zenon
  <2>3. hashed \subseteq Nonces
    BY DEF Types
  <2> QED
    BY <2>1, <2>2, <2>3
<1>2. CASE work[t] # gwork
  BY <1>2 DEF Record, Types
<1> QED
  BY <1>1, <1>2

(* Every step of every thread keeps types and the batch VM in step. *)
LEMMA ScanInvStep ==
  ScanInv /\ [Next]_vars => ScanInv'
<1> SUFFICES ASSUME ScanInv, [Next]_vars PROVE ScanInv'
  OBVIOUS
<1>0. Types /\ InStep
  BY DEF ScanInv
<1>1. CASE NewWork /\ UNCHANGED want_batchmode
  <2>1. /\ gwork' = gwork + 1 /\ found' = FALSE /\ hashed' = {}
        /\ UNCHANGED <<want_batchmode, work, data19, pc, n, max_nonce, pipe>>
    BY <1>1 DEF NewWork
  <2>2. gwork' \in Nat /\ found' \in BOOLEAN /\ hashed' \subseteq Nonces
    <3>1. gwork' \in Nat
      BY <1>0, <2>1 DEF Types
    <3>2. found' \in BOOLEAN
      BY <2>1, Zenon
    <3>3. hashed' \subseteq Nonces
      BY <2>1
    <3> QED
      BY <3>1, <3>2, <3>3
  <2>3. Types'
    BY <1>0, <2>1, <2>2 DEF Types
  <2>4. InStep'
    BY <1>0, <2>1 DEF InStep
  <2> QED
    BY <2>3, <2>4 DEF ScanInv
<1>2. ASSUME NEW t \in Threads, NEW span \in 1 .. MaxSpan, StartScan(t, span),
             UNCHANGED want_batchmode
      PROVE  ScanInv'
  <2>1. /\ work' = [work EXCEPT ![t] = gwork] /\ pc' = [pc EXCEPT ![t] = "scan"]
        /\ UNCHANGED <<want_batchmode, gwork, found, hashed>>
    BY <1>2 DEF StartScan
  <2>2. /\ data19' \in [Threads -> Nonces] /\ n' \in [Threads -> Nonces]
        /\ pipe' \in [Threads -> Nonces] /\ max_nonce' \in [Threads -> Nonces]
        /\ pipe'[t] = n'[t]
        /\ \A u \in Threads \ {t} : n'[u] = n[u] /\ pipe'[u] = pipe[u]
    BY <1>0, <1>2, StartTypes
  <2>3. Types'
    BY <1>0, <2>1, <2>2 DEF Types
  <2>4. InStep'
    BY <1>0, <2>1, <2>2 DEF Types, InStep
  <2> QED
    BY <2>3, <2>4 DEF ScanInv
<1>3. ASSUME NEW t \in Threads, NEW h \in Numbers, scanhash_randomx(t, h),
             UNCHANGED want_batchmode
      PROVE  ScanInv'
  <2>1. /\ Record(t, n[t], h) /\ ~ want_batchmode /\ n[t] \in Nonces
        /\ UNCHANGED <<want_batchmode, gwork, work, max_nonce, pipe>>
    BY <1>0, <1>3 DEF scanhash_randomx, Types
  <2>2. found' \in BOOLEAN /\ hashed' \subseteq Nonces
    BY <1>0, <2>1, RecordTypes
  <2>3. /\ data19' \in [Threads -> Nonces] /\ n' \in [Threads -> Nonces]
        /\ pc' \in [Threads -> {"top", "scan"}]
    <3>1. CASE Passes(h)
      <4>1. Found(t, n[t], n[t], h)
        BY <1>3, <3>1 DEF scanhash_randomx
      <4> QED
        BY <1>0, <2>1, <4>1, FoundTypes DEF Types
    <3>2. CASE ~ Passes(h)
      <4>1. PICK restart \in BOOLEAN : Continue(t, (n[t] + 1) % UINT, restart)
        BY <1>3, <3>2 DEF scanhash_randomx
      <4>2. (n[t] + 1) % UINT \in Nonces
        BY <2>1, NonceSuccessor
      <4> QED
        BY <1>0, <4>1, <4>2, ContinueTypes DEF Types
    <3> QED
      BY <3>1, <3>2
  <2>4. Types'
    BY <1>0, <2>1, <2>2, <2>3 DEF Types
  <2>5. InStep'
    BY <2>1 DEF InStep
  <2> QED
    BY <2>4, <2>5 DEF ScanInv
<1>4. ASSUME NEW t \in Threads, NEW h \in Numbers, scanhash_randomx_batch(t, h),
             UNCHANGED want_batchmode
      PROVE  ScanInv'
  <2> DEFINE x == (n[t] + 1) % UINT
  <2>1. /\ Record(t, n[t], h) /\ n[t] \in Nonces /\ pc[t] = "scan"
        /\ pipe' = [pipe EXCEPT ![t] = x]
        /\ UNCHANGED <<want_batchmode, gwork, work, max_nonce>>
    BY <1>0, <1>4 DEF scanhash_randomx_batch, Types
  <2>2. found' \in BOOLEAN /\ hashed' \subseteq Nonces
    BY <1>0, <2>1, RecordTypes
  <2>3. x \in Nonces
    BY <2>1, NonceSuccessor
  <2>4. CASE Passes(h)
    <3>1. Found(t, pipe[t], n[t], h)
      BY <1>4, <2>4 DEF scanhash_randomx_batch, commitment_nonce
    <3>2. /\ data19' \in [Threads -> Nonces] /\ n' = n
          /\ pc' = [pc EXCEPT ![t] = "top"]
      BY <1>0, <2>1, <3>1, FoundTypes
    <3>3. Types'
      BY <1>0, <2>1, <2>2, <2>3, <3>2 DEF Types
    <3>4. InStep'
      BY <1>0, <2>1, <3>2 DEF InStep, Types
    <3> QED
      BY <3>3, <3>4 DEF ScanInv
  <2>5. CASE ~ Passes(h)
    <3>1. Continue(t, x, FALSE)
      BY <1>4, <2>5 DEF scanhash_randomx_batch
    <3>2. /\ data19' \in [Threads -> Nonces] /\ n' = [n EXCEPT ![t] = x]
          /\ pc' \in [Threads -> {"top", "scan"}]
          /\ \A u \in Threads \ {t} : pc'[u] = pc[u]
      BY <1>0, <2>3, <3>1, ContinueTypes
    <3> HIDE DEF x
    <3>3. Types'
      BY <1>0, <2>1, <2>2, <2>3, <3>2 DEF Types
    <3>4. InStep'
      BY <1>0, <2>1, <3>2 DEF InStep, Types
    <3> QED
      BY <3>3, <3>4 DEF ScanInv
  <2> QED
    BY <2>4, <2>5
<1>5. ASSUME NEW t \in Threads, batch_ends(t), UNCHANGED want_batchmode
      PROVE  ScanInv'
  <2>1. PICK restart \in BOOLEAN : Continue(t, n[t], restart)
    BY <1>5 DEF batch_ends
  <2>2. UNCHANGED <<want_batchmode, gwork, work, max_nonce, pipe, found, hashed>>
    BY <1>5 DEF batch_ends
  <2>3. n[t] \in Nonces /\ pc[t] = "scan"
    BY <1>0, <1>5 DEF Types, batch_ends
  <2>4. /\ data19' \in [Threads -> Nonces] /\ n' = [n EXCEPT ![t] = n[t]]
        /\ pc' \in [Threads -> {"top", "scan"}]
        /\ \A u \in Threads \ {t} : pc'[u] = pc[u]
    BY <1>0, <2>1, <2>3, ContinueTypes
  <2>5. n' = n
    BY <1>0, <2>4 DEF Types
  <2>6. Types'
    BY <1>0, <2>2, <2>4, <2>5 DEF Types
  <2>7. InStep'
    BY <1>0, <2>2, <2>3, <2>4, <2>5 DEF InStep
  <2> QED
    BY <2>6, <2>7 DEF ScanInv
<1>6. CASE UNCHANGED vars
  BY <1>0, <1>6 DEF ScanInv, Types, InStep, vars
<1>7. CASE Next
  <2>1. UNCHANGED want_batchmode /\ (NewWork \/ \E t \in Threads : Thread(t))
    BY <1>7 DEF Next
  <2>2. ASSUME NEW t \in Threads, Thread(t) PROVE ScanInv'
    BY <1>2, <1>3, <1>4, <1>5, <2>1, <2>2, Zenon DEF Thread
  <2> QED
    BY <1>1, <2>1, <2>2, Zenon
<1> QED
  BY <1>6, <1>7

(* Types and the batch VM's place hold throughout. *)
LEMMA ScanInvariant == Spec => []ScanInv
BY TypesInit, ScanInvStep, PTL DEF Spec

-----------------------------------------------------------------------------
(* What passes both tests does not exceed the target. *)
LEMMA PassesBelow ==
  ASSUME NEW h \in Numbers, Passes(h)
  PROVE  Value(h) <= Value(Target)
BY FulltestCorrect DEF Passes

(* A nonce that is found by its own hash makes a sound solution. *)
LEMMA FoundSound ==
  ASSUME Types, NEW t \in Threads, NEW c \in Nonces, NEW h \in Numbers,
         Passes(h), Found(t, c, c, h)
  PROVE  SolutionSound'
<1>1. /\ solution'.hash = c /\ solution'.commitment = c /\ solution'.sent = c
      /\ solution'.value = h
  BY FoundTypes
<1>2. Value(solution'.value) <= Value(Target)
  BY <1>1, PassesBelow
<1>3. (Value(solution.value))' <= Value(Target)
  BY <1>1, <1>2 DEF Value
<1> QED
  BY <1>1, <1>3 DEF SolutionSound, NoSolution

(* Every step leaves a sound solution or none. *)
LEMMA SoundStep ==
  ScanInv /\ SolutionSound /\ [Next]_vars => SolutionSound'
<1> SUFFICES ASSUME ScanInv, SolutionSound, [Next]_vars PROVE SolutionSound'
  OBVIOUS
<1>0. Types /\ InStep
  BY DEF ScanInv
<1>1. ASSUME solution' = NoSolution PROVE SolutionSound'
  BY <1>1 DEF SolutionSound, NoSolution
<1>2. CASE NewWork
  BY <1>1, <1>2 DEF NewWork
<1>3. ASSUME NEW t \in Threads, NEW span \in 1 .. MaxSpan, StartScan(t, span)
      PROVE  SolutionSound'
  BY <1>1, <1>3 DEF StartScan
<1>4. ASSUME NEW t \in Threads, NEW h \in Numbers, scanhash_randomx(t, h)
      PROVE  SolutionSound'
  <2>1. n[t] \in Nonces
    BY <1>0 DEF Types
  <2>2. CASE Passes(h)
    <3>1. Found(t, n[t], n[t], h)
      BY <1>4, <2>2 DEF scanhash_randomx
    <3> QED
      BY <1>0, <2>1, <2>2, <3>1, FoundSound
  <2>3. CASE ~ Passes(h)
    BY <1>1, <1>4, <2>3 DEF scanhash_randomx, Continue
  <2> QED
    BY <2>2, <2>3
<1>5. ASSUME NEW t \in Threads, NEW h \in Numbers, scanhash_randomx_batch(t, h)
      PROVE  SolutionSound'
  <2>1. n[t] \in Nonces /\ pipe[t] = n[t]
    BY <1>0, <1>5 DEF Types, InStep, scanhash_randomx_batch
  <2>2. CASE Passes(h)
    <3>1. Found(t, n[t], n[t], h)
      BY <1>5, <2>1, <2>2 DEF scanhash_randomx_batch, commitment_nonce
    <3> QED
      BY <1>0, <2>1, <2>2, <3>1, FoundSound
  <2>3. CASE ~ Passes(h)
    BY <1>1, <1>5, <2>3 DEF scanhash_randomx_batch, Continue
  <2> QED
    BY <2>2, <2>3
<1>6. ASSUME NEW t \in Threads, batch_ends(t) PROVE SolutionSound'
  BY <1>1, <1>6 DEF batch_ends, Continue
<1>7. CASE UNCHANGED vars
  BY <1>7 DEF SolutionSound, vars
<1>8. CASE Next
  BY <1>2, <1>3, <1>4, <1>5, <1>6, <1>8, Zenon DEF Next, Thread
<1> QED
  BY <1>7, <1>8

(* Whatever solution the scan leaves is one nonce's hash and commitment,   *)
(* survives the two swaps of its bytes and does not exceed the target: in  *)
(* both scans, for any word size and any number of threads.                *)
THEOREM SolutionIsSound == Spec => []SolutionSound
<1>1. Init => SolutionSound
  BY DEF Init, SolutionSound
<1> QED
  BY <1>1, ScanInvariant, SoundStep, PTL DEF Spec

-----------------------------------------------------------------------------
(* A commitment the cheap test on the top word turns away although it is   *)
(* at or below the target.                                                 *)
LEMMA MissedTop ==
  ASSUME NEW h \in Numbers, Value(h) <= Value(Target), ~ Passes(h)
  PROVE  h[Words - 1] = Target[Words - 1]
<1>1. fulltest(h)
  BY FulltestCorrect
<1>2. ~ (h[Words - 1] < Target[Words - 1])
  BY <1>1 DEF Passes
<1>3. Top \in Nat /\ Top = Words - 1
  BY ScanAssumption DEF Top
<1>4. ~ (h[Top] > Target[Top])
  BY <1>1, <1>3, FulltestUnfolds
<1>5. h[Top] \in Int /\ Target[Top] \in Int
  BY <1>3, ScanAssumption DEF Numbers
<1> QED
  BY <1>2, <1>3, <1>4, <1>5

(* Every step passes over ties on the top word only. *)
LEMMA MissedStep ==
  MissedOnlyAtTop /\ [Next]_vars => MissedOnlyAtTop'
<1> SUFFICES ASSUME MissedOnlyAtTop, [Next]_vars PROVE MissedOnlyAtTop'
  OBVIOUS
<1>1. ASSUME missed' = {} PROVE MissedOnlyAtTop'
  BY <1>1 DEF MissedOnlyAtTop
<1>2. ASSUME NEW t, NEW x, NEW h \in Numbers, Record(t, x, h) PROVE MissedOnlyAtTop'
  <2>1. missed' = IF Value(h) <= Value(Target) /\ ~ Passes(h) THEN {h} ELSE {}
    BY <1>2 DEF Record
  <2>2. CASE Value(h) <= Value(Target) /\ ~ Passes(h)
    <3>1. missed' = {h}
      BY <2>1, <2>2
    <3>2. h[Words - 1] = Target[Words - 1]
      BY <2>2, MissedTop
    <3> QED
      BY <3>1, <3>2 DEF MissedOnlyAtTop
  <2>3. CASE ~ (Value(h) <= Value(Target) /\ ~ Passes(h))
    BY <1>1, <2>1, <2>3
  <2> QED
    BY <2>2, <2>3
<1>3. CASE NewWork
  BY <1>1, <1>3 DEF NewWork
<1>4. ASSUME NEW t \in Threads, NEW span \in 1 .. MaxSpan, StartScan(t, span)
      PROVE  MissedOnlyAtTop'
  BY <1>1, <1>4 DEF StartScan
<1>5. ASSUME NEW t \in Threads, NEW h \in Numbers,
             scanhash_randomx(t, h) \/ scanhash_randomx_batch(t, h)
      PROVE  MissedOnlyAtTop'
  BY <1>2, <1>5 DEF scanhash_randomx, scanhash_randomx_batch
<1>6. ASSUME NEW t \in Threads, batch_ends(t) PROVE MissedOnlyAtTop'
  BY <1>1, <1>6 DEF batch_ends
<1>7. CASE UNCHANGED vars
  BY <1>7 DEF MissedOnlyAtTop, vars
<1>8. CASE Next
  BY <1>3, <1>4, <1>5, <1>6, <1>8, Zenon DEF Next, Thread
<1> QED
  BY <1>7, <1>8

(* The only solutions a scan passes over are those whose top word equals   *)
(* the target's: everything else the cheap test and fulltest decide as the *)
(* comparison of the two 256-bit numbers does.                             *)
THEOREM MissedAtTopOnly == Spec => []MissedOnlyAtTop
<1>1. Init => MissedOnlyAtTop
  BY DEF Init, MissedOnlyAtTop
<1> QED
  BY <1>1, MissedStep, PTL DEF Spec

-----------------------------------------------------------------------------
(* The nonces of thread t, ends included. *)
Share(t) == first_nonce(t) .. end_nonce(t)

(* The first nonce of t's share it may not have hashed. *)
Done(t) == IF pc[t] = "scan" THEN n[t] ELSE data19[t]

(* Thread t searches the present work, and nobody has found a nonce yet. *)
Searching(t) == work[t] = gwork /\ ~ found

(* Nonces of a share the thread has not begun on are not hashed; of one it *)
(* is at, only those below its place are.                                  *)
ShareInv ==
  /\ found => hashed = {}
  /\ ~ again
  /\ \A t \in Threads :
       /\ work[t] <= gwork
       /\ work[t] # gwork => hashed \cap Share(t) = {}
       /\ Searching(t) =>
            /\ \A x \in hashed \cap Share(t) : x < Done(t)
            /\ first_nonce(t) <= Done(t) /\ Done(t) <= end_nonce(t) + 1
            /\ pc[t] = "scan" => n[t] <= end_nonce(t) /\ max_nonce[t] <= end_nonce(t)

(* With a gap between them, no nonce is in two shares. *)
LEMMA SharesApart ==
  ASSUME Gap > 0, NEW t \in Threads, NEW u \in Threads, t # u,
         NEW x \in Share(t)
  PROVE  x \notin Share(u)
<1>1. /\ first_nonce(t) \in Nat /\ end_nonce(t) \in Nat /\ Gap \in Nat
      /\ first_nonce(u) \in Nat /\ end_nonce(u) \in Nat
  BY Shares
<1>2. CASE t < u
  BY <1>1, <1>2, Shares DEF Share
<1>3. CASE u < t
  BY <1>1, <1>3, Shares DEF Share
<1>4. t < u \/ u < t
  BY ScanAssumption DEF Threads
<1> QED
  BY <1>2, <1>3, <1>4

(* A thread scans on, one nonce further. *)
LEMMA ScanAdvances ==
  ASSUME Gap > 0, ScanInv, ShareInv,
         NEW t \in Threads, NEW h \in Numbers, pc[t] = "scan", Record(t, n[t], h),
         gwork' = gwork, work' = work, max_nonce' = max_nonce,
         \A u \in Threads \ {t} : data19'[u] = data19[u] /\ n'[u] = n[u] /\ pc'[u] = pc[u],
         ~ Passes(h) =>
           /\ n'[t] = (n[t] + 1) % UINT
           /\ pc'[t] = "scan" => n'[t] < max_nonce[t]
           /\ pc'[t] # "scan" => data19'[t] = (n[t] + 1) % UINT
  PROVE  ShareInv'
<1>1. /\ gwork \in Nat /\ \A u \in Threads : work[u] \in Nat
      /\ n[t] \in Nonces /\ max_nonce[t] \in Nonces /\ found \in BOOLEAN
  BY DEF ScanInv, Types
<1>2. /\ first_nonce(t) \in Nat /\ end_nonce(t) \in Nat /\ UINT \in Nat /\ Gap \in Nat
      /\ end_nonce(t) + Gap <= UINT - 1
  BY Shares
<1>3. CASE work[t] # gwork
  <2>1. hashed' = hashed /\ found' = found /\ again' = again
    BY <1>3 DEF Record
  <2>2. ASSUME NEW u \in Threads, u # t, Searching(u)' PROVE Done(u)' = Done(u)
    BY <2>2 DEF Done
  <2>3. \A u \in Threads : Searching(u)' => Searching(u) /\ u # t
    BY <1>3, <2>1 DEF Searching
  <2> QED
    BY <2>1, <2>2, <2>3 DEF ShareInv, Share
<1>4. CASE work[t] = gwork
  <2>1. /\ again' = (again \/ n[t] \in hashed)
        /\ found' = (found \/ Passes(h))
        /\ hashed' = IF found' THEN {} ELSE hashed \cup {n[t]}
    BY <1>4 DEF Record
  <2>2. ~ again'
    <3>1. CASE found
      BY <2>1, <3>1 DEF ShareInv
    <3>2. CASE ~ found
      <4>1. Searching(t)
        BY <1>4, <3>2 DEF Searching
      <4>2. /\ first_nonce(t) <= n[t] /\ n[t] <= end_nonce(t)
            /\ \A x \in hashed \cap Share(t) : x < n[t]
        BY <4>1 DEF ShareInv, Done
      <4>3. n[t] \in Share(t) /\ ~ (n[t] < n[t])
        BY <1>1, <1>2, <4>2 DEF Share, Nonces
      <4> QED
        BY <2>1, <4>2, <4>3 DEF ShareInv
    <3> QED
      BY <3>1, <3>2
  <2>3. CASE found'
    <3>1. hashed' = {}
      BY <2>1, <2>3
    <3> QED
      BY <2>2, <2>3, <3>1 DEF ShareInv, Searching
  <2>4. CASE ~ found'
    <3>1. ~ found /\ ~ Passes(h) /\ hashed' = hashed \cup {n[t]} /\ Searching(t)
      BY <1>4, <2>1, <2>4, Zenon DEF Searching
    <3>2. /\ first_nonce(t) <= n[t] /\ n[t] <= end_nonce(t)
          /\ max_nonce[t] <= end_nonce(t)
          /\ \A x \in hashed \cap Share(t) : x < n[t]
      BY <3>1 DEF ShareInv, Done
    <3>3. (n[t] + 1) % UINT = n[t] + 1
      <4>1. n[t] + 1 < UINT
        BY <1>1, <1>2, <3>2 DEF Nonces
      <4> QED
        BY <1>1, <4>1, NonceSuccessor
    <3>4. n[t] \in Share(t)
      BY <1>1, <1>2, <3>2 DEF Share, Nonces
    <3>5. Done(t)' = n[t] + 1
      BY <3>1, <3>3 DEF Done
    <3>6. /\ \A x \in hashed' \cap Share(t) : x < Done(t)'
          /\ first_nonce(t) <= Done(t)' /\ Done(t)' <= end_nonce(t) + 1
          /\ pc'[t] = "scan" => n'[t] <= end_nonce(t) /\ max_nonce[t] <= end_nonce(t)
      <4>1. n[t] \in Nat /\ max_nonce[t] \in Nat
        BY <1>1, <1>2 DEF Nonces
      <4>2. \A x \in hashed' \cap Share(t) : x < n[t] + 1
        <5> TAKE x \in hashed' \cap Share(t)
        <5>1. CASE x = n[t]
          BY <4>1, <5>1
        <5>2. CASE x # n[t]
          <6>1. x \in hashed \cap Share(t)
            BY <3>1, <5>2
          <6>2. x \in Int
            BY <1>2 DEF Share
          <6> QED
            BY <3>2, <4>1, <6>1, <6>2
        <5> QED
          BY <5>1, <5>2
      <4> QED
        BY <1>2, <3>1, <3>2, <3>3, <3>5, <4>1, <4>2
    <3>7. ASSUME NEW u \in Threads, u # t
          PROVE  /\ hashed' \cap Share(u) = hashed \cap Share(u)
                 /\ Done(u)' = Done(u)
      <4>1. n[t] \notin Share(u)
        BY <3>4, <3>7, SharesApart
      <4> QED
        BY <3>1, <3>7, <4>1 DEF Done
    <3>8. ASSUME NEW u \in Threads
          PROVE  /\ (work[u] <= gwork)'
                 /\ (work[u] # gwork => hashed \cap Share(u) = {})'
                 /\ (Searching(u) =>
                      /\ \A x \in hashed \cap Share(u) : x < Done(u)
                      /\ first_nonce(u) <= Done(u) /\ Done(u) <= end_nonce(u) + 1
                      /\ pc[u] = "scan" => n[u] <= end_nonce(u)
                                           /\ max_nonce[u] <= end_nonce(u))'
      <4>1. CASE u = t
        BY <1>4, <3>6, <4>1 DEF ShareInv, Share, first_nonce, end_nonce
      <4>2. CASE u # t
        <5>1. Searching(u)' => Searching(u)
          BY <3>1 DEF Searching
        <5>2. /\ hashed' \cap Share(u) = hashed \cap Share(u) /\ Done(u)' = Done(u)
              /\ pc'[u] = pc[u] /\ n'[u] = n[u]
          BY <3>7, <4>2
        <5> QED
          BY <5>1, <5>2 DEF ShareInv, Share, first_nonce, end_nonce
      <4> QED
        BY <4>1, <4>2
    <3> QED
      BY <2>2, <2>4, <3>8 DEF ShareInv
  <2> QED
    BY <2>3, <2>4
<1> QED
  BY <1>3, <1>4

(* At the start nothing is hashed and no thread has the first unit. *)
LEMMA ShareInit == Init => ShareInv
<1> SUFFICES ASSUME Init PROVE ShareInv
  OBVIOUS
<1>1. gwork = 1 /\ work = [t \in Threads |-> 0] /\ hashed = {} /\ again = FALSE
  BY DEF Init
<1> QED
  BY <1>1 DEF ShareInv, Searching

(* Every step of every thread keeps the hashed nonces below its place. *)
LEMMA ShareStep ==
  ASSUME Gap > 0
  PROVE  ScanInv /\ ShareInv /\ [Next]_vars => ShareInv'
<1> SUFFICES ASSUME ScanInv, ShareInv, [Next]_vars PROVE ShareInv'
  OBVIOUS
<1>0. Types
  BY DEF ScanInv
<1>1. CASE NewWork
  <2>1. /\ gwork' = gwork + 1 /\ found' = FALSE /\ hashed' = {}
        /\ again' = again /\ work' = work
    BY <1>1 DEF NewWork
  <2>2. ASSUME NEW t \in Threads PROVE work'[t] <= gwork' /\ work'[t] # gwork'
    <3>1. work[t] \in Nat /\ gwork \in Nat /\ work[t] <= gwork
      BY <1>0 DEF Types, ShareInv
    <3> QED
      BY <2>1, <3>1
  <2>3. ~ again'
    BY <2>1 DEF ShareInv
  <2> QED
    BY <2>1, <2>2, <2>3 DEF ShareInv, Searching
<1>2. ASSUME NEW t \in Threads, NEW span \in 1 .. MaxSpan, StartScan(t, span)
      PROVE  ShareInv'
  <2>1. /\ work' = [work EXCEPT ![t] = gwork] /\ pc' = [pc EXCEPT ![t] = "scan"]
        /\ gwork' = gwork /\ found' = found /\ hashed' = hashed /\ again' = again
        /\ work[t] = gwork => data19[t] < end_nonce(t)
        /\ pc[t] = "top"
    BY <1>2 DEF StartScan
  <2>2. /\ n'[t] = IF work[t] # gwork THEN first_nonce(t) ELSE (data19[t] + 1) % UINT
        /\ max_nonce'[t] <= end_nonce(t)
        /\ \A u \in Threads \ {t} :
              /\ data19'[u] = data19[u] /\ n'[u] = n[u] /\ max_nonce'[u] = max_nonce[u]
    BY <1>0, <1>2, StartTypes
  <2>3. /\ gwork \in Nat /\ work \in [Threads -> Nat] /\ pc \in [Threads -> {"top", "scan"}]
        /\ data19[t] \in Nonces
    BY <1>0 DEF Types
  <2>4. /\ first_nonce(t) \in Nat /\ end_nonce(t) \in Nat /\ UINT \in Nat /\ Gap \in Nat
        /\ first_nonce(t) < end_nonce(t) /\ end_nonce(t) + Gap <= UINT - 1
    BY Shares
  <2>5. work'[t] = gwork /\ pc'[t] = "scan" /\ Done(t)' = n'[t]
    BY <2>1, <2>3 DEF Done
  <2>6. ASSUME Searching(t)'
        PROVE  /\ \A x \in hashed \cap Share(t) : x < n'[t]
               /\ first_nonce(t) <= n'[t] /\ n'[t] <= end_nonce(t)
    <3>1. ~ found
      BY <2>1, <2>6 DEF Searching
    <3>2. CASE work[t] # gwork
      <4>1. hashed \cap Share(t) = {} /\ n'[t] = first_nonce(t)
        BY <2>2, <3>2 DEF ShareInv
      <4> QED
        BY <2>4, <4>1
    <3>3. CASE work[t] = gwork
      <4>1. Searching(t) /\ Done(t) = data19[t] /\ data19[t] < end_nonce(t)
        BY <2>1, <3>1, <3>3 DEF Searching, Done
      <4>2. /\ \A x \in hashed \cap Share(t) : x < data19[t]
            /\ first_nonce(t) <= data19[t]
        BY <4>1 DEF ShareInv
      <4>3. n'[t] = data19[t] + 1
        <5>1. data19[t] + 1 < UINT
          BY <2>3, <2>4, <4>1 DEF Nonces
        <5>2. (data19[t] + 1) % UINT = data19[t] + 1
          BY <2>3, <5>1, NonceSuccessor
        <5> QED
          BY <2>2, <3>3, <5>2
      <4>4. \A x \in hashed \cap Share(t) : x \in Int
        BY <2>4 DEF Share
      <4>5. data19[t] \in Nat
        BY <2>3, <2>4 DEF Nonces
      <4> QED
        BY <2>4, <4>1, <4>2, <4>3, <4>4, <4>5
    <3> QED
      BY <3>2, <3>3
  <2>7. ASSUME NEW u \in Threads
        PROVE  /\ (work[u] <= gwork)'
               /\ (work[u] # gwork => hashed \cap Share(u) = {})'
               /\ (Searching(u) =>
                    /\ \A x \in hashed \cap Share(u) : x < Done(u)
                    /\ first_nonce(u) <= Done(u) /\ Done(u) <= end_nonce(u) + 1
                    /\ pc[u] = "scan" => n[u] <= end_nonce(u)
                                         /\ max_nonce[u] <= end_nonce(u))'
    <3>1. CASE u = t
      <4>1. (work[u] <= gwork)' /\ (work[u] # gwork => hashed \cap Share(u) = {})'
        BY <2>1, <2>3, <2>5, <3>1
      <4>2. n'[t] <= end_nonce(t) /\ n'[t] \in Nat => n'[t] <= end_nonce(t) + 1
        BY <2>4
      <4>3. n'[t] \in Nonces
        BY <1>0, <1>2, StartTypes
      <4>4. n'[t] \in Nat
        BY <2>4, <4>3 DEF Nonces
      <4> QED
        BY <2>1, <2>2, <2>5, <2>6, <3>1, <4>1, <4>2, <4>4 DEF Share, first_nonce, end_nonce
    <3>2. CASE u # t
      <4>1. /\ work'[u] = work[u] /\ Done(u)' = Done(u) /\ pc'[u] = pc[u]
            /\ n'[u] = n[u] /\ max_nonce'[u] = max_nonce[u]
        BY <2>1, <2>2, <2>3, <3>2 DEF Done
      <4>2. Searching(u)' => Searching(u)
        BY <2>1, <4>1 DEF Searching
      <4> QED
        BY <2>1, <4>1, <4>2 DEF ShareInv, Share, first_nonce, end_nonce
    <3> QED
      BY <3>1, <3>2
  <2>8. (found => hashed = {})' /\ ~ again'
    BY <2>1 DEF ShareInv
  <2> QED
    BY <2>7, <2>8 DEF ShareInv
<1>3. ASSUME NEW t \in Threads, NEW h \in Numbers, scanhash_randomx(t, h)
      PROVE  ShareInv'
  <2>1. /\ pc[t] = "scan" /\ Record(t, n[t], h)
        /\ gwork' = gwork /\ work' = work /\ max_nonce' = max_nonce
    BY <1>3 DEF scanhash_randomx
  <2>2. n[t] \in Nonces /\ n \in [Threads -> Nonces] /\ pc \in [Threads -> {"top", "scan"}]
    BY <1>0 DEF Types
  <2>3. CASE Passes(h)
    <3>1. Found(t, n[t], n[t], h)
      BY <1>3, <2>3 DEF scanhash_randomx
    <3>2. \A u \in Threads \ {t} : data19'[u] = data19[u] /\ n'[u] = n[u] /\ pc'[u] = pc[u]
      BY <1>0, <2>2, <3>1, FoundTypes
    <3> QED
      BY <2>1, <2>3, <3>2, ScanAdvances
  <2>4. CASE ~ Passes(h)
    <3>1. PICK restart \in BOOLEAN : Continue(t, (n[t] + 1) % UINT, restart)
      BY <1>3, <2>4 DEF scanhash_randomx
    <3>2. (n[t] + 1) % UINT \in Nonces
      BY <2>2, NonceSuccessor
    <3>3. /\ n' = [n EXCEPT ![t] = (n[t] + 1) % UINT]
          /\ pc'[t] = "scan" => (n[t] + 1) % UINT < max_nonce[t]
          /\ pc'[t] # "scan" => data19'[t] = (n[t] + 1) % UINT
          /\ \A u \in Threads \ {t} : data19'[u] = data19[u] /\ pc'[u] = pc[u]
      BY <1>0, <2>1, <3>1, <3>2, ContinueTypes
    <3>4. /\ n'[t] = (n[t] + 1) % UINT
          /\ \A u \in Threads \ {t} : data19'[u] = data19[u] /\ n'[u] = n[u] /\ pc'[u] = pc[u]
      BY <2>2, <3>3
    <3> QED
      BY <2>1, <3>3, <3>4, ScanAdvances
  <2> QED
    BY <2>3, <2>4
<1>4. ASSUME NEW t \in Threads, NEW h \in Numbers, scanhash_randomx_batch(t, h)
      PROVE  ShareInv'
  <2>1. /\ pc[t] = "scan" /\ Record(t, n[t], h)
        /\ gwork' = gwork /\ work' = work /\ max_nonce' = max_nonce
    BY <1>4 DEF scanhash_randomx_batch
  <2>2. n[t] \in Nonces /\ n \in [Threads -> Nonces] /\ pc \in [Threads -> {"top", "scan"}]
    BY <1>0 DEF Types
  <2>3. CASE Passes(h)
    <3>1. Found(t, pipe[t], n[t], h)
      BY <1>4, <2>3 DEF scanhash_randomx_batch, commitment_nonce
    <3>2. \A u \in Threads \ {t} : data19'[u] = data19[u] /\ n'[u] = n[u] /\ pc'[u] = pc[u]
      BY <1>0, <2>2, <3>1, FoundTypes
    <3> QED
      BY <2>1, <2>3, <3>2, ScanAdvances
  <2>4. CASE ~ Passes(h)
    <3>1. Continue(t, (n[t] + 1) % UINT, FALSE)
      BY <1>4, <2>4 DEF scanhash_randomx_batch
    <3>2. (n[t] + 1) % UINT \in Nonces
      BY <2>2, NonceSuccessor
    <3>3. /\ n' = [n EXCEPT ![t] = (n[t] + 1) % UINT]
          /\ pc'[t] = "scan" => (n[t] + 1) % UINT < max_nonce[t]
          /\ pc'[t] # "scan" => data19'[t] = (n[t] + 1) % UINT
          /\ \A u \in Threads \ {t} : data19'[u] = data19[u] /\ pc'[u] = pc[u]
      BY <1>0, <2>1, <3>1, <3>2, ContinueTypes
    <3>4. /\ n'[t] = (n[t] + 1) % UINT
          /\ \A u \in Threads \ {t} : data19'[u] = data19[u] /\ n'[u] = n[u] /\ pc'[u] = pc[u]
      BY <2>2, <3>3
    <3> QED
      BY <2>1, <3>3, <3>4, ScanAdvances
  <2> QED
    BY <2>3, <2>4
<1>5. ASSUME NEW t \in Threads, batch_ends(t) PROVE ShareInv'
  <2>1. PICK restart \in BOOLEAN : Continue(t, n[t], restart)
    BY <1>5 DEF batch_ends
  <2>2. /\ pc[t] = "scan"
        /\ UNCHANGED <<gwork, work, max_nonce, found, hashed, again>>
    BY <1>5 DEF batch_ends
  <2>3. n[t] \in Nonces /\ n \in [Threads -> Nonces]
    BY <1>0 DEF Types
  <2>4. /\ n' = [n EXCEPT ![t] = n[t]]
        /\ pc'[t] # "scan" => data19'[t] = n[t]
        /\ \A u \in Threads \ {t} : data19'[u] = data19[u] /\ pc'[u] = pc[u]
    BY <1>0, <2>1, <2>2, <2>3, ContinueTypes
  <2>5. n' = n
    BY <2>3, <2>4
  <2>6. \A u \in Threads : Done(u)' = Done(u) /\ (pc'[u] = "scan" => pc[u] = "scan")
    BY <2>2, <2>4, <2>5 DEF Done
  <2> QED
    BY <2>2, <2>5, <2>6 DEF ShareInv, Searching, Share, first_nonce, end_nonce
<1>6. CASE UNCHANGED vars
  BY <1>6 DEF ShareInv, Searching, Done, Share, first_nonce, end_nonce, vars
<1>7. CASE Next
  BY <1>1, <1>2, <1>3, <1>4, <1>5, <1>7, Zenon DEF Next, Thread
<1> QED
  BY <1>6, <1>7

(* Until a nonce of it is found, no nonce of a unit of work is hashed      *)
(* twice, for any number of threads and of nonces, as long as nonces are   *)
(* left out between the shares (the code leaves 0x20): with none left out  *)
(* the last nonce of a share is the first of the next one.                 *)
THEOREM NonceHashedOnce ==
  ASSUME Gap > 0
  PROVE  Spec => []NoDoubleHash
<1>1. ShareInv => NoDoubleHash
  BY DEF ShareInv, NoDoubleHash
<1>2. ScanInv /\ ShareInv /\ [Next]_vars => ShareInv'
  BY ShareStep
<1> QED
  BY <1>1, <1>2, ShareInit, ScanInvariant, PTL DEF Spec
============================================================================

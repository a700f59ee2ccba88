------------------------------ MODULE Recursion -----------------------------
(***************************************************************************)
(* What a recursively defined function on 0 .. m computes can be shown by  *)
(* induction.  The induction theorems of the library take a predicate as   *)
(* a parameter, which no prover here can instantiate; the least number     *)
(* principle needs only a set.  With it, the numbers that digits spell.    *)
(***************************************************************************)
EXTENDS Integers, Sequences, WellFoundedInduction, TLAPS

LessThan == {ss \in Nat \X Nat : ss[1] < ss[2]}

(* A set of natural numbers that is not empty has a least member. *)
LEMMA LeastNumber ==
  ASSUME NEW S \in SUBSET Nat, S # {}
  PROVE  \E l \in S : \A m \in S : l <= m
<1>1. OpToRel(<, Nat) = LessThan
  BY DEF OpToRel, LessThan
<1>2. IsWellFoundedOn(LessThan, Nat)
  BY <1>1, NatLessThanWellFounded
<1>3. PICK x \in S : \A y \in S : ~ (<<y, x>> \in LessThan)
  BY <1>2, WFMin
<1>4. ASSUME NEW m \in S PROVE x <= m
  <2>1. m \in Nat /\ x \in Nat /\ ~ (<<m, x>> \in LessThan)
    BY <1>3
  <2> QED
    BY <2>1 DEF LessThan
<1> QED
  BY <1>4

(* A set with 0 that is closed under successor up to m holds 0 .. m. *)
LEMMA SetInduction ==
  ASSUME NEW S, 0 \in S, NEW m \in Nat, \A k \in 0 .. m : k \in S /\ k < m => k + 1 \in S
  PROVE  0 .. m \subseteq S
<1> DEFINE T == {k \in 0 .. m : k \notin S}
<1> SUFFICES ASSUME T # {} PROVE FALSE
  OBVIOUS
<1>1. T \in SUBSET Nat
  OBVIOUS
<1>2. PICK k \in T : \A l \in T : k <= l
  BY <1>1, LeastNumber
<1>3. k # 0 /\ k - 1 \in 0 .. m /\ k - 1 \notin T
  BY <1>2
<1> QED
  BY <1>2, <1>3

(* g is the sequence c, step(1, c), step(2, step(1, c)), ... up to m. *)
Recursive(g, c, step, m) ==
  g[0] = c /\ \A i \in 1 .. m : g[i] = step[<<i, g[i - 1]>>]

(* A step function is iterated by exactly the sequence one expects: the    *)
(* function a recursive definition speaks of exists.                       *)
LEMMA Recursion ==
  ASSUME NEW S, NEW c \in S, NEW m \in Nat, NEW step \in [(1 .. m) \X S -> S]
  PROVE  \E g \in [0 .. m -> S] : Recursive(g, c, step, m)
<1> DEFINE Upto(k, g) == g[0] = c /\ \A i \in 1 .. k : g[i] = step[<<i, g[i - 1]>>]
           K == {k \in Nat : \E g \in [0 .. k -> S] : Upto(k, g)}
<1>1. 0 \in K
  <2>1. [i \in 0 .. 0 |-> c] \in [0 .. 0 -> S] /\ Upto(0, [i \in 0 .. 0 |-> c])
    OBVIOUS
  <2> QED
    BY <2>1
<1>2. ASSUME NEW k \in 0 .. m, k \in K, k < m PROVE k + 1 \in K
  <2>1. PICK g \in [0 .. k -> S] : Upto(k, g)
    BY <1>2
  <2> DEFINE f == [i \in 0 .. k + 1 |-> IF i = k + 1 THEN step[<<k + 1, g[k]>>] ELSE g[i]]
  <2>2. g[k] \in S /\ k + 1 \in 1 .. m
    BY <1>2
  <2>3. step[<<k + 1, g[k]>>] \in S
    BY <2>2
  <2>4. f \in [0 .. k + 1 -> S]
    BY <2>3
  <2>5. f[0] = c
    BY <2>1
  <2>6. \A i \in 1 .. k + 1 : f[i] = step[<<i, f[i - 1]>>]
    <3> TAKE i \in 1 .. k + 1
    <3>1. CASE i = k + 1
      <4>1. f[i] = step[<<k + 1, g[k]>>] /\ f[k] = g[k] /\ i - 1 = k
        BY <3>1, <1>2
      <4> QED
        BY <3>1, <4>1
    <3>2. CASE i \in 1 .. k
      <4>1. f[i] = g[i] /\ f[i - 1] = g[i - 1]
        BY <3>2
      <4> QED
        BY <2>1, <3>2, <4>1
    <3> QED
      BY <3>1, <3>2
  <2>7. Upto(k + 1, f)
    BY <2>5, <2>6
  <2> HIDE DEF f, Upto
  <2>8. \E h \in [0 .. k + 1 -> S] : Upto(k + 1, h)
    BY <2>4, <2>7
  <2>9. k + 1 \in Nat
    OBVIOUS
  <2> QED
    BY <2>8, <2>9
<1>3. 0 .. m \subseteq K
  <2> HIDE DEF K
  <2> QED BY <1>1, <1>2, SetInduction
<1>4. m \in K
  BY <1>3
<1> QED
  BY <1>4 DEF Recursive

(* G solves the equation that a recursive definition over D states: c where *)
(* rank is 0, else a step on the value at a place of lower rank.            *)
Descends(G, D, rank, rest, c, step) ==
  \A t \in D : G[t] = IF rank[t] = 0 THEN c ELSE step[<<t, G[rest[t]]>>]

(* There is such a function when rank decreases. *)
LEMMA Descent ==
  ASSUME NEW D, NEW S, NEW rank \in [D -> Nat], NEW rest \in [D -> D],
         \A t \in D : rank[t] # 0 => rank[rest[t]] < rank[t],
         NEW c \in S, NEW step \in [D \X S -> S]
  PROVE  \E G \in [D -> S] : Descends(G, D, rank, rest, c, step)
<1> DEFINE body(g, t) == IF rank[t] = 0 THEN c ELSE step[<<t, g[rest[t]]>>]
           Upto(g, n) == \A t \in D : rank[t] <= n => g[t] = body(g, t)
           K == {n \in Nat : \E g \in [D -> S] : Upto(g, n)}
<1>1. \A g \in [D -> S], t \in D : body(g, t) \in S
  OBVIOUS
<1>2. \A g \in [D -> S] : [t \in D |-> body(g, t)] \in [D -> S]
  BY <1>1
<1>3. 0 \in K
  <2>1. [t \in D |-> c] \in [D -> S]
    OBVIOUS
  <2>2. Upto([t \in D |-> c], 0)
    OBVIOUS
  <2> QED
    BY <2>1, <2>2
<1>4. ASSUME NEW n \in Nat, n \in K PROVE n + 1 \in K
  <2>1. PICK g \in [D -> S] : Upto(g, n)
    BY <1>4
  <2> DEFINE h == [t \in D |-> body(g, t)]
  <2>2. \A t \in D : rank[t] <= n => h[t] = g[t]
    BY <2>1
  <2>3. ASSUME NEW t \in D, rank[t] <= n + 1 PROVE h[t] = body(h, t)
    <3>1. CASE rank[t] = 0
      BY <3>1
    <3>2. CASE rank[t] # 0
      <4>1. rest[t] \in D /\ rank[rest[t]] \in Nat /\ rank[t] \in Nat
        OBVIOUS
      <4>2. rank[rest[t]] <= n
        BY <2>3, <3>2, <4>1
      <4>3. h[rest[t]] = g[rest[t]]
        BY <2>2, <4>1, <4>2
      <4>4. h[t] = body(g, t)
        OBVIOUS
      <4> HIDE DEF h
      <4> QED
        BY <4>3, <4>4
    <3> QED
      BY <3>1, <3>2
  <2>4. h \in [D -> S]
    BY <1>2
  <2> HIDE DEF h
  <2>5. Upto(h, n + 1)
    BY <2>3
  <2> QED
    BY <2>4, <2>5
<1>5. \A n \in Nat : \E g \in [D -> S] : Upto(g, n)
  <2> TAKE n \in Nat
  <2>1. 0 .. n \subseteq K
    <3>1. \A k \in 0 .. n : k \in K /\ k < n => k + 1 \in K
      BY <1>4
    <3> HIDE DEF K
    <3> QED
      BY <1>3, <3>1, SetInduction
  <2>2. n \in 0 .. n
    OBVIOUS
  <2> QED
    BY <2>1, <2>2
<1>6. ASSUME NEW g \in [D -> S], NEW h \in [D -> S], NEW n \in Nat, Upto(g, n), Upto(h, n)
      PROVE  \A t \in D : rank[t] <= n => g[t] = h[t]
  <2> DEFINE A == {k \in Nat : \A t \in D : rank[t] <= k => g[t] = h[t]}
  <2>1. 0 \in A
    <3> SUFFICES ASSUME NEW t \in D, rank[t] <= 0 PROVE g[t] = h[t]
      OBVIOUS
    <3>1. rank[t] = 0 /\ rank[t] <= n
      OBVIOUS
    <3> QED
      BY <1>6, <3>1
  <2>2. ASSUME NEW k \in 0 .. n, k \in A, k < n PROVE k + 1 \in A
    <3> SUFFICES ASSUME NEW t \in D, rank[t] <= k + 1 PROVE g[t] = h[t]
      OBVIOUS
    <3>1. rank[t] \in Nat /\ rank[t] <= n
      BY <2>2
    <3>2. g[t] = body(g, t) /\ h[t] = body(h, t)
      BY <1>6, <3>1
    <3>3. CASE rank[t] = 0
      BY <3>2, <3>3
    <3>4. CASE rank[t] # 0
      <4>1. rest[t] \in D /\ rank[rest[t]] \in Nat /\ rank[rest[t]] < rank[t]
        BY <3>4
      <4>2. rank[rest[t]] <= k
        BY <3>1, <4>1
      <4>3. g[rest[t]] = h[rest[t]]
        BY <2>2, <4>1, <4>2
      <4> QED
        BY <3>2, <3>4, <4>3
    <3> QED
      BY <3>3, <3>4
  <2>3. 0 .. n \subseteq A
    <3> HIDE DEF A
    <3> QED
      BY <2>1, <2>2, SetInduction
  <2>4. n \in A
    BY <2>3
  <2> QED
    BY <2>4
<1> HIDE DEF K
<1> DEFINE sol(n) == CHOOSE g : g \in [D -> S] /\ Upto(g, n)
           G == [t \in D |-> sol(rank[t])[t]]
<1>7. \A n \in Nat : sol(n) \in [D -> S] /\ Upto(sol(n), n)
  BY ZenonT(60), <1>5
<1> HIDE DEF sol
<1>8. G \in [D -> S]
  BY <1>7
<1>9. ASSUME NEW t \in D PROVE G[t] = body(G, t)
  <2>1. rank[t] \in Nat /\ G[t] = sol(rank[t])[t]
    OBVIOUS
  <2>2. sol(rank[t])[t] = body(sol(rank[t]), t)
    BY <1>7, <2>1
  <2>3. CASE rank[t] = 0
    BY <2>1, <2>2, <2>3
  <2>4. CASE rank[t] # 0
    <3>1. rest[t] \in D /\ rank[rest[t]] \in Nat /\ rank[rest[t]] < rank[t]
      BY <2>4
    <3>2. G[rest[t]] = sol(rank[rest[t]])[rest[t]]
      BY <3>1
    <3>3. Upto(sol(rank[t]), rank[rest[t]])
      <4> SUFFICES ASSUME NEW u \in D, rank[u] <= rank[rest[t]]
                   PROVE  sol(rank[t])[u] = body(sol(rank[t]), u)
        OBVIOUS
      <4>1. rank[u] \in Nat /\ rank[u] <= rank[t]
        BY <2>1, <3>1
      <4> QED
        BY <1>7, <2>1, <4>1
    <3>4. sol(rank[t])[rest[t]] = sol(rank[rest[t]])[rest[t]]
      <4> HIDE DEF Upto
      <4> QED
        BY <1>6, <1>7, <2>1, <3>1, <3>3
    <3> HIDE DEF G
    <3> QED
      BY <2>1, <2>2, <2>4, <3>2, <3>4
  <2> QED
    BY <2>3, <2>4
<1> HIDE DEF G
<1>10. Descends(G, D, rank, rest, c, step)
  BY <1>9 DEF Descends
<1> QED
  BY <1>8, <1>10

-----------------------------------------------------------------------------
(* Numbers in the positional system of a base. *)

(* The number that the digits s spell in base b, the highest digit first. *)
Number(s, b) ==
  LET v[i \in 0 .. Len(s)] == IF i = 0 THEN 0 ELSE v[i - 1] * b + s[i]
  IN  v[Len(s)]

(* v[i] is the number that the first i digits of s spell. *)
Counts(v, s, b, n) == v[0] = 0 /\ \A i \in 1 .. n : v[i] = v[i - 1] * b + s[i]

(* Nothing else counts like that. *)
LEMMA CountsOnce ==
  ASSUME NEW n \in Nat, NEW s \in [1 .. n -> Nat], NEW b \in Nat,
         NEW v, NEW w, Counts(v, s, b, n), Counts(w, s, b, n)
  PROVE  \A i \in 0 .. n : v[i] = w[i]
<1> DEFINE K == {i \in 0 .. n : v[i] = w[i]}
<1>1. 0 \in K
  BY DEF Counts
<1>2. ASSUME NEW i \in 0 .. n, i \in K, i < n PROVE i + 1 \in K
  <2>1. i + 1 \in 1 .. n /\ (i + 1) - 1 = i /\ v[i] = w[i]
    BY <1>2
  <2>2. v[i + 1] = v[i] * b + s[i + 1] /\ w[i + 1] = w[i] * b + s[i + 1]
    BY <2>1 DEF Counts
  <2> QED
    BY <2>1, <2>2
<1>3. 0 .. n \subseteq K
  <2> HIDE DEF K
  <2> QED
    BY <1>1, <1>2, SetInduction
<1> QED
  BY <1>3

(* Digits have a number, and so have all their beginnings. *)
LEMMA NumberRow ==
  ASSUME NEW n \in Nat, NEW s \in [1 .. n -> Nat], NEW b \in Nat
  PROVE  \E v \in [0 .. n -> Nat] : Counts(v, s, b, n) /\ Number(s, b) = v[n]
<1> DEFINE step == [p \in (1 .. n) \X Nat |-> p[2] * b + s[p[1]]]
           Is(g) == g = [i \in 0 .. n |-> IF i = 0 THEN 0 ELSE g[i - 1] * b + s[i]]
           row == CHOOSE g : Is(g)
<1>1. Number(s, b) = row[n]
  <2>1. Len(s) = n
    OBVIOUS
  <2> QED
    BY Zenon, <2>1 DEF Number
<1>2. step \in [(1 .. n) \X Nat -> Nat]
  <2>1. \A x \in Nat, i \in 1 .. n : x * b + s[i] \in Nat
    OBVIOUS
  <2> QED
    BY <2>1
<1>3. PICK g \in [0 .. n -> Nat] : Recursive(g, 0, step, n)
  <2> HIDE DEF step
  <2> QED
    BY <1>2, Recursion
<1>4. \A i \in 1 .. n : g[i] = g[i - 1] * b + s[i]
  <2> TAKE i \in 1 .. n
  <2>1. g[i - 1] \in Nat
    OBVIOUS
  <2>2. step[<<i, g[i - 1]>>] = g[i - 1] * b + s[i]
    BY <2>1
  <2> HIDE DEF step
  <2> QED
    BY <1>3, <2>2 DEF Recursive
<1>5. g[0] = 0
  BY <1>3 DEF Recursive
<1>6. Is(g)
  BY <1>4, <1>5
<1>7. Is(row)
  <2> HIDE DEF Is
  <2> QED
    BY <1>6
<1> HIDE DEF row
<1>8. \A i \in 0 .. n : row[i] = IF i = 0 THEN 0 ELSE row[i - 1] * b + s[i]
  BY <1>7
<1>9. Counts(row, s, b, n)
  BY <1>8 DEF Counts
<1>10. Counts(g, s, b, n)
  BY <1>4, <1>5 DEF Counts
<1>11. row[n] = g[n]
  BY <1>9, <1>10, CountsOnce
<1> QED
  BY <1>1, <1>10, <1>11

(* Whoever counts the digits of s finds their number. *)
LEMMA NumberIs ==
  ASSUME NEW n \in Nat, NEW s \in [1 .. n -> Nat], NEW b \in Nat,
         NEW v, Counts(v, s, b, n)
  PROVE  Number(s, b) = v[n] /\ v[n] \in Nat
<1>1. PICK w \in [0 .. n -> Nat] : Counts(w, s, b, n) /\ Number(s, b) = w[n]
  BY NumberRow
<1>2. v[n] = w[n]
  BY <1>1, CountsOnce
<1> QED
  BY <1>1, <1>2

(* The digits of base b. *)
InBase(s, n, b) == s \in [1 .. n -> Nat] /\ \A i \in 1 .. n : s[i] < b

(* The number m with another digit x. *)
Then(m, x, b) == m * b + x

(* The last digit and what stands before it can be told from the number. *)
LEMMA LastDigit ==
  ASSUME NEW b \in Nat, NEW m \in Nat, NEW k \in Nat, NEW x \in Nat, NEW y \in Nat,
         x < b, y < b, Then(m, x, b) = Then(k, y, b)
  PROVE  m = k /\ x = y
<1>1. ASSUME NEW l \in Nat, NEW r \in Nat, NEW u \in Nat, NEW w \in Nat,
             u < b, w < b, l < r
      PROVE  l * b + u # r * b + w
  <2>1. r - l \in Nat /\ r - l >= 1
    BY <1>1
  <2>2. (r - l) * b >= b
    <3>1. (r - l) * b = b + ((r - l) - 1) * b
      BY <2>1
    <3>2. \A z \in Nat : z * b >= 0
      OBVIOUS
    <3>3. ((r - l) - 1) * b >= 0
      BY <2>1, <3>2
    <3> QED
      BY <2>1, <3>1, <3>3
  <2>3. r * b = l * b + (r - l) * b
    BY <2>1
  <2>4. l * b \in Nat /\ r * b \in Nat
    OBVIOUS
  <2> QED
    BY <1>1, <2>2, <2>3, <2>4
<1>2. m * b + x = k * b + y
  BY DEF Then
<1>3. m = k
  BY <1>1, <1>2
<1> QED
  BY <1>2, <1>3

(* As many digits that spell the same number are the same. *)
LEMMA SameDigits ==
  ASSUME NEW n \in Nat, NEW b \in Nat, NEW s, NEW t, InBase(s, n, b), InBase(t, n, b),
         Number(s, b) = Number(t, b)
  PROVE  s = t
<1>1. s \in [1 .. n -> Nat] /\ t \in [1 .. n -> Nat]
  BY DEF InBase
<1>2. PICK v \in [0 .. n -> Nat] : Counts(v, s, b, n) /\ Number(s, b) = v[n]
  BY <1>1, NumberRow
<1>3. PICK w \in [0 .. n -> Nat] : Counts(w, t, b, n) /\ Number(t, b) = w[n]
  BY <1>1, NumberRow
<1>4. ASSUME NEW i \in 1 .. n, v[i] = w[i] PROVE v[i - 1] = w[i - 1] /\ s[i] = t[i]
  <2>1. PICK m \in Nat : m = v[i - 1]
    OBVIOUS
  <2>2. PICK k \in Nat : k = w[i - 1]
    OBVIOUS
  <2>3. PICK x \in Nat : x = s[i] /\ x < b
    BY DEF InBase
  <2>4. PICK y \in Nat : y = t[i] /\ y < b
    BY DEF InBase
  <2>5. Then(m, x, b) = Then(k, y, b)
    BY <1>2, <1>3, <1>4, <2>1, <2>2, <2>3, <2>4 DEF Counts, Then
  <2>6. m = k /\ x = y
    BY <2>3, <2>4, <2>5, LastDigit
  <2> QED
    BY <2>1, <2>2, <2>3, <2>4, <2>6
<1> DEFINE K == {k \in 0 .. n : v[n - k] = w[n - k]}
<1>5. 0 \in K
  <2>1. v[n] = w[n]
    BY Zenon, <1>2, <1>3
  <2>2. n - 0 = n
    OBVIOUS
  <2> QED
    BY <2>1, <2>2
<1>6. ASSUME NEW k \in 0 .. n, k \in K, k < n PROVE k + 1 \in K
  <2>1. n - k \in 1 .. n /\ v[n - k] = w[n - k] /\ (n - k) - 1 = n - (k + 1)
    BY <1>6
  <2>2. v[n - (k + 1)] = w[n - (k + 1)]
    BY <1>4, <2>1
  <2> QED
    BY <1>6, <2>2
<1>7. 0 .. n \subseteq K
  <2> HIDE DEF K
  <2> QED
    BY <1>5, <1>6, SetInduction
<1>8. \A i \in 1 .. n : s[i] = t[i]
  <2> TAKE i \in 1 .. n
  <2>1. n - i \in 0 .. n /\ n - (n - i) = i
    OBVIOUS
  <2>2. v[i] = w[i]
    BY <1>7, <2>1
  <2> QED
    BY <1>4, <2>2
<1> QED
  BY <1>1, <1>8

(* q holds the powers of b. *)
Powers(q, b, m) == q[0] = 1 /\ \A i \in 1 .. m : q[i] = b * q[i - 1]

(* There are powers of any base but 0, and they are positive. *)
LEMMA PowerRow ==
  ASSUME NEW b \in Nat \ {0}, NEW m \in Nat
  PROVE  \E q \in [0 .. m -> Nat] : Powers(q, b, m) /\ \A i \in 0 .. m : q[i] > 0
<1> DEFINE P == Nat \ {0}
           step == [p \in (1 .. m) \X P |-> b * p[2]]
<1>1. step \in [(1 .. m) \X P -> P] /\ 1 \in P
  <2>1. \A x \in P : b * x \in P
    OBVIOUS
  <2> QED
    BY <2>1
<1>2. PICK q \in [0 .. m -> P] : Recursive(q, 1, step, m)
  <2> HIDE DEF step, P
  <2> QED
    BY <1>1, Recursion
<1>3. \A i \in 1 .. m : q[i] = b * q[i - 1]
  <2> TAKE i \in 1 .. m
  <2>1. q[i - 1] \in P
    OBVIOUS
  <2>2. step[<<i, q[i - 1]>>] = b * q[i - 1]
    BY <2>1
  <2> HIDE DEF step
  <2> QED
    BY <1>2, <2>2 DEF Recursive
<1>4. q[0] = 1
  BY <1>2 DEF Recursive
<1>5. q \in [0 .. m -> Nat] /\ \A i \in 0 .. m : q[i] > 0
  OBVIOUS
<1> QED
  BY <1>3, <1>4, <1>5 DEF Powers

(* A number m below p and another digit x of base b stay below b times p. *)
LEMMA ThenBelow ==
  ASSUME NEW b \in Nat, NEW m \in Nat, NEW p \in Nat, NEW x \in Nat, x < b, m < p
  PROVE  Then(m, x, b) < b * p
<1>1. p - m - 1 \in Nat
  OBVIOUS
<1>2. b * (p - m - 1) \in Nat
  BY <1>1
<1>3. b * p = b * (p - m - 1) + m * b + b
  BY <1>1
<1>4. m * b \in Nat
  OBVIOUS
<1> QED
  BY <1>2, <1>3, <1>4 DEF Then

(* n digits spell less than the n-th power. *)
LEMMA Below ==
  ASSUME NEW n \in Nat, NEW b \in Nat \ {0}, NEW s, InBase(s, n, b), NEW m \in Nat, n <= m,
         NEW q \in [0 .. m -> Nat], Powers(q, b, m),
         NEW v \in [0 .. n -> Nat], Counts(v, s, b, n)
  PROVE  v[n] < q[n]
<1> DEFINE K == {k \in 0 .. n : v[k] < q[k]}
<1>1. 0 \in K
  BY DEF Counts, Powers
<1>2. ASSUME NEW k \in 0 .. n, k \in K, k < n PROVE k + 1 \in K
  <2>1. k + 1 \in 1 .. n /\ k + 1 \in 1 .. m /\ (k + 1) - 1 = k /\ k \in 0 .. m /\ v[k] < q[k]
    BY <1>2
  <2>2. v[k + 1] = v[k] * b + s[k + 1] /\ q[k + 1] = b * q[k]
    BY <2>1 DEF Counts, Powers
  <2>3. s[k + 1] \in Nat /\ s[k + 1] < b /\ v[k] \in Nat /\ q[k] \in Nat
    BY <2>1 DEF InBase
  <2>4. v[k + 1] < q[k + 1]
    <3>1. PICK x \in Nat : x = v[k]
      BY <2>3
    <3>2. PICK y \in Nat : y = q[k]
      BY <2>3
    <3>3. PICK z \in Nat : z = s[k + 1]
      BY <2>3
    <3>4. Then(x, z, b) < b * y
      BY <2>1, <2>3, <3>1, <3>2, <3>3, ThenBelow
    <3> QED
      BY <2>2, <3>1, <3>2, <3>3, <3>4 DEF Then
  <2> QED
    BY <2>1, <2>4
<1>3. 0 .. n \subseteq K
  <2> HIDE DEF K
  <2> QED
    BY <1>1, <1>2, SetInduction
<1> QED
  BY <1>3

(* Quotient and remainder. *)
LEMMA Divides ==
  ASSUME NEW t \in Nat, NEW B \in Nat, B > 0
  PROVE  t = B * (t \div B) + (t % B) /\ t % B \in 0 .. B - 1 /\ t \div B \in Nat
OBVIOUS

(* What runs over and what is left make 58 times u and the carry r. *)
Carried(C, a, p, u, r) == a + C * p = 58 * u + r

(* A word x with the carry z is the word y with the carry r. *)
Divided(B, r, y, x, z) == B * r + y = 58 * x + z

(* One word of a number that is multiplied by 58. *)
LEMMA CarryOn ==
  ASSUME NEW B \in Nat, NEW C \in Nat, NEW a \in Nat, NEW p \in Nat, NEW u \in Nat,
         NEW x \in Nat, NEW y \in Nat, NEW r \in Nat, NEW z \in Nat,
         Carried(C, a, p, u, r), Divided(B, r, y, x, z)
  PROVE  Carried(C, Then(a, y, B), B * p, Then(u, x, B), z)
<1>1. a + C * p = 58 * u + r /\ B * r + y = 58 * x + z
  BY DEF Carried, Divided
<1>2. (a + C * p) * B = (58 * u + r) * B
  BY <1>1
<1>3. (a + C * p) * B = a * B + C * (B * p)
  OBVIOUS
<1>4. (58 * u + r) * B = 58 * (u * B) + B * r
  OBVIOUS
<1>5. (a * B + y) + C * (B * p) = 58 * (u * B + x) + z
  BY <1>1, <1>2, <1>3, <1>4
<1> QED
  BY <1>5 DEF Carried, Then

(* The first digit of a number of n digits, and what the rest can add. *)
LEMMA FirstDigit ==
  ASSUME NEW n \in Nat, n > 0, NEW b \in Nat, b > 0, NEW s, InBase(s, n, b),
         NEW q \in [0 .. n -> Nat], Powers(q, b, n)
  PROVE  s[1] * q[n - 1] <= Number(s, b)
<1>1. s \in [1 .. n -> Nat]
  BY DEF InBase
<1>2. PICK v \in [0 .. n -> Nat] : Counts(v, s, b, n) /\ Number(s, b) = v[n]
  BY <1>1, NumberRow
<1>3. PICK x \in Nat : x = s[1]
  BY <1>1
<1> DEFINE K == {i \in 0 .. n : i > 0 => x * q[i - 1] <= v[i]}
<1>4. 0 \in K
  OBVIOUS
<1>5. ASSUME NEW i \in 0 .. n, i \in K, i < n PROVE i + 1 \in K
  <2>1. i + 1 \in 1 .. n /\ (i + 1) - 1 = i /\ i + 1 \in 0 .. n
    BY <1>5
  <2>2. v[i + 1] = v[i] * b + s[i + 1]
    BY <1>2, <2>1 DEF Counts
  <2>3. CASE i = 0
    <3>1. v[0] = 0 /\ q[0] = 1 /\ v[1] = v[0] * b + s[1]
      BY <1>2, <2>1, <2>2, <2>3 DEF Counts, Powers
    <3>2. x * q[0] <= v[1]
      BY <1>3, <3>1
    <3> QED
      BY <2>1, <2>3, <3>2
  <2>4. CASE i > 0
    <3>1. i - 1 \in 0 .. n /\ i \in 1 .. n
      BY <2>4
    <3>2. q[i] = b * q[i - 1] /\ x * q[i - 1] <= v[i]
      BY <1>5, <2>4, <3>1 DEF Powers
    <3>3. PICK p \in Nat, m \in Nat, y \in Nat : p = q[i - 1] /\ m = v[i] /\ y = s[i + 1]
      BY <1>1, <2>1, <3>1
    <3>4. x * p <= m
      BY <3>2, <3>3
    <3>5. PICK d \in Nat : m = x * p + d
      <4>1. PICK z \in Nat : z = x * p
        OBVIOUS
      <4>2. m - z \in Nat /\ m = z + (m - z)
        BY <3>4, <4>1
      <4> QED
        BY <4>1, <4>2
    <3>6. m * b + y = x * (b * p) + (d * b + y)
      BY <3>5
    <3>7. d * b + y \in Nat /\ x * (b * p) \in Nat
      BY SMTT(30)
    <3>8. x * (b * p) <= m * b + y
      <4>1. PICK e \in Nat, f \in Nat : e = x * (b * p) /\ f = d * b + y
        BY <3>7
      <4>2. m * b + y = e + f /\ e <= e + f
        BY <3>6, <4>1
      <4> QED
        BY <4>1, <4>2
    <3>9. x * q[i] <= v[i + 1]
      BY <2>2, <3>2, <3>3, <3>8
    <3> QED
      BY <2>1, <3>9
  <2> QED
    BY <2>3, <2>4
<1>6. 0 .. n \subseteq K
  <2> HIDE DEF K
  <2> QED
    BY <1>4, <1>5, SetInduction
<1>7. n \in K
  BY <1>6
<1> QED
  BY <1>2, <1>3, <1>7

(* A power of b is b times the one before, and no less. *)
GrowsBy(q, b, i, j) == q[i] \in Nat /\ q[j] = b * q[i] /\ q[i] <= q[j]

(* The powers grow. *)
LEMMA PowersGrow ==
  ASSUME NEW m \in Nat, NEW b \in Nat, b > 0, NEW q \in [0 .. m -> Nat], Powers(q, b, m),
         NEW i \in Nat, NEW j \in Nat, j = i + 1, j <= m
  PROVE  GrowsBy(q, b, i, j)
<1>1. j \in 1 .. m /\ j - 1 = i /\ i \in 0 .. m /\ j \in 0 .. m
  OBVIOUS
<1>2. q[j] = b * q[i]
  BY <1>1 DEF Powers
<1>3. PICK x \in Nat : x = q[i]
  BY <1>1
<1>4. x <= b * x
  <2>1. PICK d \in Nat : b = d + 1
    <3>1. b - 1 \in Nat /\ b = (b - 1) + 1
      OBVIOUS
    <3> QED
      BY <3>1
  <2>2. b * x = d * x + x /\ d * x \in Nat
    BY <2>1
  <2> QED
    BY <2>2
<1> QED
  BY <1>2, <1>3, <1>4 DEF GrowsBy

(* What runs over, or a first word that is too large, is beyond n. *)
LEMMA Overflows ==
  ASSUME NEW k \in Nat, k > 0, NEW B \in Nat, B > 0, NEW w, InBase(w, k, B), NEW C \in Nat,
         NEW P \in [0 .. k -> Nat], Powers(P, B, k), NEW n \in Nat, NEW t \in Nat, n <= P[k],
         \/ C > 0
         \/ t <= w[1] /\ n <= t * P[k - 1]
  PROVE  n <= Number(w, B) + C * P[k]
<1>1. w \in [1 .. k -> Nat]
  BY DEF InBase
<1>2. PICK v \in [0 .. k -> Nat] : Counts(v, w, B, k) /\ Number(w, B) = v[k]
  BY <1>1, NumberRow
<1>3. PICK m \in Nat, p \in Nat : m = Number(w, B) /\ p = P[k]
  BY <1>2
<1>4. CASE C > 0
  <2>1. PICK d \in Nat : C = d + 1
    <3>1. C - 1 \in Nat /\ C = (C - 1) + 1
      BY <1>4
    <3> QED
      BY <3>1
  <2>2. C * p = d * p + p /\ d * p \in Nat
    BY <2>1
  <2>3. n <= p
    BY <1>3
  <2>4. n <= m + C * p
    <3>1. PICK e \in Nat : e = d * p
      BY <2>2
    <3>2. C * p = e + p
      BY <2>2, <3>1
    <3> QED
      BY <2>3, <3>2
  <2> QED
    BY <1>3, <2>4
<1>5. CASE t <= w[1] /\ n <= t * P[k - 1]
  <2>1. w[1] * P[k - 1] <= m
    BY <1>3, FirstDigit
  <2>2. k - 1 \in 0 .. k /\ 1 \in 1 .. k
    OBVIOUS
  <2>3. PICK x \in Nat : x = w[1]
    BY <1>1, <2>2
  <2>4. PICK y \in Nat : y = P[k - 1]
    BY <2>2
  <2>5. t <= x /\ n <= t * y /\ x * y <= m
    BY <1>5, <2>1, <2>3, <2>4
  <2>6. PICK d \in Nat : x = t + d
    <3>1. x - t \in Nat /\ x = t + (x - t)
      BY <2>5
    <3> QED
      BY <3>1
  <2>7. x * y = t * y + d * y /\ d * y \in Nat
    BY <2>6
  <2>8. PICK e \in Nat, f \in Nat : e = d * y /\ f = t * y
    BY <2>7
  <2>9. n <= f /\ f + e <= m
    BY <2>5, <2>7, <2>8
  <2>10. PICK g \in Nat : g = C * p
    OBVIOUS
  <2>11. n <= m + g
    BY <2>9
  <2> QED
    BY <1>3, <2>10, <2>11
<1> QED
  BY <1>4, <1>5

(* A word of four bytes. *)
LEMMA FourBytes ==
  ASSUME NEW x \in Nat, x < 4294967296
  PROVE  x = 16777216 * ((x \div 16777216) % 256) + 65536 * ((x \div 65536) % 256)
               + 256 * ((x \div 256) % 256) + (x % 256)
<1>1. PICK y \in Nat, d \in 0 .. 255 : y = x \div 256 /\ d = x % 256 /\ x = 256 * y + d
  BY SMT
<1>2. PICK z \in Nat, c \in 0 .. 255 : z = y \div 256 /\ c = y % 256 /\ y = 256 * z + c
  BY SMT
<1>3. PICK u \in Nat, b \in 0 .. 255 : u = z \div 256 /\ b = z % 256 /\ z = 256 * u + b
  BY SMT
<1>4. x = 65536 * z + 256 * c + d
  BY SMT, <1>1, <1>2
<1>5. x = 16777216 * u + 65536 * b + 256 * c + d
  BY SMT, <1>3, <1>4
<1>6. u \in 0 .. 255
  BY SMT, <1>5
<1>7. u = (x \div 16777216) % 256
  <2>1. x \div 16777216 = u
    BY SMT, <1>5
  <2> QED
    BY SMT, <1>6, <2>1
<1>8. b = (x \div 65536) % 256
  <2>1. x \div 65536 = z
    BY SMT, <1>4
  <2> QED
    BY SMT, <1>3, <2>1
<1>9. c = (x \div 256) % 256 /\ d = x % 256
  BY SMT, <1>1, <1>2
<1> QED
  BY SMT, <1>5, <1>7, <1>8, <1>9

(* ... and one of two. *)
LEMMA TwoBytes ==
  ASSUME NEW x \in Nat, x < 65536
  PROVE  x = 256 * ((x \div 256) % 256) + (x % 256)
OBVIOUS

(* t is s without the z zeros in front. *)
Shifted(s, t, z, n) == /\ s \in [1 .. z + n -> Nat] /\ t \in [1 .. n -> Nat]
                       /\ \A j \in 1 .. z : s[j] = 0
                       /\ \A j \in 1 .. n : t[j] = s[z + j]

(* They do not count. *)
LEMMA LeadingZeros ==
  ASSUME NEW z \in Nat, NEW n \in Nat, NEW b \in Nat, NEW s, NEW t, Shifted(s, t, z, n)
  PROVE  Number(t, b) = Number(s, b)
<1>1. /\ s \in [1 .. z + n -> Nat] /\ t \in [1 .. n -> Nat]
      /\ (\A j \in 1 .. z : s[j] = 0) /\ (\A j \in 1 .. n : t[j] = s[z + j])
  BY DEF Shifted
<1>2. PICK l \in Nat : l = z + n
  OBVIOUS
<1>3. PICK v \in [0 .. l -> Nat] : Counts(v, s, b, l) /\ Number(s, b) = v[l]
  <2>1. s \in [1 .. l -> Nat]
    BY <1>1, <1>2
  <2> QED
    BY <2>1, NumberRow
<1> DEFINE K == {j \in 0 .. z : v[j] = 0}
<1>4. 0 \in K
  BY <1>3 DEF Counts
<1>5. ASSUME NEW j \in 0 .. z, j \in K, j < z PROVE j + 1 \in K
  <2>1. j + 1 \in 1 .. l /\ j + 1 \in 1 .. z /\ (j + 1) - 1 = j /\ v[j] = 0
    BY <1>2, <1>5
  <2>2. v[j + 1] = v[j] * b + s[j + 1] /\ s[j + 1] = 0
    BY <1>1, <1>3, <2>1 DEF Counts
  <2> QED
    BY <2>1, <2>2
<1>6. 0 .. z \subseteq K
  <2> HIDE DEF K
  <2> QED
    BY <1>4, <1>5, SetInduction
<1>7. v[z] = 0
  BY <1>6
<1> DEFINE u == [j \in 0 .. n |-> v[z + j]]
<1>8. \A i \in 1 .. n : u[i] = u[i - 1] * b + t[i]
  <2> TAKE i \in 1 .. n
  <2>1. z + i \in 1 .. l /\ (z + i) - 1 = z + (i - 1) /\ i - 1 \in 0 .. n /\ i \in 0 .. n
    BY <1>2
  <2>2. v[z + i] = v[z + (i - 1)] * b + s[z + i]
    BY <1>3, <2>1 DEF Counts
  <2>3. u[i] = v[z + i] /\ u[i - 1] = v[z + (i - 1)] /\ t[i] = s[z + i]
    BY <1>1, <2>1
  <2> QED
    BY <2>2, <2>3
<1>9. u[0] = 0 /\ u[n] = v[l]
  BY <1>2, <1>7
<1>10. Counts(u, t, b, n)
  BY <1>8, <1>9 DEF Counts
<1> HIDE DEF u
<1>11. Number(t, b) = u[n]
  BY ZenonT(60), <1>1, <1>10, NumberIs
<1> QED
  BY <1>3, <1>9, <1>11

(* s and one more digit x. *)
Longer(s, t, x, n) ==
  t \in [1 .. n + 1 -> Nat] /\ (\A i \in 1 .. n : t[i] = s[i]) /\ t[n + 1] = x

(* The number of digits and one more. *)
LEMMA NumberOfLonger ==
  ASSUME NEW n \in Nat, NEW s \in [1 .. n -> Nat], NEW t, NEW x \in Nat, Longer(s, t, x, n),
         NEW b \in Nat
  PROVE  Number(t, b) = Then(Number(s, b), x, b)
<1>1. PICK k \in Nat : k = n + 1
  OBVIOUS
<1>2. t \in [1 .. k -> Nat] /\ (\A i \in 1 .. n : t[i] = s[i]) /\ t[k] = x
  BY <1>1 DEF Longer
<1>3. PICK w \in [0 .. k -> Nat] : Counts(w, t, b, k) /\ Number(t, b) = w[k]
  BY <1>2, NumberRow
<1>4. Counts(w, s, b, n)
  BY <1>1, <1>2, <1>3 DEF Counts
<1>5. Number(s, b) = w[n]
  BY <1>4, NumberIs
<1>6. w[k] = w[n] * b + x
  BY <1>1, <1>2, <1>3 DEF Counts
<1> QED
  BY <1>3, <1>5, <1>6 DEF Then
=============================================================================

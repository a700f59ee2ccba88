---------------------------- MODULE PayoutProofs ---------------------------
(***************************************************************************)
(* Proofs about Payout: whatever the address files, the options, the       *)
(* templates and the number of blocks accepted, the miners are started     *)
(* with what they need and pay an address that was loaded, in a coinbase   *)
(* that a node accepts and under the merkle root of the whole block; and   *)
(* whatever the text, base58 decodes to the number that it spells, and the *)
(* values of a bech32 address to theirs.                                   *)
(***************************************************************************)
EXTENDS Payout, Recursion, SequenceTheorems, TLAPS

-----------------------------------------------------------------------------
(* The address file. *)

(* Where fgets stops in what is left of the file. *)
Cut(text) ==
  LET nl  == SelectInSeq(text, LAMBDA ch : ch = 10)
      end == IF nl = 0 THEN Len(text) ELSE nl
  IN  IF end < LineSize THEN end ELSE LineSize - 1

(* ... and what it leaves. *)
Rest(text) == SubSeq(text, Cut(text) + 1, Len(text))

(* It reads something as long as something is left. *)
LEMMA CutProgress ==
  ASSUME NEW text \in Seq(Nat), text # <<>>
  PROVE  /\ Cut(text) \in 1 .. Len(text)
         /\ Rest(text) \in Seq(Nat) /\ Len(Rest(text)) < Len(text)
         /\ SubSeq(text, 1, Cut(text)) \in Seq(Nat)
<1> DEFINE I == {i \in 1 .. Len(text) : text[i] = 10}
           nl == SelectInSeq(text, LAMBDA ch : ch = 10)
<1>1. nl = IF I # {} THEN CHOOSE x \in I : \A y \in I : x =< y ELSE 0
  BY Zenon DEF SelectInSeq, Min
<1>2. Len(text) \in Nat /\ Len(text) > 0
  OBVIOUS
<1>3. nl \in 0 .. Len(text)
  <2>1. CASE I = {}
    BY <1>1, <1>2, <2>1
  <2>2. CASE I # {}
    <3>1. I \in SUBSET Nat
      OBVIOUS
    <3>2. \E x \in I : \A y \in I : x =< y
      <4> HIDE DEF I
      <4> QED
        BY <2>2, <3>1, LeastNumber
    <3>3. nl \in I
      <4> HIDE DEF I, nl
      <4> QED
        BY <1>1, <2>2, <3>2
    <3> QED
      BY <3>3
  <2> QED
    BY <2>1, <2>2
<1>4. LineSize \in Nat /\ LineSize > 1
  BY StartupAssumption
<1>5. Cut(text) = IF (IF nl = 0 THEN Len(text) ELSE nl) < LineSize
                  THEN IF nl = 0 THEN Len(text) ELSE nl ELSE LineSize - 1
  BY Zenon DEF Cut
<1> HIDE DEF nl
<1>6. Cut(text) \in 1 .. Len(text)
  BY <1>2, <1>3, <1>4, <1>5
<1>7. Rest(text) \in Seq(Nat) /\ Len(Rest(text)) = Len(text) - Cut(text)
  <2>1. \A i \in Cut(text) + 1 .. Len(text) : text[i] \in Nat
    BY <1>6
  <2> QED
    BY SMTT(60), <1>2, <1>6, <2>1, SubSeqProperties DEF Rest
<1>8. SubSeq(text, 1, Cut(text)) \in Seq(Nat)
  <2>1. \A i \in 1 .. Cut(text) : text[i] \in Nat
    BY <1>2, <1>6
  <2> QED
    BY <1>6, <2>1, SubSeqProperties
<1> QED
  BY <1>2, <1>6, <1>7, <1>8

(* A function that reads line after line makes a sequence of lines. *)
LEMMA LinesTyped ==
  ASSUME NEW F,
         \A t \in Seq(Nat) : F[t] = IF t = <<>> THEN <<>>
                                    ELSE <<SubSeq(t, 1, Cut(t))>> \o F[Rest(t)]
  PROVE  \A t \in Seq(Nat) : F[t] \in Seq(Seq(Nat))
<1> DEFINE K == {n \in Nat : \A t \in Seq(Nat) : Len(t) <= n => F[t] \in Seq(Seq(Nat))}
<1>1. 0 \in K
  <2>1. \A t \in Seq(Nat) : Len(t) <= 0 => t = <<>>
    OBVIOUS
  <2>2. <<>> \in Seq(Nat) /\ <<>> \in Seq(Seq(Nat))
    OBVIOUS
  <2> QED
    BY <2>1, <2>2
<1>2. ASSUME NEW n \in Nat, n \in K PROVE n + 1 \in K
  <2> SUFFICES ASSUME NEW t \in Seq(Nat), Len(t) <= n + 1 PROVE F[t] \in Seq(Seq(Nat))
    OBVIOUS
  <2>1. CASE t = <<>>
    <3>1. <<>> \in Seq(Nat) /\ <<>> \in Seq(Seq(Nat))
      OBVIOUS
    <3> QED
      BY <2>1, <3>1
  <2>2. CASE t # <<>>
    <3>1. /\ Rest(t) \in Seq(Nat) /\ Len(Rest(t)) < Len(t)
          /\ SubSeq(t, 1, Cut(t)) \in Seq(Nat)
      BY <2>2, CutProgress
    <3>2. Len(Rest(t)) <= n
      BY <3>1
    <3>3. F[Rest(t)] \in Seq(Seq(Nat))
      BY <1>2, <3>1, <3>2
    <3>4. <<SubSeq(t, 1, Cut(t))>> \in Seq(Seq(Nat))
      BY <3>1
    <3>5. <<SubSeq(t, 1, Cut(t))>> \o F[Rest(t)] \in Seq(Seq(Nat))
      BY <3>3, <3>4, ConcatProperties
    <3> QED
      BY <2>2, <3>5
  <2> QED
    BY <2>1, <2>2
<1> SUFFICES ASSUME NEW t \in Seq(Nat) PROVE F[t] \in Seq(Seq(Nat))
  OBVIOUS
<1>3. 0 .. Len(t) \subseteq K
  <2> HIDE DEF K
  <2>1. Len(t) \in Nat /\ \A k \in 0 .. Len(t) : k \in K /\ k < Len(t) => k + 1 \in K
    BY <1>2
  <2> QED
    BY <1>1, <2>1, SetInduction
<1>4. Len(t) \in K
  <2>1. Len(t) \in 0 .. Len(t)
    OBVIOUS
  <2> HIDE DEF K
  <2> QED
    BY <1>3, <2>1
<1> QED
  BY <1>4

(* A file has finitely many lines. *)
LEMMA FgetsLines ==
  ASSUME NEW text \in Seq(Nat)
  PROVE  fgets[text] \in Seq(Seq(Nat))
<1> DEFINE D == Seq(Nat)
           S == Seq(Seq(Nat))
           rank == [t \in D |-> Len(t)]
           rest == [t \in D |-> IF t = <<>> THEN t ELSE Rest(t)]
           step == [p \in D \X S |-> IF p[1] = <<>> THEN <<>> 
                                     ELSE <<SubSeq(p[1], 1, Cut(p[1]))>> \o p[2]]
           Reads(g) == g = [t \in D |-> IF t = <<>> THEN <<>>
                              ELSE <<SubSeq(t, 1, Cut(t))>> \o g[Rest(t)]]
<1>1. rank \in [D -> Nat] /\ <<>> \in S
  OBVIOUS
<1>2. rest \in [D -> D]
  BY CutProgress
<1>3. ASSUME NEW t \in D, rank[t] # 0 PROVE rank[rest[t]] < rank[t]
  BY <1>3, CutProgress
<1>4. step \in [D \X S -> S]
  <2> SUFFICES ASSUME NEW t \in D, NEW ls \in S
               PROVE  (IF t = <<>> THEN <<>> ELSE <<SubSeq(t, 1, Cut(t))>> \o ls) \in S
    OBVIOUS
  <2>1. CASE t = <<>>
    BY <2>1
  <2>2. CASE t # <<>>
    <3>1. <<SubSeq(t, 1, Cut(t))>> \in S
      BY <2>2, CutProgress
    <3> QED
      BY <2>2, <3>1
  <2> QED
    BY <2>1, <2>2
<1>5. PICK G \in [D -> S] : Descends(G, D, rank, rest, <<>>, step)
  <2> HIDE DEF D, S, rank, rest, step
  <2> QED
    BY <1>1, <1>2, <1>3, <1>4, Descent
<1>6. ASSUME NEW t \in D
      PROVE  G[t] = IF t = <<>> THEN <<>> ELSE <<SubSeq(t, 1, Cut(t))>> \o G[Rest(t)]
  <2>1. G[t] = IF rank[t] = 0 THEN <<>> ELSE step[<<t, G[rest[t]]>>]
    <3> HIDE DEF D, rank, rest, step
    <3> QED
      BY <1>5 DEF Descends
  <2>2. CASE t = <<>>
    BY <2>1, <2>2
  <2>3. CASE t # <<>>
    <3>1. rank[t] # 0 /\ rest[t] = Rest(t)
      BY <2>3
    <3>2. Rest(t) \in D
      BY <2>3, CutProgress
    <3>3. G[Rest(t)] \in S
      BY <1>5, <3>2
    <3>4. step[<<t, G[Rest(t)]>>] = <<SubSeq(t, 1, Cut(t))>> \o G[Rest(t)]
      <4>1. <<t, G[Rest(t)]>> \in D \X S
        BY <3>3
      <4> QED
        BY <2>3, <4>1
    <3> HIDE DEF D, S, rank, rest, step
    <3> QED
      BY <2>1, <2>3, <3>1, <3>4
  <2> QED
    BY <2>2, <2>3
<1>7. Reads(G)
  <2> HIDE DEF S
  <2> QED
    BY <1>5, <1>6
<1>8. fgets = CHOOSE g : Reads(g)
  BY Zenon DEF fgets, Cut, Rest
<1>9. Reads(fgets)
  <2> HIDE DEF Reads
  <2> QED
    BY <1>7, <1>8
<1>10. \A t \in D : fgets[t] = IF t = <<>> THEN <<>>
                              ELSE <<SubSeq(t, 1, Cut(t))>> \o fgets[Rest(t)]
  BY <1>9
<1> HIDE DEF D, S, Reads
<1> QED
  BY <1>10, LinesTyped DEF D

(* s has n elements, all of them in U. *)
Long(s, U, n) == s \in Seq(U) /\ Len(s) = n

(* A function on 1 .. n is a sequence of n elements. *)
LEMMA LongFunction ==
  ASSUME NEW U, NEW n \in Nat, NEW s \in [1 .. n -> U]
  PROVE  Long(s, U, n)
BY DEF Long

(* One behind the other. *)
LEMMA LongConcat ==
  ASSUME NEW U, NEW a, NEW b, NEW k \in Nat, NEW l \in Nat, Long(a, U, k), Long(b, U, l)
  PROVE  Long(a \o b, U, k + l)
<1>1. a \in Seq(U) /\ b \in Seq(U)
  BY DEF Long
<1>2. a \o b \in Seq(U) /\ Len(a \o b) = Len(a) + Len(b)
  BY <1>1
<1> QED
  BY <1>2, Zenon DEF Long

(* A script: pk_script has room for it, and it is longer than its opcodes. *)
IsScript(s) == \E U : \E n \in 4 .. PkSize : Long(s, U, n)

(* Whatever the text, address_to_script makes nothing of it or a script of  *)
(* 4 to 42 bytes: the copies that select_random_address and share_result    *)
(* make of it stay within pk_script.                                        *)
THEOREM ScriptFits ==
  ASSUME NEW addr
  PROVE  address_to_script(PkSize, addr) # <<>> => IsScript(address_to_script(PkSize, addr))
<1>1. ASSUME NEW bin, NEW ver, b58_script(bin, ver) # <<>>
      PROVE  IsScript(b58_script(bin, ver))
  <2> DEFINE hash == SubSeq(bin, 2, 21)
             U == {bin[i] : i \in 2 .. 21} \cup Nat
             p2sh == <<169, 20>>
             equal == <<135>>
             p2pkh == <<118, 169, 20>>
             checksig == <<136, 172>>
  <2>1. Long(hash, U, 20)
    <3>1. \A i \in 2 .. 21 : bin[i] \in U
      OBVIOUS
    <3> HIDE DEF U
    <3> QED
      BY <3>1, SubSeqProperties DEF Long
  <2>2. Long(p2sh, U, 2) /\ Long(equal, U, 1) /\ Long(p2pkh, U, 3) /\ Long(checksig, U, 2)
    <3>1. 118 \in U /\ 169 \in U /\ 20 \in U /\ 136 \in U /\ 172 \in U /\ 135 \in U
      OBVIOUS
    <3> HIDE DEF U
    <3> QED
      BY <3>1 DEF Long
  <2>3. b58_script(bin, ver) \in {p2sh \o hash \o equal, p2pkh \o hash \o checksig}
    BY <1>1 DEF b58_script
  <2> HIDE DEF hash, U, p2sh, equal, p2pkh, checksig
  <2>4. Long(p2sh \o hash \o equal, U, 23)
    <3>1. Long(p2sh \o hash, U, 2 + 20)
      BY <2>1, <2>2, LongConcat
    <3>2. 2 + 20 = 22 /\ 22 + 1 = 23
      OBVIOUS
    <3> QED
      BY <2>2, <3>1, <3>2, LongConcat
  <2>5. Long(p2pkh \o hash \o checksig, U, 25)
    <3>1. Long(p2pkh \o hash, U, 3 + 20)
      BY <2>1, <2>2, LongConcat
    <3>2. 3 + 20 = 23 /\ 23 + 2 = 25
      OBVIOUS
    <3> QED
      BY <2>2, <3>1, <3>2, LongConcat
  <2>6. 23 \in 4 .. PkSize /\ 25 \in 4 .. PkSize
    BY DEF PkSize
  <2> QED
    BY <2>3, <2>4, <2>5, <2>6 DEF IsScript
<1>2. ASSUME NEW values, NEW bytes, witness_script(PkSize, values, bytes) # <<>>
      PROVE  IsScript(witness_script(PkSize, values, bytes))
  <2> DEFINE ver == IF values.data[1] # 0 THEN 80 + values.data[1] ELSE 0
             s == <<ver, Len(bytes.out)>> \o bytes.out
  <2>1. PICK n \in 2 .. 40 : n = Len(bytes.out)
    BY <1>2 DEF witness_script, segwit_addr_decode
  <2> DEFINE U == {s[i] : i \in 1 .. 2 + n}
  <2>2. witness_script(PkSize, values, bytes) = s
    BY <1>2 DEF witness_script
  <2>3. s = [i \in 1 .. 2 + n |-> IF i <= 2 THEN <<ver, n>>[i] ELSE bytes.out[i - 2]]
    <3> DEFINE out == bytes.out
    <3> HIDE DEF ver, out
    <3> QED
      BY <2>1 DEF out
  <2> HIDE DEF s
  <2>4. s \in [1 .. 2 + n -> U]
    BY <2>3
  <2> HIDE DEF U
  <2>5. Long(s, U, 2 + n)
    BY <2>4 DEF Long
  <2>6. 2 + n \in 4 .. PkSize
    BY DEF PkSize
  <2> QED
    BY <2>2, <2>5, <2>6 DEF IsScript
<1> QED
  BY <1>1, <1>2 DEF address_to_script, script_of, bech32_to_script, script_of_values

(* Every address that is loaded is a script. *)
LEMMA LoadsScripts ==
  ASSUME NEW text \in Seq(Nat)
  PROVE  \E T : /\ \A s \in T : IsScript(s)
                /\ load_addresses_from_file(text) \in Seq(T)
<1> DEFINE lines == fgets[text]
           m == Len(lines)
           script(i) == IF trim(lines[i]) = <<>> THEN <<>>
                        ELSE address_to_script(PkSize, trim(lines[i]))
           T == {script(i) : i \in 1 .. m} \ {<<>>}
           Keep(i, r) == IF script(i) = <<>> THEN r ELSE Append(r, script(i))
           step == [p \in (1 .. m) \X Seq(T) |-> Keep(p[1], p[2])]
           Loads(g) == g = [i \in 0 .. m |-> IF i = 0 THEN <<>> ELSE Keep(i, g[i - 1])]
           loaded == CHOOSE g : Loads(g)
<1>1. m \in Nat
  BY FgetsLines
<1>2. load_addresses_from_file(text) = loaded[m]
  BY Zenon DEF load_addresses_from_file
<1>3. \A s \in T : IsScript(s)
  BY ScriptFits
<1> HIDE DEF m
<1>4. ASSUME NEW i \in 1 .. m, NEW r \in Seq(T) PROVE Keep(i, r) \in Seq(T)
  <2>1. CASE script(i) = <<>>
    BY <2>1
  <2>2. CASE script(i) # <<>>
    <3>1. script(i) \in T
      BY <2>2
    <3> HIDE DEF T, script
    <3> QED
      BY <2>2, <3>1
  <2> QED
    BY <2>1, <2>2
<1> HIDE DEF script, T
<1>5. step \in [(1 .. m) \X Seq(T) -> Seq(T)]
  BY <1>4
<1>6. PICK g \in [0 .. m -> Seq(T)] : Recursive(g, <<>>, step, m)
  <2>1. <<>> \in Seq(T)
    OBVIOUS
  <2> HIDE DEF step
  <2> QED
    BY <1>1, <1>5, <2>1, Recursion
<1>7. \A i \in 0 .. m : g[i] = IF i = 0 THEN <<>> ELSE Keep(i, g[i - 1])
  <2> TAKE i \in 0 .. m
  <2>1. CASE i = 0
    BY <1>6, <2>1 DEF Recursive
  <2>2. CASE i # 0
    <3>1. i \in 1 .. m /\ g[i - 1] \in Seq(T)
      BY <1>1, <1>6, <2>2
    <3>2. <<i, g[i - 1]>> \in (1 .. m) \X Seq(T)
      BY <3>1
    <3> HIDE DEF Keep
    <3>3. step[<<i, g[i - 1]>>] = Keep(i, g[i - 1])
      BY <3>2
    <3> HIDE DEF step
    <3> QED
      BY <1>6, <2>2, <3>1, <3>3 DEF Recursive
  <2> QED
    BY <2>1, <2>2
<1> HIDE DEF Keep
<1>8. Loads(loaded)
  <2>1. Loads(g)
    BY <1>6, <1>7
  <2> HIDE DEF Loads
  <2> QED
    BY <2>1
<1> HIDE DEF loaded
<1>9. \A i \in 0 .. m : loaded[i] = IF i = 0 THEN <<>> ELSE Keep(i, loaded[i - 1])
  BY <1>8
<1> DEFINE K == {i \in 0 .. m : loaded[i] \in Seq(T)}
<1>10. 0 .. m \subseteq K
  <2>1. 0 \in K
    <3>1. 0 \in 0 .. m /\ <<>> \in Seq(T)
      BY <1>1
    <3> QED
      BY <1>9, <3>1
  <2>2. ASSUME NEW i \in 0 .. m, i \in K, i < m PROVE i + 1 \in K
    <3>1. i + 1 \in 1 .. m /\ loaded[i] \in Seq(T) /\ (i + 1) - 1 = i
      BY <1>1, <2>2
    <3>2. loaded[i + 1] = Keep(i + 1, loaded[i])
      BY <1>9, <3>1
    <3> QED
      BY <1>4, <3>1, <3>2
  <2> HIDE DEF K
  <2> QED
    BY <1>1, <2>1, <2>2, SetInduction
<1>11. loaded[m] \in Seq(T)
  BY <1>1, <1>10
<1> QED
  BY <1>2, <1>3, <1>11

-----------------------------------------------------------------------------
(* The rows of a tree of hashes. *)

(* A set that has the hash of any two of its members. *)
Closed(V) == \A l, r \in V : Pair(l, r) \in V

(* Hashes can be hashed again and again without leaving a set.              *)
LEMMA ClosedSet ==
  ASSUME NEW X
  PROVE  \E V : X \subseteq V /\ Closed(V)
<1> DEFINE Grow(W) == W \cup {Pair(p[1], p[2]) : p \in W \X W}
           Grows(g, m) == g[0] = X /\ \A i \in 1 .. m : g[i] = Grow(g[i - 1])
           K == {m \in Nat : \E g : Grows(g, m)}
           some(m) == CHOOSE g : Grows(g, m)
           G == [m \in Nat |-> some(m)[m]]
<1>1. 0 \in K
  <2>1. Grows([i \in {0} |-> X], 0)
    OBVIOUS
  <2> QED
    BY <2>1
<1>2. ASSUME NEW m \in Nat, m \in K PROVE m + 1 \in K
  <2>1. PICK g : Grows(g, m)
    BY <1>2
  <2> DEFINE h == [i \in 0 .. m + 1 |-> IF i <= m THEN g[i] ELSE Grow(g[m])]
  <2> HIDE DEF Grow
  <2>2. h[0] = X
    BY <2>1
  <2>3. ASSUME NEW i \in 1 .. m + 1 PROVE h[i] = Grow(h[i - 1])
    <3>1. CASE i = m + 1
      BY <3>1
    <3>2. CASE i # m + 1
      BY <2>1, <3>2
    <3> QED
      BY <3>1, <3>2
  <2> HIDE DEF h
  <2>4. Grows(h, m + 1)
    BY <2>2, <2>3
  <2> HIDE DEF Grows
  <2> QED
    BY <2>4
<1>3. \A m \in Nat : Grows(some(m), m)
  <2> TAKE m \in Nat
  <2>1. 0 .. m \subseteq K
    <3>1. \A k \in 0 .. m : k \in K /\ k < m => k + 1 \in K
      BY <1>2
    <3> HIDE DEF K
    <3> QED
      BY <1>1, <3>1, SetInduction
  <2>2. m \in K
    <3>1. m \in 0 .. m
      OBVIOUS
    <3> HIDE DEF K
    <3> QED
      BY <2>1, <3>1
  <2> HIDE DEF Grows
  <2> QED
    BY <2>2
<1> HIDE DEF some, K, Grow
<1>4. ASSUME NEW m \in Nat PROVE G[m + 1] = Grow(G[m])
  <2> DEFINE g == some(m + 1)
             h == some(m)
             A == {k \in Nat : g[k] = h[k]}
  <2>1. Grows(g, m + 1) /\ Grows(h, m)
    BY <1>3
  <2> HIDE DEF g, h
  <2>2. 0 .. m \subseteq A
    <3>1. 0 \in A
      BY <2>1
    <3>2. \A k \in 0 .. m : k \in A /\ k < m => k + 1 \in A
      <4> SUFFICES ASSUME NEW k \in 0 .. m, k \in A, k < m PROVE k + 1 \in A
        OBVIOUS
      <4>1. k + 1 \in 1 .. m + 1 /\ k + 1 \in 1 .. m /\ (k + 1) - 1 = k
        OBVIOUS
      <4>2. g[k + 1] = Grow(g[k]) /\ h[k + 1] = Grow(h[k])
        BY <2>1, <4>1
      <4> QED
        BY <4>2
    <3> HIDE DEF A
    <3> QED
      BY <3>1, <3>2, SetInduction
  <2>3. g[m] = h[m]
    BY <2>2
  <2>4. g[m + 1] = Grow(g[m])
    <3>1. m + 1 \in 1 .. m + 1 /\ (m + 1) - 1 = m
      OBVIOUS
    <3> QED
      BY <2>1, <3>1
  <2>5. G[m + 1] = g[m + 1] /\ G[m] = h[m]
    BY DEF g, h
  <2> QED
    BY <2>3, <2>4, <2>5
<1>5. G[0] = X
  BY <1>3
<1> HIDE DEF G, Grows
<1>6. \A a, b \in Nat : a <= b => G[a] \subseteq G[b]
  <2> TAKE a, b \in Nat
  <2> HAVE a <= b
  <2> DEFINE A == {k \in Nat : G[a] \subseteq G[a + k]}
  <2>1. 0 \in A
    OBVIOUS
  <2>2. \A k \in 0 .. b - a : k \in A /\ k < b - a => k + 1 \in A
    <3> SUFFICES ASSUME NEW k \in 0 .. b - a, k \in A PROVE k + 1 \in A
      OBVIOUS
    <3>1. a + k \in Nat /\ a + (k + 1) = (a + k) + 1 /\ k + 1 \in Nat
      OBVIOUS
    <3>2. G[a + k] \subseteq G[(a + k) + 1]
      BY <1>4, <3>1 DEF Grow
    <3> QED
      BY <3>1, <3>2
  <2>3. 0 .. b - a \subseteq A
    <3>1. b - a \in Nat
      OBVIOUS
    <3> HIDE DEF A
    <3> QED
      BY <2>1, <2>2, <3>1, SetInduction
  <2>4. b - a \in A /\ a + (b - a) = b
    <3>1. b - a \in 0 .. b - a
      OBVIOUS
    <3> HIDE DEF A
    <3> QED
      BY <2>3, <3>1
  <2> QED
    BY <2>4
<1> DEFINE V == UNION {G[m] : m \in Nat}
<1>7. X \subseteq V
  BY <1>5
<1>8. ASSUME NEW l \in V, NEW r \in V PROVE Pair(l, r) \in V
  <2>1. PICK a \in Nat : l \in G[a]
    OBVIOUS
  <2>2. PICK b \in Nat : r \in G[b]
    OBVIOUS
  <2>3. PICK c \in Nat : a <= c /\ b <= c
    <3>1. CASE a <= b
      BY <3>1
    <3>2. CASE b <= a
      BY <3>2
    <3> QED
      BY <3>1, <3>2
  <2>4. l \in G[c] /\ r \in G[c]
    BY <1>6, <2>1, <2>2, <2>3
  <2>5. Pair(l, r) \in G[c + 1]
    <3>1. <<l, r>> \in G[c] \X G[c]
      BY <2>4
    <3>2. Pair(l, r) \in {Pair(p[1], p[2]) : p \in G[c] \X G[c]}
      BY <3>1
    <3> QED
      BY <1>4, <3>2 DEF Grow
  <2> QED
    BY <2>5
<1> QED
  BY <1>7, <1>8 DEF Closed

(* The rows of the buffer. *)
Rows(R, V) == [0 .. R - 1 -> V]

(* hash_rows reads every row before it is overwritten, and leaves the rest. *)
LEMMA HashedRows ==
  ASSUME NEW V, Closed(V), NEW R \in Nat, NEW tree \in Rows(R, V), NEW n \in Nat, 2 * n <= R
  PROVE  /\ hash_rows(tree, n) \in Rows(R, V)
         /\ \A j \in 0 .. R - 1 :
              hash_rows(tree, n)[j] = IF j < n THEN Pair(tree[2 * j], tree[2 * j + 1]) ELSE tree[j]
<1> DEFINE S == Rows(R, V)
           Hash(i, t) == [t EXCEPT ![i - 1] = Pair(t[2 * (i - 1)], t[2 * (i - 1) + 1])]
           step == [p \in (1 .. n) \X S |-> Hash(p[1], p[2])]
           Hashes(g) == g = [i \in 0 .. n |-> IF i = 0 THEN tree ELSE Hash(i, g[i - 1])]
           hashed == CHOOSE g : Hashes(g)
<1>1. hash_rows(tree, n) = hashed[n]
  BY Zenon DEF hash_rows
<1>2. ASSUME NEW i \in 1 .. n, NEW t \in S PROVE Hash(i, t) \in S
  <2>1. 2 * (i - 1) \in 0 .. R - 1 /\ 2 * (i - 1) + 1 \in 0 .. R - 1
    OBVIOUS
  <2>2. Pair(t[2 * (i - 1)], t[2 * (i - 1) + 1]) \in V
    BY <2>1 DEF Rows, Closed
  <2> QED
    BY <2>2 DEF Rows
<1> HIDE DEF S
<1>3. step \in [(1 .. n) \X S -> S]
  <2> HIDE DEF Hash
  <2> QED
    BY <1>2
<1>4. PICK g \in [0 .. n -> S] : Recursive(g, tree, step, n)
  <2>1. tree \in S
    BY DEF S
  <2> HIDE DEF step
  <2> QED
    BY <1>3, <2>1, Recursion
<1> HIDE DEF Hash
<1>5. \A i \in 0 .. n : g[i] = IF i = 0 THEN tree ELSE Hash(i, g[i - 1])
  <2> TAKE i \in 0 .. n
  <2>1. CASE i = 0
    BY <1>4, <2>1 DEF Recursive
  <2>2. CASE i # 0
    <3>1. i \in 1 .. n /\ g[i - 1] \in S
      BY <1>4, <2>2
    <3>2. step[<<i, g[i - 1]>>] = Hash(i, g[i - 1])
      BY <3>1
    <3> HIDE DEF step
    <3> QED
      BY <1>4, <2>2, <3>1, <3>2 DEF Recursive
  <2> QED
    BY <2>1, <2>2
<1>6. Hashes(hashed)
  <2>1. Hashes(g)
    BY <1>4, <1>5
  <2> HIDE DEF Hashes
  <2> QED
    BY <2>1
<1> HIDE DEF hashed
<1>7. \A i \in 0 .. n : hashed[i] = IF i = 0 THEN tree ELSE Hash(i, hashed[i - 1])
  BY <1>6
<1> DEFINE Done(t, i) == \A j \in 0 .. R - 1 :
                           t[j] = IF j < i THEN Pair(tree[2 * j], tree[2 * j + 1]) ELSE tree[j]
           K == {i \in Nat : hashed[i] \in S /\ Done(hashed[i], i)}
<1>8. 0 \in K
  <2>1. hashed[0] = tree
    BY <1>7
  <2>2. Done(tree, 0)
    OBVIOUS
  <2> HIDE DEF Done
  <2> QED
    BY <2>1, <2>2 DEF S
<1>9. ASSUME NEW i \in 0 .. n, i \in K, i < n PROVE i + 1 \in K
  <2> DEFINE t == hashed[i]
             u == hashed[i + 1]
  <2>1. t \in S /\ Done(t, i)
    BY <1>9
  <2>2. i + 1 \in 1 .. n /\ (i + 1) - 1 = i
    BY <1>9
  <2>3. u = Hash(i + 1, t)
    BY <1>7, <2>2
  <2>4. u \in S
    BY <1>2, <2>1, <2>2, <2>3
  <2> HIDE DEF t, u
  <2>5. u = [t EXCEPT ![i] = Pair(t[2 * i], t[2 * i + 1])]
    BY <2>2, <2>3 DEF Hash
  <2>6. 2 * i \in 0 .. R - 1 /\ 2 * i + 1 \in 0 .. R - 1 /\ ~ 2 * i < i /\ ~ 2 * i + 1 < i
    BY <1>9
  <2>7. t[2 * i] = tree[2 * i] /\ t[2 * i + 1] = tree[2 * i + 1]
    BY <2>1, <2>6
  <2>8. ASSUME NEW j \in 0 .. R - 1
        PROVE  u[j] = IF j < i + 1 THEN Pair(tree[2 * j], tree[2 * j + 1]) ELSE tree[j]
    <3> DOMAIN t = 0 .. R - 1
      BY <2>1 DEF S, Rows
    <3>1. CASE j = i
      BY <2>5, <2>7, <3>1
    <3>2. CASE j < i
      BY <2>1, <2>5, <3>2
    <3>3. CASE j > i
      BY <2>1, <2>5, <3>3
    <3> QED
      BY <3>1, <3>2, <3>3
  <2>9. Done(u, i + 1)
    BY <2>8
  <2> HIDE DEF Done
  <2> QED
    BY <2>4, <2>9 DEF u
<1>10. 0 .. n \subseteq K
  <2> HIDE DEF K
  <2> QED
    BY <1>8, <1>9, SetInduction
<1>11. n \in K
  BY <1>10
<1> HIDE DEF S, hashed
<1> QED
  BY <1>1, <1>11 DEF S

(* The first rows of the buffer hold a row of the tree. *)
Holds(t, row) == \A i \in 1 .. Len(row) : t[i - 1] = row[i]

(* A row that is joined. *)
LEMMA JoinedRow ==
  ASSUME NEW V, Closed(V), NEW row \in Seq(V)
  PROVE  /\ Joined(row) \in Seq(V)
         /\ Len(Joined(row)) = (Len(row) + 1) \div 2
         /\ \A i \in 1 .. (Len(row) + 1) \div 2 :
              Joined(row)[i] = Pair(row[2 * i - 1],
                                    IF 2 * i <= Len(row) THEN row[2 * i] ELSE row[2 * i - 1])
<1> DEFINE n == Len(row)
           m == (n + 1) \div 2
<1>1. n \in Nat
  OBVIOUS
<1>2. m \in Nat /\ 2 * m <= n + 1
  BY <1>1
<1>3. \A i \in 1 .. n : row[i] \in V
  OBVIOUS
<1>4. Joined(row) = [i \in 1 .. m |-> Pair(row[2 * i - 1],
                                       IF 2 * i <= n THEN row[2 * i] ELSE row[2 * i - 1])]
  BY DEF Joined
<1> HIDE DEF n, m
<1>5. ASSUME NEW i \in 1 .. m
      PROVE  Pair(row[2 * i - 1], IF 2 * i <= n THEN row[2 * i] ELSE row[2 * i - 1]) \in V
  <2>1. 2 * i - 1 \in 1 .. n /\ (2 * i <= n => 2 * i \in 1 .. n)
    BY <1>1, <1>2
  <2>2. row[2 * i - 1] \in V /\ (2 * i <= n => row[2 * i] \in V)
    BY <1>3, <2>1
  <2> QED
    BY <2>2 DEF Closed
<1> DEFINE J == Joined(row)
<1> HIDE DEF J
<1>6. J \in [1 .. m -> V]
  BY <1>4, <1>5 DEF J
<1>7. J \in Seq(V) /\ Len(J) = m
  BY <1>2, <1>6
<1> QED
  BY <1>4, <1>7 DEF J, m, n

(* A round makes the joined row of the row: an odd last one is doubled      *)
(* behind the row, where the buffer still has room.                         *)
LEMMA OneRound ==
  ASSUME NEW V, Closed(V), NEW R \in Nat, NEW tree \in Rows(R, V),
         NEW row \in Seq(V), NEW n \in Nat, n = Len(row), 2 * ((n + 1) \div 2) <= R,
         Holds(tree, row)
  PROVE  /\ hash_rows(even_rows(tree, n), (n + 1) \div 2) \in Rows(R, V)
         /\ Holds(hash_rows(even_rows(tree, n), (n + 1) \div 2), Joined(row))
<1> DEFINE t == even_rows(tree, n)
           m == (n + 1) \div 2
           u == hash_rows(t, m)
<1>1. m \in Nat /\ 2 * m <= R /\ (n % 2 = 1 => n + 1 = 2 * m) /\ (n % 2 # 1 => n = 2 * m)
  OBVIOUS
<1>2. \A i \in 1 .. n : tree[i - 1] = row[i] /\ row[i] \in V
  BY DEF Holds
<1>3. t \in Rows(R, V) /\ (\A i \in 1 .. n : t[i - 1] = row[i])
      /\ (n % 2 = 1 => t[n] = row[n])
  <2>1. CASE n % 2 = 1
    <3>1. t = [tree EXCEPT ![n] = tree[n - 1]]
      BY <2>1 DEF even_rows
    <3>2. n \in 0 .. R - 1 /\ n \in 1 .. n
      BY <1>1, <2>1
    <3>3. tree[n - 1] = row[n] /\ row[n] \in V
      BY <1>2, <3>2
    <3> HIDE DEF t
    <3>4. t \in Rows(R, V) /\ t[n] = row[n]
      BY <3>1, <3>2, <3>3 DEF Rows
    <3>5. ASSUME NEW i \in 1 .. n PROVE t[i - 1] = row[i]
      <4>1. i - 1 \in 0 .. R - 1 /\ i - 1 # n
        BY <3>2
      <4> QED
        BY <1>2, <3>1, <4>1 DEF Rows
    <3> QED
      BY <3>4, <3>5
  <2>2. CASE n % 2 # 1
    <3>1. t = tree
      BY <2>2 DEF even_rows
    <3> HIDE DEF t
    <3> QED
      BY <1>2, <2>2, <3>1
  <2> QED
    BY <2>1, <2>2
<1> HIDE DEF t, m
<1>4. u \in Rows(R, V) /\ \A j \in 0 .. R - 1 :
        u[j] = IF j < m THEN Pair(t[2 * j], t[2 * j + 1]) ELSE t[j]
  BY <1>1, <1>3, HashedRows
<1> HIDE DEF u
<1>5. /\ Len(Joined(row)) = m
      /\ \A i \in 1 .. m :
           Joined(row)[i] = Pair(row[2 * i - 1], IF 2 * i <= n THEN row[2 * i] ELSE row[2 * i - 1])
  BY JoinedRow DEF m
<1>6. ASSUME NEW i \in 1 .. m PROVE u[i - 1] = Joined(row)[i]
  <2>1. i - 1 \in 0 .. R - 1 /\ i - 1 < m /\ 2 * (i - 1) + 1 = 2 * i - 1
    BY <1>1
  <2>2. u[i - 1] = Pair(t[2 * (i - 1)], t[2 * i - 1])
    BY <1>4, <2>1
  <2>3. 2 * i - 1 \in 1 .. n /\ (2 * i - 1) - 1 = 2 * (i - 1)
    BY <1>1
  <2>4. t[2 * (i - 1)] = row[2 * i - 1]
    BY <1>3, <2>3
  <2>5. CASE 2 * i <= n
    <3>1. 2 * i \in 1 .. n
      BY <2>5
    <3>2. t[2 * i - 1] = row[2 * i]
      BY <1>3, <3>1
    <3> QED
      BY <1>5, <2>2, <2>4, <2>5, <3>2
  <2>6. CASE ~ 2 * i <= n
    <3>1. n % 2 = 1 /\ 2 * i - 1 = n
      BY <1>1, <2>6
    <3>2. t[2 * i - 1] = row[2 * i - 1]
      BY <1>3, <3>1
    <3> QED
      BY <1>5, <2>2, <2>4, <2>6, <3>2
  <2> QED
    BY <2>5, <2>6
<1>7. Holds(u, Joined(row))
  BY <1>5, <1>6 DEF Holds
<1> QED
  BY <1>4, <1>7 DEF u, t, m

(* What a round works on stays a buffer of that size. *)
LEMMA RoundTyped ==
  ASSUME NEW V, Closed(V), NEW R \in Nat, NEW tree \in Rows(R, V), NEW n \in Nat,
         2 * ((n + 1) \div 2) <= R
  PROVE  hash_rows(even_rows(tree, n), (n + 1) \div 2) \in Rows(R, V)
<1> DEFINE t == even_rows(tree, n)
           m == (n + 1) \div 2
<1>1. m \in Nat /\ 2 * m <= R /\ (n % 2 = 1 => n + 1 = 2 * m)
  OBVIOUS
<1>2. t \in Rows(R, V)
  <2>1. CASE n % 2 = 1
    <3>1. n \in 0 .. R - 1 /\ n - 1 \in 0 .. R - 1
      BY <1>1, <2>1
    <3>2. tree[n - 1] \in V
      BY <3>1 DEF Rows
    <3>3. t = [tree EXCEPT ![n] = tree[n - 1]]
      BY <2>1 DEF even_rows
    <3> QED
      BY <3>2, <3>3 DEF Rows
  <2>2. CASE n % 2 # 1
    BY <2>2 DEF even_rows
  <2> QED
    BY <2>1, <2>2
<1> HIDE DEF t, m
<1>3. hash_rows(t, m) \in Rows(R, V)
  BY <1>1, <1>2, HashedRows
<1> QED
  BY <1>3 DEF t, m

(* The states of the loop of hash_tree ... *)
Loop(R, V, n) == [t : Rows(R, V), n : 0 .. n]

(* ... and one round of it. *)
Round(p) ==
  IF p.n <= 1 THEN p
  ELSE [t |-> hash_rows(even_rows(p.t, p.n), (p.n + 1) \div 2), n |-> (p.n + 1) \div 2]

(* hash_tree is n rounds. *)
LEMMA Rounds ==
  ASSUME NEW V, Closed(V), NEW R \in Nat, NEW tree \in Rows(R, V), NEW n \in Nat,
         2 * ((n + 1) \div 2) <= R
  PROVE  \E g \in [0 .. n -> Loop(R, V, n)] :
           /\ hash_tree(tree, n) = g[n].t
           /\ g[0] = [t |-> tree, n |-> n]
           /\ \A r \in 1 .. n : g[r] = Round(g[r - 1])
<1> DEFINE S == Loop(R, V, n)
           step == [q \in (1 .. n) \X S |-> Round(q[2])]
           c == [t |-> tree, n |-> n]
           Loops(g) == g = [r \in 0 .. n |-> IF r = 0 THEN c ELSE Round(g[r - 1])]
           after == CHOOSE g : Loops(g)
<1>1. hash_tree(tree, n) = after[n].t
  BY Zenon DEF hash_tree, Round
<1>2. c \in S
  BY DEF Loop
<1>3. ASSUME NEW p \in S PROVE Round(p) \in S
  <2>1. p.t \in Rows(R, V) /\ p.n \in Nat /\ p.n <= n
    BY DEF Loop
  <2>2. CASE p.n <= 1
    BY <2>2 DEF Round
  <2>3. CASE ~ p.n <= 1
    <3>1. 2 * ((p.n + 1) \div 2) <= R
      BY <2>1
    <3>2. (p.n + 1) \div 2 \in 0 .. n
      BY <2>1, <2>3
    <3>3. hash_rows(even_rows(p.t, p.n), (p.n + 1) \div 2) \in Rows(R, V)
      BY <2>1, <3>1, RoundTyped
    <3>4. Round(p) = [t |-> hash_rows(even_rows(p.t, p.n), (p.n + 1) \div 2),
                      n |-> (p.n + 1) \div 2]
      BY <2>3 DEF Round
    <3> QED
      BY <3>2, <3>3, <3>4 DEF Loop
  <2> QED
    BY <2>2, <2>3
<1> HIDE DEF S, c
<1>4. step \in [(1 .. n) \X S -> S]
  BY <1>3
<1>5. PICK g \in [0 .. n -> S] : Recursive(g, c, step, n)
  <2> HIDE DEF step
  <2> QED
    BY <1>2, <1>4, Recursion
<1>6. \A r \in 0 .. n : g[r] = IF r = 0 THEN c ELSE Round(g[r - 1])
  <2> TAKE r \in 0 .. n
  <2>1. CASE r = 0
    BY <1>5, <2>1 DEF Recursive
  <2>2. CASE r # 0
    <3>1. r \in 1 .. n /\ g[r - 1] \in S
      BY <1>5, <2>2
    <3>2. step[<<r, g[r - 1]>>] = Round(g[r - 1])
      BY <3>1
    <3> HIDE DEF step
    <3> QED
      BY <1>5, <2>2, <3>1, <3>2 DEF Recursive
  <2> QED
    BY <2>1, <2>2
<1>7. Loops(after)
  <2>1. Loops(g)
    BY <1>5, <1>6
  <2> HIDE DEF Loops
  <2> QED
    BY <2>1
<1> HIDE DEF after
<1>8. \A r \in 0 .. n : after[r] = IF r = 0 THEN c ELSE Round(after[r - 1])
  BY <1>7
<1> DEFINE K == {r \in Nat : after[r] = g[r]}
<1>9. 0 .. n \subseteq K
  <2>1. 0 \in K
    BY <1>6, <1>8
  <2>2. ASSUME NEW r \in 0 .. n, r \in K, r < n PROVE r + 1 \in K
    <3>1. r + 1 \in 0 .. n /\ r + 1 # 0 /\ (r + 1) - 1 = r
      BY <2>2
    <3> QED
      BY <1>6, <1>8, <2>2, <3>1
  <2> HIDE DEF K
  <2> QED
    BY <2>1, <2>2, SetInduction
<1>10. after[n] = g[n]
  BY <1>9
<1>11. g[0] = c /\ \A r \in 1 .. n : g[r] = Round(g[r - 1])
  BY <1>6
<1>12. hash_tree(tree, n) = g[n].t
  BY <1>1, <1>10
<1> QED
  BY <1>5, <1>11, <1>12 DEF S, c

(* The row above a row, in TreeRoot. *)
Above(row) == IF Len(row) <= 1 THEN row ELSE Joined(row)

(* g is the n rows of which TreeRoot takes the head of the last. *)
Climbs(g, V, row, n) ==
  /\ g \in [0 .. n -> Seq(V)]
  /\ TreeRoot(row) = g[n][1]
  /\ g[0] = row
  /\ \A h \in 1 .. n : g[h] = Above(g[h - 1])

(* There are such rows. *)
LEMMA RootRows ==
  ASSUME NEW V, Closed(V), NEW row \in Seq(V), NEW n \in Nat, n = Len(row)
  PROVE  \E g : Climbs(g, V, row, n)
<1> DEFINE S == Seq(V)
           step == [q \in (1 .. n) \X S |-> Above(q[2])]
           Loops(g) == g = [h \in 0 .. n |-> IF h = 0 THEN row ELSE Above(g[h - 1])]
           rows == CHOOSE g : Loops(g)
<1>1. TreeRoot(row) = rows[n][1]
  <2>1. TreeRoot(row) = (CHOOSE g : g = [h \in 0 .. Len(row) |->
                          IF h = 0 THEN row ELSE Above(g[h - 1])])[Len(row)][1]
    BY Zenon DEF TreeRoot, Above
  <2> QED
    BY Zenon, <2>1
<1>2. ASSUME NEW p \in S PROVE Above(p) \in S
  BY JoinedRow DEF Above
<1> HIDE DEF S
<1>4. step \in [(1 .. n) \X S -> S]
  BY <1>2
<1>5. PICK g \in [0 .. n -> S] : Recursive(g, row, step, n)
  <2>1. row \in S
    BY DEF S
  <2> HIDE DEF step
  <2> QED
    BY <2>1, <1>4, Recursion
<1>6. \A r \in 0 .. n : g[r] = IF r = 0 THEN row ELSE Above(g[r - 1])
  <2> TAKE r \in 0 .. n
  <2>1. CASE r = 0
    BY <1>5, <2>1 DEF Recursive
  <2>2. CASE r # 0
    <3>1. r \in 1 .. n /\ g[r - 1] \in S
      BY SMTT(60), <1>5, <2>2
    <3>2. step[<<r, g[r - 1]>>] = Above(g[r - 1])
      BY <3>1
    <3> HIDE DEF step
    <3> QED
      BY <1>5, <2>2, <3>1, <3>2 DEF Recursive
  <2> QED
    BY <2>1, <2>2
<1>7. Loops(rows)
  <2>1. Loops(g)
    BY <1>5, <1>6
  <2> HIDE DEF Loops
  <2> QED
    BY <2>1
<1> HIDE DEF rows
<1>8. \A r \in 0 .. n : rows[r] = IF r = 0 THEN row ELSE Above(rows[r - 1])
  BY <1>7
<1> DEFINE K == {r \in Nat : rows[r] = g[r]}
<1>9. 0 .. n \subseteq K
  <2>1. 0 \in K
    BY <1>6, <1>8
  <2>2. ASSUME NEW r \in 0 .. n, r \in K, r < n PROVE r + 1 \in K
    <3>1. r + 1 \in 0 .. n /\ r + 1 # 0 /\ (r + 1) - 1 = r
      BY <2>2
    <3> QED
      BY <1>6, <1>8, <2>2, <3>1
  <2> HIDE DEF K
  <2> QED
    BY <2>1, <2>2, SetInduction
<1>10. rows[n] = g[n]
  BY <1>9
<1>11. g[0] = row /\ \A r \in 1 .. n : g[r] = Above(g[r - 1])
  BY <1>6
<1>12. TreeRoot(row) = g[n][1]
  BY <1>1, <1>10
<1> QED
  BY <1>5, <1>11, <1>12 DEF S, Climbs

(* However many hashes there are: the loop that overwrites a buffer with    *)
(* its own rows leaves the root of the tree over them in row 0, and no      *)
(* round reaches behind the buffer.                                         *)
THEOREM HashTree ==
  ASSUME NEW V, Closed(V), NEW R \in Nat, NEW tree \in Rows(R, V),
         NEW row \in Seq(V), NEW n \in Nat, n = Len(row), n > 0,
         2 * ((n + 1) \div 2) <= R, Holds(tree, row)
  PROVE  /\ hash_tree(tree, n) \in Rows(R, V)
         /\ hash_tree(tree, n)[0] = TreeRoot(row)
<1>1. PICK g \in [0 .. n -> Loop(R, V, n)] :
           /\ hash_tree(tree, n) = g[n].t
           /\ g[0] = [t |-> tree, n |-> n]
           /\ \A r \in 1 .. n : g[r] = Round(g[r - 1])
  BY SMTT(60), Rounds
<1>2. PICK f : Climbs(f, V, row, n)
  BY RootRows
<1>9. /\ f \in [0 .. n -> Seq(V)]
      /\ TreeRoot(row) = f[n][1]
      /\ f[0] = row
      /\ \A h \in 1 .. n : f[h] = Above(f[h - 1])
  BY <1>2 DEF Climbs
<1> DEFINE Agree(r) == /\ g[r].n = Len(f[r]) /\ Holds(g[r].t, f[r])
                       /\ g[r].n >= 1 /\ (g[r].n = 1 \/ g[r].n + r <= n)
           K == {r \in Nat : Agree(r)}
<1>3. 0 \in K
  <2>1. Agree(0)
    BY <1>1, <1>9
  <2> HIDE DEF Agree
  <2> QED
    BY <2>1
<1>4. ASSUME NEW r \in 0 .. n, r \in K, r < n PROVE r + 1 \in K
  <2> DEFINE p == g[r]
             l == f[r]
  <2>1. r \in 0 .. n /\ r + 1 \in 1 .. n /\ (r + 1) - 1 = r
    BY <1>4
  <2>2. g[r + 1] = Round(p) /\ f[r + 1] = Above(l)
    BY <1>1, <1>9, <2>1
  <2>3. p \in Loop(R, V, n) /\ l \in Seq(V)
    BY <1>9, <2>1
  <2>4. p.n = Len(l) /\ Holds(p.t, l) /\ p.n >= 1 /\ (p.n = 1 \/ p.n + r <= n)
    BY <1>4
  <2> HIDE DEF p, l
  <2>5. p.n \in Nat /\ p.n <= n /\ p.t \in Rows(R, V)
    BY <2>3 DEF Loop
  <2>6. CASE p.n <= 1
    <3>1. g[r + 1] = p /\ f[r + 1] = l
      BY <2>2, <2>4, <2>6 DEF Round, Above
    <3>2. Agree(r + 1)
      BY <2>4, <2>5, <2>6, <3>1
    <3> HIDE DEF Agree
    <3> QED
      BY <3>2
  <2>7. CASE ~ p.n <= 1
    <3> DEFINE m == (p.n + 1) \div 2
               u == hash_rows(even_rows(p.t, p.n), m)
    <3>1. g[r + 1] = [t |-> u, n |-> m] /\ f[r + 1] = Joined(l)
      BY <2>2, <2>4, <2>7 DEF Round, Above
    <3>2. 2 * m <= R
      BY <2>5
    <3>3. Holds(u, Joined(l))
      BY <2>3, <2>4, <2>5, <3>2, OneRound
    <3>4. Len(Joined(l)) = m
      BY <2>3, <2>4, JoinedRow
    <3>5. m \in Nat /\ m >= 1 /\ m + (r + 1) <= n
      <4>1. ASSUME NEW k \in Nat, k >= 2, k + r <= n
            PROVE  (k + 1) \div 2 \in Nat /\ (k + 1) \div 2 >= 1 /\ (k + 1) \div 2 + (r + 1) <= n
        <5>1. (k + 1) \div 2 <= k - 1
          BY <4>1
        <5> QED
          BY <4>1, <5>1
      <4>2. PICK k \in Nat : k = p.n
        BY <2>5
      <4>3. k >= 2 /\ k + r <= n
        BY <2>4, <2>7, <4>2
      <4> QED
        BY <4>1, <4>2, <4>3 DEF m
    <3> HIDE DEF u, m
    <3>6. Agree(r + 1)
      BY <3>1, <3>3, <3>4, <3>5
    <3> HIDE DEF Agree
    <3> QED
      BY <3>6
  <2> QED
    BY <2>6, <2>7
<1>5. 0 .. n \subseteq K
  <2> HIDE DEF K
  <2> QED
    BY <1>3, <1>4, SetInduction
<1>6. Agree(n)
  <2>1. n \in K
    BY <1>5
  <2> QED
    BY <2>1
<1>7. g[n] \in Loop(R, V, n)
  BY <1>1
<1>8. g[n].t[0] = f[n][1]
  <2>1. 1 \in 1 .. Len(f[n]) /\ 1 - 1 = 0
    BY <1>6, <1>7 DEF Loop
  <2> QED
    BY <1>6, <2>1 DEF Holds
<1> QED
  BY <1>1, <1>9, <1>7, <1>8 DEF Loop

(* A hash h and n others, in a row. *)
Headed(row, h, w, n) ==
  /\ \E U : row \in Seq(U)
  /\ Len(row) = n + 1
  /\ row[1] = h
  /\ \A i \in 1 .. n : row[i + 1] = w[i]

(* The first row of a tree is a row of its own.                             *)
LEMMA HeadRow ==
  ASSUME NEW h, NEW n \in Nat, NEW w, w = [i \in 1 .. n |-> w[i]]
  PROVE  Headed(<<h>> \o w, h, w, n)
<1> DEFINE row == <<h>> \o w
<1> DEFINE U == {h} \cup {w[i] : i \in 1 .. n}
<1>1. w \in [1 .. n -> U]
  OBVIOUS
<1>2. h \in U
  OBVIOUS
<1> HIDE DEF U
<1>3. <<h>> \in Seq(U) /\ w \in Seq(U) /\ Len(w) = n /\ Len(<<h>>) = 1 /\ <<h>>[1] = h
  BY <1>1, <1>2
<1>4. /\ row \in Seq(U) /\ Len(row) = 1 + n
      /\ \A i \in 1 .. 1 + n : row[i] = IF i <= 1 THEN <<h>>[i] ELSE w[i - 1]
  BY <1>3, ConcatProperties
<1>5. row[1] = h
  BY <1>3, <1>4
<1>6. ASSUME NEW i \in 1 .. n PROVE row[i + 1] = w[i]
  <2>1. i + 1 \in 1 .. 1 + n /\ ~ i + 1 <= 1 /\ (i + 1) - 1 = i
    OBVIOUS
  <2> QED
    BY <1>4, <2>1
<1>7. row \in Seq(U) /\ Len(row) = n + 1
  BY <1>4
<1> HIDE DEF row
<1>8. \E T : row \in Seq(T)
  BY <1>7
<1>9. Headed(row, h, w, n)
  BY <1>5, <1>6, <1>7, <1>8, Zenon DEF Headed
<1> QED
  BY <1>9 DEF row

(* The merkle root is that of the tree over the leaves ... *)
LEMMA MerkleRoot ==
  ASSUME NEW U, NEW leaves \in Seq(U), NEW n \in Nat, n = Len(leaves), n > 0
  PROVE  merkle_root(leaves) = TreeRoot(leaves)
<1> DEFINE R == 2 * ((n + 1) \div 2)
           t == [i \in 0 .. R - 1 |-> IF i < n THEN leaves[i + 1] ELSE Zero]
<1>1. PICK V : U \cup {Zero} \subseteq V /\ Closed(V)
  BY ClosedSet
<1>2. R \in Nat /\ n <= R
  OBVIOUS
<1>3. \A i \in 1 .. n : leaves[i] \in V
  BY <1>1
<1>4. leaves \in Seq(V)
  BY <1>3
<1>5. t \in Rows(R, V)
  <2>1. ASSUME NEW i \in 0 .. R - 1
        PROVE  (IF i < n THEN leaves[i + 1] ELSE Zero) \in V
    <3>1. CASE i < n
      <4>1. i + 1 \in 1 .. n
        BY <3>1
      <4> QED
        BY <1>3, <3>1, <4>1
    <3>2. CASE ~ i < n
      BY <1>1, <3>2
    <3> QED
      BY <3>1, <3>2
  <2> HIDE DEF R
  <2> QED
    BY <2>1 DEF Rows
<1>6. Holds(t, leaves)
  <2>1. ASSUME NEW i \in 1 .. n PROVE t[i - 1] = leaves[i]
    <3>1. i - 1 \in 0 .. R - 1 /\ i - 1 < n /\ (i - 1) + 1 = i
      BY <1>2
    <3> QED
      BY <3>1
  <2> HIDE DEF t
  <2> QED
    BY <2>1 DEF Holds
<1>7. merkle_root(leaves) = hash_tree(t, n)[0]
  BY Zenon DEF merkle_root
<1>8. 2 * ((n + 1) \div 2) <= R
  OBVIOUS
<1> HIDE DEF t, R
<1>9. hash_tree(t, n)[0] = TreeRoot(leaves)
  BY <1>1, <1>2, <1>4, <1>5, <1>6, <1>8, HashTree
<1> QED
  BY <1>7, <1>9

(* ... and the witness commitment joins that of the tree over the coinbase, *)
(* which counts as zero, and the transactions with the reserved value.      *)
LEMMA WitnessCommitment ==
  ASSUME NEW txs, NEW n \in Nat, n = Len(txs)
  PROVE  witness_commitment(txs) =
           Pair(TreeRoot(<<Zero>> \o [i \in 1 .. Len(txs) |-> <<"hash", txs[i]>>]), Zero)
<1> DEFINE w == [i \in 1 .. n |-> <<"hash", txs[i]>>]
           row == <<Zero>> \o w
           m == n + 1
           R == n + 2
           t == [i \in 0 .. m |-> IF i \in 1 .. m - 1 THEN <<"hash", txs[i]>> ELSE Zero]
           h == hash_tree(t, m)
<1>1. w = [i \in 1 .. n |-> w[i]]
  OBVIOUS
<1>2. /\ \E U : row \in Seq(U)
      /\ Len(row) = m /\ row[1] = Zero
      /\ \A i \in 1 .. n : row[i + 1] = w[i]
  <2> HIDE DEF w
  <2>1. Headed(row, Zero, w, n)
    BY <1>1, HeadRow
  <2> HIDE DEF row
  <2> QED
    BY <2>1 DEF Headed
<1>3. PICK U : row \in Seq(U)
  BY <1>2
<1>4. PICK V : U \cup {Zero} \cup {<<"hash", txs[i]>> : i \in 1 .. n} \subseteq V /\ Closed(V)
  BY ZenonT(60), ClosedSet
<1>5. t \in Rows(R, V)
  BY <1>4 DEF Rows
<1>6. \A i \in 1 .. n : t[i] = w[i]
  OBVIOUS
<1>7. t[0] = Zero
  OBVIOUS
<1> HIDE DEF t, w, row
<1>8. row \in Seq(V)
  <2>1. \A i \in 1 .. Len(row) : row[i] \in V
    BY <1>3, <1>4
  <2> QED
    BY <1>3, <2>1
<1>9. Holds(t, row)
  <2>1. ASSUME NEW i \in 1 .. m PROVE t[i - 1] = row[i]
    <3>1. CASE i = 1
      BY <1>2, <1>7, <3>1
    <3>2. CASE i # 1
      <4>1. i - 1 \in 1 .. n /\ (i - 1) + 1 = i
        BY <3>2
      <4> QED
        BY <1>2, <1>6, <4>1
    <3> QED
      BY <3>1, <3>2
  <2> QED
    BY <1>2, <2>1 DEF Holds
<1>10. h \in Rows(R, V) /\ h[0] = TreeRoot(row)
  <2>1. R \in Nat /\ m \in Nat /\ m > 0 /\ 2 * ((m + 1) \div 2) <= R
    OBVIOUS
  <2> HIDE DEF R, m
  <2> QED
    BY <1>2, <1>4, <1>5, <1>8, <1>9, <2>1, HashTree
<1>11. witness_commitment(txs) = Pair([h EXCEPT ![1] = Zero][0], [h EXCEPT ![1] = Zero][1])
  BY Zenon DEF witness_commitment, t
<1> HIDE DEF h
<1>12. [h EXCEPT ![1] = Zero][0] = h[0] /\ [h EXCEPT ![1] = Zero][1] = Zero
  BY <1>10 DEF Rows
<1> QED
  BY <1>10, <1>11, <1>12 DEF row, w

(* The encoding of a count can be read back, at every length of it. *)
THEOREM VarintCorrect ==
  ASSUME NEW n \in Nat, n < 2147483648
  PROVE  /\ VarintValue(varint_encode(n)) = n
         /\ \A i \in 1 .. Len(varint_encode(n)) : varint_encode(n)[i] \in 0 .. 255
<1>1. CASE n < 253
  BY SMT, <1>1 DEF varint_encode, VarintValue, Value
<1>2. CASE n >= 253 /\ n < 65536
  <2>1. n \div 256 \in 0 .. 255 /\ (n % 256) \in 0 .. 255
    BY SMT, <1>2
  <2>3. (n % 256) + 256 * (n \div 256) = n
    BY SMT
  <2>2. varint_encode(n) = <<253, n % 256, n \div 256>>
    BY SMT, <1>2 DEF varint_encode
  <2> QED
    BY SMT, <2>1, <2>2, <2>3 DEF VarintValue
<1>3. CASE n >= 65536
  <2> DEFINE b0 == n % 256
             b1 == (n \div 256) % 256
             b2 == (n \div 65536) % 256
             b3 == n \div 16777216
  <2>1. b0 \in 0 .. 255 /\ b1 \in 0 .. 255 /\ b2 \in 0 .. 255 /\ b3 \in 0 .. 255
    BY SMT
  <2>2. b0 + 256 * b1 + 65536 * b2 + 16777216 * b3 = n
    BY SMT
  <2>3. varint_encode(n) = <<254, b0, b1, b2, b3>>
    BY SMT, <1>3 DEF varint_encode
  <2> HIDE DEF b0, b1, b2, b3
  <2> QED
    BY SMTT(60), <2>1, <2>2, <2>3 DEF VarintValue, Value
<1> QED
  BY SMT, <1>1, <1>2, <1>3

-----------------------------------------------------------------------------
(* The words of the header and of the target. *)

(* The first i words, one behind the other. *)
Flat(f, s, U, i) ==
  /\ Long(f, U, 4 * i)
  /\ \A j \in 1 .. i, k \in 1 .. 4 : f[4 * (j - 1) + k] = s[j][k]

(* One sequence behind another. *)
LEMMA Joins ==
  ASSUME NEW U, NEW f \in Seq(U), NEW w \in Seq(U), NEW m \in Nat, NEW l \in Nat, Len(f) = m, Len(w) = l
  PROVE  /\ f \o w \in Seq(U) /\ Len(f \o w) = m + l
         /\ \A p \in 1 .. m + l : (f \o w)[p] = IF p <= m THEN f[p] ELSE w[p - m]
<1>1. f \o w \in Seq(U) /\ Len(f \o w) = Len(f) + Len(w)
  OBVIOUS
<1>2. \A p \in 1 .. Len(f) + Len(w) : (f \o w)[p] = IF p <= Len(f) THEN f[p] ELSE w[p - Len(f)]
  OBVIOUS
<1> QED
  BY <1>1, <1>2

(* ... and at one place, when it is known. *)
LEMMA JoinsAt ==
  ASSUME NEW U, NEW f \in Seq(U), NEW w \in Seq(U), NEW m \in Nat, NEW l \in Nat, Len(f) = m, Len(w) = l,
         NEW p \in 1 .. m + l
  PROVE  (f \o w)[p] = IF p <= m THEN f[p] ELSE w[p - m]
<1>1. \A q \in 1 .. Len(f) + Len(w) : (f \o w)[q] = IF q <= Len(f) THEN f[q] ELSE w[q - Len(f)]
  OBVIOUS
<1> QED
  BY <1>1

(* Another word behind them. *)
LEMMA FlatMore ==
  ASSUME NEW U, NEW s, NEW f, NEW w, NEW i \in Nat, Flat(f, s, U, i), Long(w, U, 4), w = s[i + 1]
  PROVE  Flat(f \o w, s, U, i + 1)
<1>7. PICK m \in Nat : m = 4 * i
  OBVIOUS
<1>1. f \in Seq(U) /\ Len(f) = m /\ w \in Seq(U) /\ Len(w) = 4
  BY <1>7 DEF Flat, Long
<1>8. PICK l \in Nat : l = 4
  OBVIOUS
<1>10. f \in Seq(U) /\ Len(f) = m /\ w \in Seq(U) /\ Len(w) = l
  BY <1>1, <1>8
<1>12. PICK h : h = f \o w
  OBVIOUS
<1>13. f \o w \in Seq(U) /\ Len(f \o w) = m + l
  BY <1>10, Joins
<1>14. \A p \in 1 .. m + l : (f \o w)[p] = IF p <= m THEN f[p] ELSE w[p - m]
  <2> TAKE p \in 1 .. m + l
  <2> QED
  BY <1>10, JoinsAt
<1>11. h \in Seq(U) /\ Len(h) = m + l /\ \A p \in 1 .. m + l : h[p] = IF p <= m THEN f[p] ELSE w[p - m]
  BY Zenon, <1>12, <1>13, <1>14
<1>9. h \in Seq(U) /\ Len(h) = m + 4 /\ \A p \in 1 .. m + 4 : h[p] = IF p <= m THEN f[p] ELSE w[p - m]
  BY <1>8, <1>11
<1>2. h \in Seq(U) /\ Len(h) = 4 * i + 4
  BY <1>7, <1>9
<1>3. \A p \in 1 .. 4 * i + 4 : h[p] = IF p <= 4 * i THEN f[p] ELSE w[p - 4 * i]
  BY <1>7, <1>9
<1>4. ASSUME NEW j \in 1 .. i + 1, NEW k \in 1 .. 4
      PROVE  h[4 * (j - 1) + k] = s[j][k]
  <2>1. CASE j <= i
    <3>1. j \in 1 .. i /\ 4 * (j - 1) + k \in 1 .. 4 * i + 4 /\ 4 * (j - 1) + k <= 4 * i
      BY <2>1
    <3>2. f[4 * (j - 1) + k] = s[j][k]
      BY <3>1 DEF Flat
    <3> QED
      BY <1>3, <3>1, <3>2
  <2>2. CASE j = i + 1
    <3>1. 4 * (j - 1) + k \in 1 .. 4 * i + 4 /\ ~ 4 * (j - 1) + k <= 4 * i
          /\ 4 * (j - 1) + k - 4 * i = k
      BY <2>2
    <3>2. h[4 * (j - 1) + k] = w[k]
      BY <1>3, <3>1
    <3> QED
      BY <2>2, <3>2
  <2> QED
    BY <2>1, <2>2
<1>5. 4 * (i + 1) = 4 * i + 4
  OBVIOUS
<1>6. Long(h, U, 4 * (i + 1))
  BY <1>2, <1>5 DEF Long
<1> QED
  BY Zenon, <1>4, <1>6, <1>12 DEF Flat

(* The bytes of a row of words. *)
LEMMA FlattenWords ==
  ASSUME NEW U, NEW n \in Nat \ {0}, NEW s, Len(s) = n, \A i \in 1 .. n : Long(s[i], U, 4)
  PROVE  Flat(FlattenSeq(s), s, U, n)
<1> DEFINE S == Seq(U)
           step == [p \in (1 .. n) \X S |-> p[2] \o s[p[1]]]
           Is(g) == g = [i \in 1 .. n |-> IF i = 1 THEN s[i] ELSE g[i - 1] \o s[i]]
           row == CHOOSE g : Is(g)
<1>1. FlattenSeq(s) = row[n]
  BY Zenon, n # 0 DEF FlattenSeq
<1>2. \A i \in 1 .. n : s[i] \in S
  BY Zenon DEF Long
<1>3. step \in [(1 .. n) \X S -> S]
  <2>1. \A x \in S, i \in 1 .. n : x \o s[i] \in S
    BY <1>2
  <2> HIDE DEF S
  <2> QED
    BY <2>1
<1>4. PICK g \in [0 .. n -> S] : Recursive(g, <<>>, step, n)
  <2>1. <<>> \in S
    OBVIOUS
  <2> HIDE DEF step, S
  <2> QED
    BY <1>3, <2>1, Recursion
<1>5. \A i \in 1 .. n : g[i] = g[i - 1] \o s[i]
  <2> TAKE i \in 1 .. n
  <2>1. g[i - 1] \in S
    BY <1>4
  <2>2. step[<<i, g[i - 1]>>] = g[i - 1] \o s[i]
    <3> HIDE DEF S
    <3> QED
      BY <2>1
  <2> HIDE DEF step
  <2> QED
    BY <1>4, <2>2 DEF Recursive
<1>6. g[0] = <<>>
  BY <1>4 DEF Recursive
<1>7. g[1] = s[1]
  <2>1. 1 \in 1 .. n /\ 1 - 1 = 0
    OBVIOUS
  <2>2. g[1] = <<>> \o s[1]
    BY <1>5, <1>6, <2>1
  <2>3. s[1] \in Seq(U)
    BY <1>2, <2>1
  <2> QED
    BY <2>2, <2>3
<1> DEFINE h == [i \in 1 .. n |-> g[i]]
<1>8. Is(h)
  <2>1. ASSUME NEW i \in 1 .. n PROVE h[i] = IF i = 1 THEN s[i] ELSE h[i - 1] \o s[i]
    <3>1. CASE i = 1
      BY <1>7, <3>1
    <3>2. CASE i # 1
      <4>1. i - 1 \in 1 .. n
        BY <3>2
      <4> QED
        BY <1>5, <3>2, <4>1
    <3> QED
      BY <3>1, <3>2
  <2>2. h = [i \in 1 .. n |-> h[i]]
    OBVIOUS
  <2> HIDE DEF h
  <2> QED
    BY <2>1, <2>2
<1>9. Is(row)
  <2> HIDE DEF Is
  <2> QED
    BY <1>8
<1> HIDE DEF row
<1>10. \A i \in 1 .. n : row[i] = IF i = 1 THEN s[i] ELSE row[i - 1] \o s[i]
  BY <1>9
<1> DEFINE K == {i \in 0 .. n : i = 0 \/ Flat(row[i], s, U, i)}
<1>11. Flat(row[1], s, U, 1)
  <2>1. row[1] = s[1] /\ Long(s[1], U, 4)
    <3>1. 1 \in 1 .. n
      OBVIOUS
    <3> QED
      BY <1>10, <3>1
  <2>2. \A j \in 1 .. 1, k \in 1 .. 4 : j = 1 /\ 4 * (j - 1) + k = k
    OBVIOUS
  <2>3. 4 * 1 = 4
    OBVIOUS
  <2> QED
    BY <2>1, <2>2, <2>3 DEF Flat
<1>12. ASSUME NEW i \in 0 .. n, i \in K, i < n PROVE i + 1 \in K
  <2>1. CASE i = 0
    <3>1. i + 1 = 1 /\ 1 \in 0 .. n
      BY <2>1
    <3> QED
      BY <1>11, <3>1
  <2>2. CASE i # 0
    <3>1. i + 1 \in 1 .. n /\ i + 1 # 1 /\ (i + 1) - 1 = i /\ i \in Nat /\ i + 1 \in 0 .. n
      BY <1>12, <2>2
    <3>2. Flat(row[i], s, U, i)
      BY <1>12, <2>2
    <3>3. row[i + 1] = row[i] \o s[i + 1]
      BY <1>10, <3>1
    <3>4. Long(s[i + 1], U, 4)
      BY <3>1
    <3>5. Flat(row[i] \o s[i + 1], s, U, i + 1)
      BY <3>1, <3>2, <3>4, FlatMore
    <3> QED
      BY <3>1, <3>3, <3>5
  <2> QED
    BY <2>1, <2>2
<1>13. 0 .. n \subseteq K
  <2>1. 0 \in K
    OBVIOUS
  <2> HIDE DEF K
  <2> QED
    BY <1>12, <2>1, SetInduction
<1>14. n \in 0 .. n
  OBVIOUS
<1> QED
  BY <1>1, <1>13, <1>14

(* Two rows of bytes are the same when their words are. *)
LEMMA SameBytes ==
  ASSUME NEW U, NEW n \in Nat, NEW f, NEW s, NEW h, Flat(f, s, U, n), Long(h, U, 4 * n),
         \A i \in 1 .. n, k \in 1 .. 4 : s[i][k] = h[4 * (i - 1) + k]
  PROVE  f = h
<1>1. f \in Seq(U) /\ h \in Seq(U) /\ Len(f) = 4 * n /\ Len(h) = 4 * n
  BY DEF Flat, Long
<1>2. ASSUME NEW p \in 1 .. 4 * n PROVE f[p] = h[p]
  <2>1. PICK i \in 1 .. n, k \in 1 .. 4 : p = 4 * (i - 1) + k
    <3>1. /\ (p - 1) \div 4 + 1 \in 1 .. n /\ ((p - 1) % 4) + 1 \in 1 .. 4
          /\ p = 4 * ((p - 1) \div 4 + 1 - 1) + (((p - 1) % 4) + 1)
      OBVIOUS
    <3> QED
      BY <3>1
  <2> QED
    BY <2>1 DEF Flat
<1> QED
  BY <1>1, <1>2, SeqEqual

(* The names of the members whose bytes are in a header or a target. *)
ByteNames == {"version", "previousblockhash", "root", "curtime", "bits", "target"}
ByteSet == ByteNames \X Nat

(* The bytes of a member, in either order. *)
LEMMA BytesLong ==
  ASSUME NEW name \in ByteNames, NEW a \in Nat, NEW b \in Nat, a <= b
  PROVE  /\ Long(Bytes(name, a, b), ByteSet, b - a + 1)
         /\ Long(Reverse(Bytes(name, a, b)), ByteSet, b - a + 1)
         /\ \A k \in 1 .. b - a + 1 : /\ Bytes(name, a, b)[k] = <<name, a + k - 1>>
                                     /\ Reverse(Bytes(name, a, b))[k] = <<name, b + 1 - k>>
<1>1. PICK m \in Nat : m = b - a + 1
  OBVIOUS
<1>2. Bytes(name, a, b) = [k \in 1 .. m |-> <<name, a + k - 1>>]
  BY <1>1 DEF Bytes
<1>3. \A k \in 1 .. m : <<name, a + k - 1>> \in ByteSet
  BY DEF ByteSet
<1>4. Bytes(name, a, b) \in Seq(ByteSet) /\ Len(Bytes(name, a, b)) = m
  <2>1. Bytes(name, a, b) \in [1 .. m -> ByteSet]
    BY <1>2, <1>3
  <2> QED
    BY <2>1
<1>5. Reverse(Bytes(name, a, b)) = [k \in 1 .. m |-> Bytes(name, a, b)[(m - k) + 1]]
  BY <1>4 DEF Reverse
<1>6. \A k \in 1 .. m : Reverse(Bytes(name, a, b))[k] = <<name, b + 1 - k>>
  <2> TAKE k \in 1 .. m
  <2>1. (m - k) + 1 \in 1 .. m /\ a + ((m - k) + 1) - 1 = b + 1 - k
    BY <1>1
  <2>2. Bytes(name, a, b)[(m - k) + 1] = <<name, a + ((m - k) + 1) - 1>>
    BY <1>2, <2>1
  <2> QED
    BY <1>5, <2>1, <2>2
<1>7. \A k \in 1 .. m : <<name, b + 1 - k>> \in ByteSet
  BY <1>1 DEF ByteSet
<1>8. Reverse(Bytes(name, a, b)) \in [1 .. m -> ByteSet]
  BY <1>5, <1>6, <1>7
<1>9. Reverse(Bytes(name, a, b)) \in Seq(ByteSet) /\ Len(Reverse(Bytes(name, a, b))) = m
  BY <1>8
<1>10. \A k \in 1 .. m : Bytes(name, a, b)[k] = <<name, a + k - 1>>
  BY <1>2
<1> QED
  BY <1>1, <1>4, <1>6, <1>9, <1>10 DEF Long

(* Eight words back to front. *)
LEMMA ReverseEight ==
  ASSUME NEW ws, Len(ws) = 8
  PROVE  Len(Reverse(ws)) = 8 /\ \A k \in 1 .. 8 : Reverse(ws)[k] = ws[9 - k]
<1>1. Reverse(ws) = [k \in 1 .. 8 |-> ws[(8 - k) + 1]]
  BY DEF Reverse
<1>2. \A k \in 1 .. 8 : (8 - k) + 1 = 9 - k
  OBVIOUS
<1> QED
  BY <1>1, <1>2

(* The target is read back to front. *)
LEMMA TargetBytes == FlattenSeq(Reverse(decode_target)) = Bytes("target", 1, 32)
<1> DEFINE ws == [k \in 1 .. 8 |-> Bytes("target", 4 * k - 3, 4 * k)]
           s == Reverse(Reverse(ws))
           h == Bytes("target", 1, 32)
<1>1. Reverse(decode_target) = s
  BY DEF decode_target, Words, be32dec
<1>2. Len(ws) = 8 /\ \A k \in 1 .. 8 : ws[k] = Bytes("target", 4 * k - 3, 4 * k)
  OBVIOUS
<1> HIDE DEF ws
<1>3. Len(s) = 8 /\ \A k \in 1 .. 8 : s[k] = ws[k]
  <2>1. \A k \in 1 .. 8 : 9 - k \in 1 .. 8 /\ 9 - (9 - k) = k
    OBVIOUS
  <2> QED
    BY <1>2, <2>1, ReverseEight
<1> HIDE DEF s, h
<1>4. "target" \in ByteNames
  BY DEF ByteNames
<1>5. ASSUME NEW k \in 1 .. 8
      PROVE  Long(s[k], ByteSet, 4) /\ \A j \in 1 .. 4 : s[k][j] = <<"target", 4 * k - 4 + j>>
  <2>1. PICK a \in Nat, b \in Nat : a = 4 * k - 3 /\ b = 4 * k /\ a <= b /\ b - a + 1 = 4
    OBVIOUS
  <2>2. s[k] = Bytes("target", a, b)
    BY <1>2, <1>3, <2>1
  <2>3. /\ Long(Bytes("target", a, b), ByteSet, b - a + 1)
        /\ \A j \in 1 .. b - a + 1 : Bytes("target", a, b)[j] = <<"target", a + j - 1>>
    BY SMTT(60), <1>4, <2>1, BytesLong
  <2>4. \A j \in 1 .. 4 : a + j - 1 = 4 * k - 4 + j
    BY <2>1
  <2> QED
    BY <2>1, <2>2, <2>3, <2>4
<1>6. Flat(FlattenSeq(s), s, ByteSet, 8)
  <2>1. PICK n \in Nat \ {0} : n = 8
    OBVIOUS
  <2>2. Len(s) = n /\ \A k \in 1 .. n : Long(s[k], ByteSet, 4)
    BY <1>3, <1>5, <2>1
  <2>3. Flat(FlattenSeq(s), s, ByteSet, n)
    BY <2>2, FlattenWords
  <2> QED
    BY <2>1, <2>3
<1>7. Long(h, ByteSet, 4 * 8) /\ \A p \in 1 .. 32 : h[p] = <<"target", p>>
  <2>1. PICK a \in Nat, b \in Nat : a = 1 /\ b = 32 /\ a <= b /\ b - a + 1 = 32
    OBVIOUS
  <2>2. h = Bytes("target", a, b)
    BY <2>1 DEF h
  <2>3. /\ Long(Bytes("target", a, b), ByteSet, b - a + 1)
        /\ \A j \in 1 .. b - a + 1 : Bytes("target", a, b)[j] = <<"target", a + j - 1>>
    BY ZenonT(60), <1>4, <2>1, BytesLong
  <2>4. \A j \in 1 .. 32 : a + j - 1 = j
    BY <2>1
  <2>5. 4 * 8 = 32
    OBVIOUS
  <2> QED
    BY <2>1, <2>2, <2>3, <2>4, <2>5
<1>8. ASSUME NEW k \in 1 .. 8, NEW j \in 1 .. 4 PROVE s[k][j] = h[4 * (k - 1) + j]
  <2>1. 4 * (k - 1) + j \in 1 .. 32 /\ 4 * (k - 1) + j = 4 * k - 4 + j
    OBVIOUS
  <2> QED
    BY <1>5, <1>7, <2>1
<1>9. FlattenSeq(s) = h
  <2>1. PICK n \in Nat : n = 8
    OBVIOUS
  <2>2. PICK f : f = FlattenSeq(s)
    OBVIOUS
  <2>3. Flat(f, s, ByteSet, n) /\ Long(h, ByteSet, 4 * n)
    BY <1>6, <1>7, <2>1, <2>2
  <2>4. \A i \in 1 .. n, k \in 1 .. 4 : s[i][k] = h[4 * (i - 1) + k]
    BY <1>8, <2>1
  <2>5. f = h
    BY <2>3, <2>4, SameBytes
  <2> QED
    BY <2>2, <2>5
<1> QED
  BY <1>1, <1>9 DEF h

(* g is f and w, one behind the other. *)
Joint(g, f, w, U, m, l, n) ==
  /\ Long(g, U, n)
  /\ \A p \in 1 .. m : g[p] = f[p]
  /\ \A p \in 1 .. l : g[m + p] = w[p]

(* Lengths that add up, given by their names. *)
LEMMA Jointly ==
  ASSUME NEW U, NEW f, NEW w, NEW g, NEW m \in Nat, NEW l \in Nat, NEW n \in Nat,
         Long(f, U, m), Long(w, U, l), g = f \o w, n = m + l
  PROVE  Joint(g, f, w, U, m, l, n)
<1>1. f \in Seq(U) /\ w \in Seq(U) /\ Len(f) = m /\ Len(w) = l
  BY DEF Long
<1>2. \A p \in 1 .. Len(f) + Len(w) : (f \o w)[p] = IF p <= Len(f) THEN f[p] ELSE w[p - Len(f)]
  BY <1>1
<1>3. ASSUME NEW p \in 1 .. l PROVE (f \o w)[m + p] = w[p]
  <2>1. m + p \in 1 .. Len(f) + Len(w) /\ ~ m + p <= Len(f) /\ m + p - Len(f) = p
    BY <1>1
  <2> QED
    BY <1>2, <2>1
<1>4. ASSUME NEW p \in 1 .. m PROVE (f \o w)[p] = f[p]
  <2>1. p \in 1 .. Len(f) + Len(w) /\ p <= Len(f)
    BY <1>1
  <2> QED
    BY <1>2, <2>1
<1>5. Long(f \o w, U, m + l)
  BY SMTT(60), LongConcat
<1> QED
  BY <1>3, <1>4, <1>5 DEF Joint

(* The byte at each place of a header. *)
HeaderAt(p) ==
  IF p <= 4 THEN <<"version", 5 - p>>
  ELSE IF p <= 36 THEN <<"previousblockhash", 37 - p>>
  ELSE IF p <= 68 THEN <<"root", p - 36>>
  ELSE IF p <= 72 THEN <<"curtime", 73 - p>> ELSE <<"bits", 77 - p>>

(* The header of the consensus rules, byte by byte. *)
LEMMA ReferenceAt ==
  /\ Long(ReferenceHeader, ByteSet, 76)
  /\ \A p \in 1 .. 76 : ReferenceHeader[p] = HeaderAt(p)
<1> DEFINE v == Reverse(Bytes("version", 1, 4))
           h == Reverse(Bytes("previousblockhash", 1, 32))
           r == Bytes("root", 1, 32)
           c == Reverse(Bytes("curtime", 1, 4))
           b == Reverse(Bytes("bits", 1, 4))
<1>1. /\ "version" \in ByteNames /\ "previousblockhash" \in ByteNames /\ "root" \in ByteNames
      /\ "curtime" \in ByteNames /\ "bits" \in ByteNames
  BY DEF ByteNames
<1>2. ASSUME NEW name \in ByteNames, NEW n \in Nat, n > 0
      PROVE  /\ Long(Bytes(name, 1, n), ByteSet, n) /\ Long(Reverse(Bytes(name, 1, n)), ByteSet, n)
             /\ \A k \in 1 .. n : /\ Bytes(name, 1, n)[k] = <<name, k>>
                                 /\ Reverse(Bytes(name, 1, n))[k] = <<name, n + 1 - k>>
  <2>1. PICK a \in Nat : a = 1 /\ a <= n /\ n - a + 1 = n
    BY <1>2
  <2>2. /\ Long(Bytes(name, a, n), ByteSet, n - a + 1) /\ Long(Reverse(Bytes(name, a, n)), ByteSet, n - a + 1)
        /\ \A k \in 1 .. n - a + 1 : /\ Bytes(name, a, n)[k] = <<name, a + k - 1>>
                                    /\ Reverse(Bytes(name, a, n))[k] = <<name, n + 1 - k>>
    BY <2>1, BytesLong
  <2>3. \A k \in 1 .. n : a + k - 1 = k
    BY <2>1
  <2> QED
    BY <2>1, <2>2, <2>3
<1>0. 4 \in Nat /\ 4 > 0 /\ 32 \in Nat /\ 32 > 0 /\ 32 + 1 = 33 /\ 4 + 1 = 5
  OBVIOUS
<1>3. Long(v, ByteSet, 4) /\ \A k \in 1 .. 4 : v[k] = <<"version", 5 - k>>
  BY <1>0, <1>1, <1>2
<1>4. Long(h, ByteSet, 32) /\ \A k \in 1 .. 32 : h[k] = <<"previousblockhash", 33 - k>>
  <2>1. PICK n \in Nat : n = 32 /\ n > 0 /\ n + 1 = 33
    OBVIOUS
  <2>2. h = Reverse(Bytes("previousblockhash", 1, n))
    BY <2>1
  <2>3. /\ Long(Reverse(Bytes("previousblockhash", 1, n)), ByteSet, n)
        /\ \A k \in 1 .. n : Reverse(Bytes("previousblockhash", 1, n))[k] = <<"previousblockhash", n + 1 - k>>
    BY <1>1, <1>2, <2>1
  <2>4. \A k \in 1 .. n : n + 1 - k = 33 - k
    BY <2>1
  <2> HIDE DEF h
  <2> QED
    BY <2>1, <2>2, <2>3, <2>4
<1>5. Long(r, ByteSet, 32) /\ \A k \in 1 .. 32 : r[k] = <<"root", k>>
  BY <1>0, <1>1, <1>2
<1>6. Long(c, ByteSet, 4) /\ \A k \in 1 .. 4 : c[k] = <<"curtime", 5 - k>>
  BY <1>0, <1>1, <1>2
<1>7. Long(b, ByteSet, 4) /\ \A k \in 1 .. 4 : b[k] = <<"bits", 5 - k>>
  BY <1>0, <1>1, <1>2
<1>8. ReferenceHeader = v \o h \o r \o c \o b
  BY DEF ReferenceHeader
<1> HIDE DEF v, h, r, c, b
<1>9. 4 + 32 = 36 /\ 36 + 32 = 68 /\ 68 + 4 = 72 /\ 72 + 4 = 76
  OBVIOUS
<1>10. PICK x : x = v \o h
  OBVIOUS
<1>11. PICK y : y = x \o r
  OBVIOUS
<1>12. PICK z : z = y \o c
  OBVIOUS
<1>13. PICK w : w = z \o b
  OBVIOUS
<1>14. Joint(x, v, h, ByteSet, 4, 32, 36)
  <2>1. 4 \in Nat /\ 32 \in Nat /\ 36 \in Nat /\ 36 = 4 + 32
    OBVIOUS
  <2>2. Long(v, ByteSet, 4) /\ Long(h, ByteSet, 32) /\ x = v \o h
    BY Zenon, <1>3, <1>4, <1>10
  <2> QED
    BY <2>1, <2>2, Jointly
<1>15. Joint(y, x, r, ByteSet, 36, 32, 68)
  <2>1. 36 \in Nat /\ 32 \in Nat /\ 68 \in Nat /\ 68 = 36 + 32
    OBVIOUS
  <2>2. Long(x, ByteSet, 36) /\ Long(r, ByteSet, 32) /\ y = x \o r
    BY <1>5, <1>14, <1>11 DEF Joint
  <2> QED
    BY <2>1, <2>2, Jointly
<1>16. Joint(z, y, c, ByteSet, 68, 4, 72)
  <2>1. 68 \in Nat /\ 4 \in Nat /\ 72 \in Nat /\ 72 = 68 + 4
    OBVIOUS
  <2>2. Long(y, ByteSet, 68) /\ Long(c, ByteSet, 4) /\ z = y \o c
    BY <1>6, <1>15, <1>12 DEF Joint
  <2> QED
    BY <2>1, <2>2, Jointly
<1>17. Joint(w, z, b, ByteSet, 72, 4, 76)
  <2>1. 72 \in Nat /\ 4 \in Nat /\ 76 \in Nat /\ 76 = 72 + 4
    OBVIOUS
  <2>2. Long(z, ByteSet, 72) /\ Long(b, ByteSet, 4) /\ w = z \o b
    BY <1>7, <1>16, <1>13 DEF Joint
  <2> QED
    BY <2>1, <2>2, Jointly
<1>18. ASSUME NEW p \in 1 .. 76 PROVE w[p] = HeaderAt(p)
  <2>1. CASE p \in 1 .. 4
    <3>1. w[p] = v[p]
      BY <1>14, <1>15, <1>16, <1>17, <2>1 DEF Joint
    <3> QED
      BY <1>3, <2>1, <3>1 DEF HeaderAt
  <2>2. CASE p \in 5 .. 36
    <3>1. PICK k \in 1 .. 32 : k = p - 4 /\ 4 + k = p
      BY <2>2
    <3>2. w[p] = h[k]
      BY <1>14, <1>15, <1>16, <1>17, <2>2, <3>1 DEF Joint
    <3> QED
      <4>1. HeaderAt(p) = <<"previousblockhash", 37 - p>> /\ 37 - p = 33 - k
        BY <2>2, <3>1 DEF HeaderAt
      <4> QED
        BY <1>4, <3>2, <4>1
  <2>3. CASE p \in 37 .. 68
    <3>1. PICK k \in 1 .. 32 : k = p - 36 /\ 36 + k = p
      BY <2>3
    <3>2. w[p] = r[k]
      BY <1>15, <1>16, <1>17, <2>3, <3>1 DEF Joint
    <3> QED
      <4>1. HeaderAt(p) = <<"root", p - 36>> /\ p - 36 = k
        BY <2>3, <3>1 DEF HeaderAt
      <4> QED
        BY <1>5, <3>2, <4>1
  <2>4. CASE p \in 69 .. 72
    <3>1. PICK k \in 1 .. 4 : k = p - 68 /\ 68 + k = p
      BY <2>4
    <3>2. w[p] = c[k]
      BY <1>16, <1>17, <2>4, <3>1 DEF Joint
    <3> QED
      BY <1>6, <2>4, <3>1, <3>2 DEF HeaderAt
  <2>5. CASE p \in 73 .. 76
    <3>1. PICK k \in 1 .. 4 : k = p - 72 /\ 72 + k = p
      BY <2>5
    <3>2. w[p] = b[k]
      BY SMTT(60), <1>17, <2>5, <3>1 DEF Joint
    <3> QED
      BY <1>7, <2>5, <3>1, <3>2 DEF HeaderAt
  <2> QED
    BY <2>1, <2>2, <2>3, <2>4, <2>5
<1> QED
  BY Zenon, <1>8, <1>10, <1>11, <1>12, <1>13, <1>17, <1>18 DEF Joint

(* The words of the header that the code assembles. *)
LEMMA HeaderWords ==
  /\ Len(assemble_header) = 19
  /\ \A i \in 1 .. 19 : /\ Long(assemble_header[i], ByteSet, 4)
                        /\ \A k \in 1 .. 4 : assemble_header[i][k] = HeaderAt(4 * (i - 1) + k)
<1> DEFINE V == Seq(ByteSet)
           word(name, j) == Bytes(name, 4 * j - 3, 4 * j)
           v == <<Reverse(word("version", 1))>>
           hs == [j \in 1 .. 8 |-> Reverse(word("previousblockhash", j))]
           h == Reverse(hs)
           r == [j \in 1 .. 8 |-> word("root", j)]
           e == <<Reverse(word("curtime", 1)), Reverse(word("bits", 1))>>
<1>0. 4 * 1 - 3 = 1 /\ 4 * 1 = 4
  OBVIOUS
<1>1. assemble_header = v \o h \o r \o e
  BY <1>0 DEF assemble_header, swab32, le32dec, be32dec, Words
<1>2. /\ "version" \in ByteNames /\ "previousblockhash" \in ByteNames /\ "root" \in ByteNames
      /\ "curtime" \in ByteNames /\ "bits" \in ByteNames
  BY DEF ByteNames
<1>3. ASSUME NEW name \in ByteNames, NEW j \in 1 .. 8
      PROVE  /\ Long(word(name, j), ByteSet, 4) /\ Long(Reverse(word(name, j)), ByteSet, 4)
             /\ \A k \in 1 .. 4 : /\ word(name, j)[k] = <<name, 4 * j - 4 + k>>
                                 /\ Reverse(word(name, j))[k] = <<name, 4 * j + 1 - k>>
  <2>1. PICK a \in Nat, b \in Nat : a = 4 * j - 3 /\ b = 4 * j /\ a <= b /\ b - a + 1 = 4
    OBVIOUS
  <2>2. /\ Long(Bytes(name, a, b), ByteSet, b - a + 1) /\ Long(Reverse(Bytes(name, a, b)), ByteSet, b - a + 1)
        /\ \A k \in 1 .. b - a + 1 : /\ Bytes(name, a, b)[k] = <<name, a + k - 1>>
                                    /\ Reverse(Bytes(name, a, b))[k] = <<name, b + 1 - k>>
    BY <2>1, BytesLong
  <2>3. word(name, j) = Bytes(name, a, b)
    BY <2>1
  <2>4. \A k \in 1 .. 4 : a + k - 1 = 4 * j - 4 + k /\ b + 1 - k = 4 * j + 1 - k
    BY <2>1
  <2> HIDE DEF word
  <2> QED
    BY <2>1, <2>2, <2>3, <2>4
<1> HIDE DEF word
<1>4. \A name \in ByteNames, j \in 1 .. 8 : word(name, j) \in V /\ Reverse(word(name, j)) \in V
  BY <1>3 DEF Long
<1>5. Long(v, V, 1) /\ v[1] = Reverse(word("version", 1))
  <2>1. Reverse(word("version", 1)) \in V /\ 1 \in 1 .. 8
    BY <1>2, <1>4
  <2> HIDE DEF V
  <2> QED
    BY <2>1 DEF Long
<1>6. Long(h, V, 8) /\ \A j \in 1 .. 8 : h[j] = Reverse(word("previousblockhash", 9 - j))
  <2>1. Len(hs) = 8 /\ \A j \in 1 .. 8 : hs[j] = Reverse(word("previousblockhash", j))
    OBVIOUS
  <2>2. h = [j \in 1 .. 8 |-> hs[(8 - j) + 1]]
    BY <2>1 DEF Reverse
  <2>3. \A j \in 1 .. 8 : (8 - j) + 1 = 9 - j /\ 9 - j \in 1 .. 8
    OBVIOUS
  <2> HIDE DEF hs, h, V
  <2>4. \A j \in 1 .. 8 : h[j] = Reverse(word("previousblockhash", 9 - j)) /\ h[j] \in V
    BY <1>2, <1>4, <2>1, <2>2, <2>3
  <2>5. h \in [1 .. 8 -> V]
    BY <2>2, <2>4
  <2>6. Long(h, V, 8)
    <3>1. PICK n \in Nat : n = 8
      OBVIOUS
    <3>2. h \in [1 .. n -> V]
      BY <2>5, <3>1
    <3>3. Long(h, V, n)
      BY <3>2, LongFunction
    <3> QED
      BY <3>1, <3>3
  <2> QED
    BY Zenon, <2>4, <2>6
<1>7. Long(r, V, 8) /\ \A j \in 1 .. 8 : r[j] = word("root", j)
  <2> HIDE DEF V
  <2>1. r \in [1 .. 8 -> V]
    BY <1>2, <1>4
  <2> QED
    BY <2>1 DEF Long
<1>8. Long(e, V, 2) /\ e[1] = Reverse(word("curtime", 1)) /\ e[2] = Reverse(word("bits", 1))
  <2>1. Reverse(word("curtime", 1)) \in V /\ Reverse(word("bits", 1)) \in V
    <3>1. 1 \in 1 .. 8
      OBVIOUS
    <3> QED
      BY <1>2, <1>4, <3>1
  <2> HIDE DEF V
  <2> QED
    BY <2>1 DEF Long
<1> HIDE DEF V, v, h, r, e
<1>9. PICK x : x = v \o h
  OBVIOUS
<1>10. PICK y : y = x \o r
  OBVIOUS
<1>11. PICK z : z = y \o e
  OBVIOUS
<1>12. Joint(x, v, h, V, 1, 8, 9)
  <2>1. 1 \in Nat /\ 8 \in Nat /\ 9 \in Nat /\ 9 = 1 + 8
    OBVIOUS
  <2> QED
    BY <1>5, <1>6, <1>9, <2>1, Jointly
<1>13. Joint(y, x, r, V, 9, 8, 17)
  <2>1. 9 \in Nat /\ 8 \in Nat /\ 17 \in Nat /\ 17 = 9 + 8
    OBVIOUS
  <2>2. Long(x, V, 9)
    BY Zenon, <1>12 DEF Joint
  <2> QED
    BY <1>7, <1>10, <2>1, <2>2, Jointly
<1>14. Joint(z, y, e, V, 17, 2, 19)
  <2>1. 17 \in Nat /\ 2 \in Nat /\ 19 \in Nat /\ 19 = 17 + 2
    OBVIOUS
  <2>2. Long(y, V, 17)
    BY Zenon, <1>13 DEF Joint
  <2> QED
    BY <1>8, <1>11, <2>1, <2>2, Jointly
<1>17. ASSUME NEW name \in ByteNames
       PROVE  /\ Long(Reverse(word(name, 1)), ByteSet, 4)
              /\ \A k \in 1 .. 4 : Reverse(word(name, 1))[k] = <<name, 4 * 1 + 1 - k>>
  <2>1. 1 \in 1 .. 8
    OBVIOUS
  <2> QED
    BY Zenon, <1>3, <2>1
<1>15. ASSUME NEW i \in 1 .. 19
       PROVE  /\ Long(z[i], ByteSet, 4)
              /\ \A k \in 1 .. 4 : z[i][k] = HeaderAt(4 * (i - 1) + k)
  <2>1. CASE i = 1
    <3>1. z[i] = Reverse(word("version", 1))
      BY <1>5, <1>12, <1>13, <1>14, <2>1 DEF Joint
    <3>2. \A k \in 1 .. 4 : HeaderAt(4 * (i - 1) + k) = <<"version", 4 * 1 + 1 - k>>
      BY <2>1 DEF HeaderAt
    <3> QED
      BY Zenon, <1>2, <1>17, <3>1, <3>2
  <2>2. CASE i \in 2 .. 9
    <3>1. PICK j \in 1 .. 8 : j = i - 1 /\ 1 + j = i
      BY <2>2
    <3>2. z[i] = h[j]
      BY <1>12, <1>13, <1>14, <2>2, <3>1 DEF Joint
    <3>3. PICK l \in 1 .. 8 : l = 9 - j
      OBVIOUS
    <3>4. z[i] = Reverse(word("previousblockhash", l))
      BY <1>6, <3>2, <3>3
    <3>5. \A k \in 1 .. 4 : HeaderAt(4 * (i - 1) + k) = <<"previousblockhash", 4 * l + 1 - k>>
      BY <3>1, <3>3 DEF HeaderAt
    <3> QED
      <4>1. /\ Long(Reverse(word("previousblockhash", l)), ByteSet, 4)
            /\ \A k \in 1 .. 4 : Reverse(word("previousblockhash", l))[k] = <<"previousblockhash", 4 * l + 1 - k>>
        BY Zenon, <1>2, <1>3
      <4> QED
        BY Zenon, <3>4, <3>5, <4>1
  <2>3. CASE i \in 10 .. 17
    <3>1. PICK j \in 1 .. 8 : j = i - 9 /\ 9 + j = i
      BY <2>3
    <3>2. z[i] = r[j]
      BY <1>13, <1>14, <2>3, <3>1 DEF Joint
    <3>3. z[i] = word("root", j)
      BY <1>7, <3>2
    <3>4. \A k \in 1 .. 4 : HeaderAt(4 * (i - 1) + k) = <<"root", 4 * j - 4 + k>>
      BY <3>1 DEF HeaderAt
    <3> QED
      <4>1. /\ Long(word("root", j), ByteSet, 4)
            /\ \A k \in 1 .. 4 : word("root", j)[k] = <<"root", 4 * j - 4 + k>>
        BY Zenon, <1>2, <1>3
      <4> QED
        BY Zenon, <3>3, <3>4, <4>1
  <2>4. CASE i = 18
    <3>1. z[i] = Reverse(word("curtime", 1))
      <4>1. z[17 + 1] = e[1]
        BY <1>14 DEF Joint
      <4> QED
        BY <1>8, <2>4, <4>1
    <3>2. \A k \in 1 .. 4 : HeaderAt(4 * (i - 1) + k) = <<"curtime", 4 * 1 + 1 - k>>
      BY <2>4 DEF HeaderAt
    <3> QED
      BY Zenon, <1>2, <1>17, <3>1, <3>2
  <2>5. CASE i = 19
    <3>1. z[i] = Reverse(word("bits", 1))
      <4>1. z[17 + 2] = e[2]
        BY <1>14 DEF Joint
      <4> QED
        BY <1>8, <2>5, <4>1
    <3>2. \A k \in 1 .. 4 : HeaderAt(4 * (i - 1) + k) = <<"bits", 4 * 1 + 1 - k>>
      BY <2>5 DEF HeaderAt
    <3> QED
      BY Zenon, <1>2, <1>17, <3>1, <3>2
  <2> QED
    BY <2>1, <2>2, <2>3, <2>4, <2>5
<1>16. Len(z) = 19
  BY <1>14 DEF Joint, Long
<1> QED
  BY Zenon, <1>1, <1>9, <1>10, <1>11, <1>15, <1>16

(* The header has the bytes of the reference where the consensus wants them. *)
LEMMA HeaderBytes == FlattenSeq(assemble_header) = ReferenceHeader
<1>1. PICK s : s = assemble_header
  OBVIOUS
<1>2. PICK n \in Nat \ {0} : n = 19
  OBVIOUS
<1>3. Len(s) = n /\ \A i \in 1 .. n : Long(s[i], ByteSet, 4)
  BY <1>1, <1>2, HeaderWords
<1>4. PICK f : f = FlattenSeq(s)
  OBVIOUS
<1>5. Flat(f, s, ByteSet, n)
  BY <1>3, <1>4, FlattenWords
<1>6. PICK h : h = ReferenceHeader
  OBVIOUS
<1>7. Long(h, ByteSet, 4 * n) /\ \A p \in 1 .. 76 : h[p] = HeaderAt(p)
  <2>1. 4 * n = 76
    BY <1>2
  <2> QED
    BY <1>6, <2>1, ReferenceAt
<1>8. \A i \in 1 .. n, k \in 1 .. 4 : s[i][k] = h[4 * (i - 1) + k]
  <2> TAKE i \in 1 .. n, k \in 1 .. 4
  <2>1. PICK p \in 1 .. 76 : p = 4 * (i - 1) + k
    BY <1>2
  <2>2. s[i][k] = HeaderAt(p)
    BY <1>1, <1>2, <2>1, HeaderWords
  <2> QED
    BY <1>7, <2>1, <2>2
<1>9. f = h
  <2>1. n \in Nat
    OBVIOUS
  <2> QED
    BY <1>5, <1>7, <1>8, <2>1, SameBytes
<1> QED
  BY <1>1, <1>4, <1>6, <1>9

-----------------------------------------------------------------------------
(* The height in the coinbase. *)

(* The loop over the bytes of a height. *)
Low(n) == <<n % 256>> \o (IF n \in 128 .. 255 THEN <<0>> ELSE <<>>)

(* g is what the loop makes of each number. *)
Peels(g) == /\ g \in [Nat -> Seq(Nat)]
            /\ \A n \in Nat : g[n] = IF n = 0 THEN <<>> ELSE Low(n) \o g[n \div 256]

(* The bytes of one round are numbers.                                      *)
LEMMA LowBytes ==
  ASSUME NEW n \in Nat
  PROVE  Low(n) \in Seq(Nat)
BY DEF Low

(* The loop ends, since the number shrinks. *)
LEMMA HeightLoop ==
  ASSUME NEW height \in Nat
  PROVE  \E g : /\ Peels(g)
                /\ bip34_height(height) = IF height \in 1 .. 16 THEN <<height + 80, 0>>
                                          ELSE <<Len(g[height])>> \o g[height]
<1> DEFINE S == Seq(Nat)
           rank == [n \in Nat |-> n]
           rest == [n \in Nat |-> n \div 256]
           step == [p \in Nat \X S |-> Low(p[1]) \o p[2]]
           Reads(g) == g = [n \in Nat |-> IF n = 0 THEN <<>> ELSE Low(n) \o g[n \div 256]]
           le == CHOOSE g : Reads(g)
<1>1. rank \in [Nat -> Nat] /\ rest \in [Nat -> Nat] /\ <<>> \in S
  OBVIOUS
<1>2. \A n \in Nat : rank[n] # 0 => rank[rest[n]] < rank[n]
  OBVIOUS
<1>3. step \in [Nat \X S -> S]
  <2> SUFFICES ASSUME NEW n \in Nat, NEW s \in S PROVE Low(n) \o s \in S
    OBVIOUS
  <2> QED
    BY LowBytes
<1>4. PICK G \in [Nat -> S] : Descends(G, Nat, rank, rest, <<>>, step)
  <2> HIDE DEF S, rank, rest, step
  <2> QED
    BY <1>1, <1>2, <1>3, Descent
<1>5. ASSUME NEW n \in Nat PROVE G[n] = IF n = 0 THEN <<>> ELSE Low(n) \o G[n \div 256]
  <2>1. G[n] = IF rank[n] = 0 THEN <<>> ELSE step[<<n, G[rest[n]]>>]
    <3> HIDE DEF rank, rest, step
    <3> QED
      BY <1>4 DEF Descends
  <2>2. rank[n] = n /\ rest[n] = n \div 256 /\ n \div 256 \in Nat
    OBVIOUS
  <2>3. G[n \div 256] \in S
    BY <1>4, <2>2
  <2>4. <<n, G[n \div 256]>> \in Nat \X S
    BY <2>3
  <2>5. step[<<n, G[n \div 256]>>] = Low(n) \o G[n \div 256]
    BY <2>4
  <2> HIDE DEF S, rank, rest, step
  <2> QED
    BY <2>1, <2>2, <2>5
<1>6. Reads(le)
  <2>1. Reads(G)
    BY ZenonT(60), <1>4, <1>5
  <2> HIDE DEF Reads
  <2> QED
    BY <2>1
<1>7. bip34_height(height) = IF height \in 1 .. 16 THEN <<height + 80, 0>>
                             ELSE <<Len(le[height])>> \o le[height]
  BY Zenon DEF bip34_height, Low
<1> HIDE DEF le
<1>8. \A n \in Nat : le[n] = IF n = 0 THEN <<>> ELSE Low(n) \o le[n \div 256]
  BY ZenonT(60), <1>6
<1> DEFINE K == {k \in Nat : \A n \in Nat : n <= k => le[n] \in S}
<1>9. \A k \in Nat : k \in K
  <2> TAKE k \in Nat
  <2>1. 0 \in K
    <3>1. \A n \in Nat : n <= 0 => n = 0
      OBVIOUS
    <3>2. le[0] \in S
      BY ZenonT(60), <1>1, <1>8
    <3> HIDE DEF S
    <3> QED
      BY <3>1, <3>2
  <2>2. \A m \in 0 .. k : m \in K /\ m < k => m + 1 \in K
    <3> SUFFICES ASSUME NEW m \in Nat, m \in K, NEW n \in Nat, n <= m + 1 PROVE le[n] \in S
      <4> HIDE DEF S
      <4> QED
        OBVIOUS
    <3>1. CASE n = 0
      BY <1>8, <3>1
    <3>2. CASE n # 0
      <4>1. n \div 256 \in Nat /\ n \div 256 <= m
        BY <3>2
      <4>2. le[n \div 256] \in S
        BY <4>1
      <4>3. Low(n) \in S
        BY LowBytes
      <4>4. le[n] = Low(n) \o le[n \div 256]
        BY <1>8, <3>2
      <4> QED
        BY <4>2, <4>3, <4>4
    <3> QED
      BY <3>1, <3>2
  <2>3. 0 .. k \subseteq K
    <3> HIDE DEF K
    <3> QED
      BY <2>1, <2>2, SetInduction
  <2>4. k \in 0 .. k
    OBVIOUS
  <2> HIDE DEF K
  <2> QED
    BY <2>3, <2>4
<1>10. \A n \in Nat : le[n] \in S
  <2> TAKE n \in Nat
  <2>1. n \in K
    BY <1>9
  <2> QED
    BY <2>1
<1>11. le = [n \in Nat |-> IF n = 0 THEN <<>> ELSE Low(n) \o le[n \div 256]]
  BY <1>6
<1>12. le \in [Nat -> S]
  BY <1>10, <1>11
<1>13. Peels(le)
  BY <1>8, <1>12 DEF Peels
<1> QED
  BY <1>7, <1>13

(* Byte i of a number, which has no more than Len(s). *)
At(s, i) == IF i <= Len(s) THEN s[i] ELSE 0

(* The bytes s of the number n: little-endian, no sign, none too many. *)
Spells(s, n) ==
  /\ s \in Seq(Nat)
  /\ Len(s) >= 1
  /\ n = Value(At(s, 1), At(s, 2), At(s, 3), At(s, 4))
  /\ s[Len(s)] < 128
  /\ s[Len(s)] > 0 \/ (Len(s) >= 2 /\ s[Len(s) - 1] > 127)

(* A byte goes before the bytes of the number above it.                     *)
LEMMA Spelled ==
  ASSUME NEW s \in Seq(Nat), NEW m \in Nat, NEW n \in Nat, NEW k \in 1 .. 3,
         Spells(s, m), Len(s) <= k, m = n \div 256
  PROVE  Spells(<<n % 256>> \o s, n) /\ Len(<<n % 256>> \o s) <= k + 1
<1> DEFINE lo == n % 256
           t == <<lo>> \o s
<1>1. lo \in Nat /\ n = lo + 256 * m
  OBVIOUS
<1>2. PICK l \in 1 .. 3 : l = Len(s)
  <2>1. Len(s) \in Nat /\ Len(s) >= 1 /\ Len(s) <= k
    BY DEF Spells
  <2>2. PICK l \in Nat : l = Len(s)
    BY <2>1
  <2>3. l \in 1 .. 3
    BY SMTT(60), <2>1, <2>2
  <2> QED
    BY <2>2, <2>3
<1> HIDE DEF lo
<1>3. t \in Seq(Nat) /\ Len(t) = 1 + l /\ t[1] = lo /\ \A i \in 1 .. l : t[i + 1] = s[i]
  BY <1>1, <1>2
<1> HIDE DEF t
<1>4. At(t, 1) = lo /\ At(t, 2) = At(s, 1) /\ At(t, 3) = At(s, 2) /\ At(t, 4) = At(s, 3)
      /\ At(s, 4) = 0
  <2>1. At(t, 1) = lo
    BY <1>2, <1>3 DEF At
  <2>2. ASSUME NEW i \in 1 .. 3 PROVE At(t, i + 1) = At(s, i)
    <3>1. CASE i <= l
      BY <1>2, <1>3, <3>1 DEF At
    <3>2. CASE ~ i <= l
      BY <1>2, <1>3, <3>2 DEF At
    <3> QED
      BY <3>1, <3>2
  <2>3. At(t, 1 + 1) = At(s, 1) /\ At(t, 2 + 1) = At(s, 2) /\ At(t, 3 + 1) = At(s, 3)
    BY <2>2
  <2>4. At(s, 4) = 0
    BY <1>2 DEF At
  <2> QED
    BY <2>1, <2>3, <2>4
<1>5. n = Value(At(t, 1), At(t, 2), At(t, 3), At(t, 4))
  <2>1. m = Value(At(s, 1), At(s, 2), At(s, 3), 0)
    BY <1>4 DEF Spells
  <2>2. At(s, 1) \in Nat /\ At(s, 2) \in Nat /\ At(s, 3) \in Nat
    BY DEF At
  <2>3. ASSUME NEW a \in Nat, NEW b \in Nat, NEW c \in Nat, m = Value(a, b, c, 0)
        PROVE  n = Value(lo, a, b, c)
    BY SMT, <1>1, <2>3 DEF Value
  <2>4. n = Value(lo, At(s, 1), At(s, 2), At(s, 3))
    BY <2>1, <2>2, <2>3
  <2> QED
    BY <1>4, <2>4
<1>6. t[1 + l] = s[l] /\ (l >= 2 => t[l] = s[l - 1])
  <2>1. l + 1 = 1 + l /\ l \in 1 .. l /\ (l >= 2 => l - 1 \in 1 .. l /\ (l - 1) + 1 = l)
    BY <1>2
  <2> QED
    BY <1>3, <2>1
<1>7. Spells(t, n)
  BY SMTT(60), <1>2, <1>3, <1>5, <1>6 DEF Spells
<1>8. Len(t) <= k + 1
  BY <1>2, <1>3
<1> QED
  BY <1>7, <1>8 DEF t, lo

(* One round of the loop.                                                   *)
LEMMA PeelsAt ==
  ASSUME NEW g, Peels(g), NEW n \in Nat
  PROVE  /\ g[n] = IF n = 0 THEN <<>> ELSE Low(n) \o g[n \div 256]
         /\ g[n] \in Seq(Nat)
<1>1. g[n] = IF n = 0 THEN <<>> ELSE Low(n) \o g[n \div 256]
  BY Zenon DEF Peels
<1>2. g[n] \in Seq(Nat)
  BY Zenon DEF Peels
<1> QED
  BY Zenon, <1>1, <1>2

(* What one round writes.                                                   *)
LEMMA LowIs ==
  ASSUME NEW n \in Nat
  PROVE  Low(n) = IF n \in 128 .. 255 THEN <<n % 256>> \o <<0>> ELSE <<n % 256>>
<1>1. <<n % 256>> \in Seq(Nat)
  OBVIOUS
<1>2. <<n % 256>> \o <<>> = <<n % 256>>
  BY <1>1, ConcatEmptySeq
<1>3. CASE n \in 128 .. 255
  BY Zenon, <1>3 DEF Low
<1>4. CASE n \notin 128 .. 255
  BY Zenon, <1>2, <1>4 DEF Low
<1> QED
  BY Zenon, <1>3, <1>4

(* A byte alone, with a zero behind it when its top bit is set. *)
LEMMA SpelledByte ==
  ASSUME NEW n \in 1 .. 255
  PROVE  /\ Spells(Low(n), n) /\ Len(Low(n)) <= 2
         /\ n < 128 => Len(Low(n)) <= 1
<1>0. n % 256 = n /\ n \in Nat
  OBVIOUS
<1>5. Low(n) = IF n \in 128 .. 255 THEN <<n>> \o <<0>> ELSE <<n>>
  BY ZenonT(60), <1>0, LowIs
<1>6. n = Value(n, 0, 0, 0)
  BY SMT DEF Value
<1>1. CASE n \in 1 .. 127
  <2>1. n \notin 128 .. 255
    BY <1>1
  <2>2. Low(n) = <<n>>
    BY Zenon, <1>5, <2>1
  <2> DEFINE u == <<n>>
  <2>3. u \in Seq(Nat) /\ Len(u) = 1 /\ u[1] = n
    OBVIOUS
  <2> HIDE DEF u
  <2>4. At(u, 1) = n /\ At(u, 2) = 0 /\ At(u, 3) = 0 /\ At(u, 4) = 0
    BY <2>3 DEF At
  <2>5. Spells(u, n)
    BY <1>1, <1>6, <2>3, <2>4 DEF Spells
  <2>6. Low(n) = u
    BY Zenon, <2>2 DEF u
  <2> QED
    BY <2>6, <2>3, <2>5
<1>2. CASE n \in 128 .. 255
  <2>2. Low(n) = <<n>> \o <<0>>
    BY Zenon, <1>5, <1>2
  <2> DEFINE u == <<n>> \o <<0>>
  <2>3. u \in Seq(Nat) /\ Len(u) = 2 /\ u[1] = n /\ u[2] = 0
    OBVIOUS
  <2> HIDE DEF u
  <2>4. At(u, 1) = n /\ At(u, 2) = 0 /\ At(u, 3) = 0 /\ At(u, 4) = 0
    BY <2>3 DEF At
  <2>5. Spells(u, n)
    BY <1>2, <1>6, <2>3, <2>4 DEF Spells
  <2>6. Low(n) = u
    BY Zenon, <2>2 DEF u
  <2> QED
    BY <1>2, <2>6, <2>3, <2>5
<1> QED
  BY <1>1, <1>2

(* Of a longer number, the lowest byte goes before the bytes of the rest. *)
LEMMA SpelledMore ==
  ASSUME NEW g, Peels(g), NEW n \in Nat, n >= 256, NEW k \in 1 .. 3,
         Spells(g[n \div 256], n \div 256), Len(g[n \div 256]) <= k
  PROVE  Spells(g[n], n) /\ Len(g[n]) <= k + 1
<1>1. g[n] = Low(n) \o g[n \div 256]
  <2>1. n # 0
    OBVIOUS
  <2> QED
    BY ZenonT(60), <2>1, PeelsAt
<1>2. Low(n) = <<n % 256>>
  <2>1. n \notin 128 .. 255
    OBVIOUS
  <2> QED
    BY Zenon, <2>1, LowIs
<1>3. n \div 256 \in Nat
  OBVIOUS
<1>4. PICK m \in Nat : m = n \div 256
  BY <1>3
<1>5. g[m] \in Seq(Nat)
  BY Zenon, PeelsAt
<1>6. Spells(<<n % 256>> \o g[m], n) /\ Len(<<n % 256>> \o g[m]) <= k + 1
  <2>1. Spells(g[m], m) /\ Len(g[m]) <= k
    BY Zenon, <1>4
  <2> QED
    BY <1>4, <1>5, <2>1, Spelled
<1> QED
  BY ZenonT(60), <1>1, <1>2, <1>4, <1>6

(* What k bytes and a sign can hold. *)
Top(k) == IF k = 1 THEN 128 ELSE IF k = 2 THEN 32768
          ELSE IF k = 3 THEN 8388608 ELSE 2147483648

(* A number without its lowest byte needs a byte less.                      *)
LEMMA TopShrinks ==
  ASSUME NEW k \in 1 .. 3, NEW n \in Nat, n < Top(k + 1), n >= 256
  PROVE  n \div 256 \in Nat /\ 1 <= n \div 256 /\ n \div 256 < Top(k)
BY SMT DEF Top

(* The loop writes a number of one byte as it should,                       *)
LEMMA DigitsOne ==
  ASSUME NEW g, Peels(g), NEW n \in 1 .. 255
  PROVE  Spells(g[n], n) /\ Len(g[n]) <= 2 /\ (n < 128 => Len(g[n]) <= 1)
<1>1. n \in Nat /\ n # 0 /\ n \div 256 = 0 /\ 0 \in Nat
  OBVIOUS
<1>2. g[n] = Low(n) \o g[0] /\ g[0] = <<>>
  <2>1. g[n] = Low(n) \o g[n \div 256]
    BY ZenonT(60), <1>1, PeelsAt
  <2>2. g[0] = IF 0 = 0 THEN <<>> ELSE Low(0) \o g[0 \div 256]
    BY Zenon, <1>1, PeelsAt
  <2>3. g[0] = <<>>
    BY Zenon, <2>2
  <2> QED
    BY Zenon, <1>1, <2>1, <2>3
<1>3. Low(n) \o <<>> = Low(n)
  BY <1>1, LowBytes, ConcatEmptySeq
<1>4. g[n] = Low(n)
  BY Zenon, <1>2, <1>3
<1> QED
  BY Zenon, <1>4, SpelledByte

(* ... and one with a byte more.                                            *)
LEMMA DigitsMore ==
  ASSUME NEW g, Peels(g), NEW k \in 1 .. 3,
         \A x \in Nat : 1 <= x /\ x < Top(k) => Spells(g[x], x) /\ Len(g[x]) <= k,
         NEW n \in Nat, 1 <= n, n < Top(k + 1)
  PROVE  Spells(g[n], n) /\ Len(g[n]) <= k + 1
<1>1. CASE n < 256
  <2>1. n \in 1 .. 255
    BY <1>1
  <2>2. Spells(g[n], n) /\ Len(g[n]) <= 2
    BY Zenon, <2>1, DigitsOne
  <2>3. g[n] \in Seq(Nat)
    BY Zenon, PeelsAt
  <2> QED
    BY <2>2, <2>3
<1>2. CASE n >= 256
  <2>1. n \div 256 \in Nat /\ 1 <= n \div 256 /\ n \div 256 < Top(k)
    BY Zenon, <1>2, TopShrinks
  <2>2. Spells(g[n \div 256], n \div 256) /\ Len(g[n \div 256]) <= k
    BY Zenon, <2>1
  <2> QED
    BY Zenon, <1>2, <2>2, SpelledMore
<1> QED
  BY <1>1, <1>2

(* A height is spelled with no more than four bytes. *)
LEMMA Digits ==
  ASSUME NEW g, Peels(g), NEW n \in Nat, 1 <= n, n < Top(4)
  PROVE  Spells(g[n], n) /\ Len(g[n]) <= 4
<1> DEFINE P(k) == \A x \in Nat : 1 <= x /\ x < Top(k) => Spells(g[x], x) /\ Len(g[x]) <= k
<1>1. P(1)
  <2> TAKE x \in Nat
  <2>1. Top(1) = 128
    BY DEF Top
  <2>2. 1 <= x /\ x < Top(1) => x \in 1 .. 255 /\ x < 128
    BY <2>1
  <2> QED
    BY Zenon, <2>2, DigitsOne
<1>2. ASSUME NEW k \in 1 .. 3, P(k) PROVE P(k + 1)
  BY Zenon, <1>2, DigitsMore
<1>3. 1 + 1 = 2 /\ 2 + 1 = 3 /\ 3 + 1 = 4 /\ 1 \in 1 .. 3 /\ 2 \in 1 .. 3 /\ 3 \in 1 .. 3
  OBVIOUS
<1> HIDE DEF P
<1>4. P(4)
  <2>1. P(2)
    BY Zenon, <1>1, <1>2, <1>3
  <2>2. P(3)
    BY Zenon, <2>1, <1>2, <1>3
  <2> QED
    BY Zenon, <2>2, <1>2, <1>3
<1> QED
  BY Zenon, <1>4 DEF P
(* s begins with the bytes b. *)
Leads(b, s) == /\ b \in Seq(Nat) /\ s \in Seq(Nat) /\ Len(b) <= Len(s)
               /\ \A i \in 1 .. Len(b) : s[i] = b[i]

(* The length of a number that is spelled.                                  *)
LEMMA SpelledLength ==
  ASSUME NEW num, NEW h, Spells(num, h), Len(num) <= 4
  PROVE  \E l \in 1 .. 4 : l = Len(num)
<1>1. num \in Seq(Nat) /\ Len(num) >= 1
  BY Zenon DEF Spells
<1>2. PICK l \in Nat : l = Len(num)
  BY <1>1
<1>3. l \in 1 .. 4
  BY SMTT(60), <1>1, <1>2
<1> QED
  BY Zenon, <1>2, <1>3

(* The first push of a script with s[1] bytes to push. *)
LEMMA PushRead ==
  ASSUME NEW num, NEW h, Spells(num, h), Len(num) <= 4,
         NEW s, Leads(<<Len(num)>> \o num, s)
  PROVE  /\ FirstPush(s) = <<h, 1 + Len(num)>>
         /\ s[1 + Len(num)] = num[Len(num)]
         /\ Len(num) >= 2 => s[Len(num)] = num[Len(num) - 1]
<1>1. num \in Seq(Nat) /\ Len(num) >= 1
  BY DEF Spells
<1>2. PICK l \in 1 .. 4 : l = Len(num)
  BY Zenon, SpelledLength
<1> DEFINE b == <<l>> \o num
<1>3. Len(b) = l + 1 /\ b[1] = l /\ \A i \in 1 .. l : b[1 + i] = num[i]
  BY <1>1, <1>2
<1>4. Leads(b, s)
  BY <1>2
<1> HIDE DEF b
<1>5. s[1] = l /\ \A i \in 1 .. l : s[1 + i] = num[i]
  <2>1. \A j \in 1 .. l + 1 : s[j] = b[j]
    BY <1>3, <1>4 DEF Leads
  <2>2. 1 \in 1 .. l + 1 /\ \A i \in 1 .. l : 1 + i \in 1 .. l + 1
    OBVIOUS
  <2> QED
    BY <1>3, <2>1, <2>2
<1> DEFINE B(i) == IF i <= s[1] THEN s[1 + i] ELSE 0
<1>6. FirstPush(s) = <<Value(B(1), B(2), B(3), B(4)), 1 + s[1]>>
  <2>1. s[1] \notin 81 .. 96 /\ s[1] <= 4
    BY <1>5
  <2> QED
    BY Zenon, <2>1 DEF FirstPush
<1>7. B(1) = At(num, 1) /\ B(2) = At(num, 2) /\ B(3) = At(num, 3) /\ B(4) = At(num, 4)
  <2>1. ASSUME NEW i \in 1 .. 4 PROVE B(i) = At(num, i)
    <3>1. CASE i <= l
      BY <1>2, <1>5, <3>1 DEF At
    <3>2. CASE ~ i <= l
      BY <1>2, <1>5, <3>2 DEF At
    <3> QED
      BY <3>1, <3>2
  <2> HIDE DEF B
  <2> QED
    BY <2>1
<1> HIDE DEF B
<1>8. FirstPush(s) = <<h, 1 + Len(num)>>
  <2>1. h = Value(At(num, 1), At(num, 2), At(num, 3), At(num, 4))
    BY Zenon DEF Spells
  <2> QED
    BY Zenon, <1>2, <1>5, <1>6, <1>7, <2>1
<1>9. l \in 1 .. l /\ (l >= 2 => l - 1 \in 1 .. l /\ 1 + (l - 1) = l)
  OBVIOUS
<1> QED
  BY <1>2, <1>5, <1>8, <1>9

(* The script signature of BIP 34 and what a node reads of it. *)
HeightRead(b, s, h) ==
  /\ b \in Seq(Nat) /\ Len(b) \in 2 .. 5
  /\ FirstPush(s)[1] = h
  /\ FirstPush(s)[2] + (IF h \in 1 .. 16 THEN 1 ELSE 0) = Len(b)
  /\ h > 16 => s[Len(b)] < 128 /\ (s[Len(b)] > 0 \/ s[Len(b) - 1] > 127)

(* The heights that have an opcode of their own.                            *)
LEMMA SmallHeight ==
  ASSUME NEW h \in 1 .. 16, NEW s, Leads(<<h + 80, 0>>, s)
  PROVE  HeightRead(<<h + 80, 0>>, s, h)
<1>1. Len(<<h + 80, 0>>) = 2 /\ <<h + 80, 0>> \in Seq(Nat) /\ <<h + 80, 0>>[1] = h + 80
  OBVIOUS
<1>2. s[1] = h + 80
  BY <1>1 DEF Leads
<1>3. s[1] \in 81 .. 96
  BY <1>2
<1>4. FirstPush(s) = <<s[1] - 80, 1>>
  BY Zenon, <1>3 DEF FirstPush
<1>5. FirstPush(s)[1] = h /\ FirstPush(s)[2] = 1
  BY <1>2, <1>4
<1> QED
  BY <1>1, <1>5 DEF HeightRead

(* Whatever follows it, the script signature of BIP 34 is read as the height. *)
LEMMA HeightPush ==
  ASSUME NEW h \in Nat, 1 <= h, h < Top(4), NEW s, Leads(bip34_height(h), s)
  PROVE  HeightRead(bip34_height(h), s, h)
<1>1. PICK g : /\ Peels(g)
               /\ bip34_height(h) = IF h \in 1 .. 16 THEN <<h + 80, 0>>
                                    ELSE <<Len(g[h])>> \o g[h]
  BY Zenon, HeightLoop
<1>2. CASE h \in 1 .. 16
  <2>1. bip34_height(h) = <<h + 80, 0>>
    BY Zenon, <1>1, <1>2
  <2> QED
    BY Zenon, <1>2, <2>1, SmallHeight
<1>3. CASE h \notin 1 .. 16
  <2> DEFINE num == g[h]
             b == <<Len(num)>> \o num
  <2>1. bip34_height(h) = b
    BY Zenon, <1>1, <1>3
  <2>2. Spells(num, h) /\ Len(num) <= 4
    BY Zenon, <1>1, Digits
  <2> HIDE DEF num
  <2>3. /\ FirstPush(s) = <<h, 1 + Len(num)>>
        /\ s[1 + Len(num)] = num[Len(num)]
        /\ Len(num) >= 2 => s[Len(num)] = num[Len(num) - 1]
    BY Zenon, <2>1, <2>2, PushRead
  <2>4. PICK l \in 1 .. 4 : l = Len(num)
    BY Zenon, <2>2, SpelledLength
  <2>5. b \in Seq(Nat) /\ Len(b) = 1 + l
    BY <2>2, <2>4 DEF Spells
  <2>6. num[l] < 128 /\ (num[l] > 0 \/ (l >= 2 /\ num[l - 1] > 127))
    BY <2>2, <2>4 DEF Spells
  <2> HIDE DEF b
  <2>7. FirstPush(s)[1] = h /\ FirstPush(s)[2] = 1 + l
    BY <2>3, <2>4
  <2>8. s[Len(b)] < 128 /\ (s[Len(b)] > 0 \/ s[Len(b) - 1] > 127)
    <3>1. (1 + l) - 1 = l
      OBVIOUS
    <3>2. s[1 + l] = num[l] /\ (l >= 2 => s[l] = num[l - 1])
      BY Zenon, <2>3, <2>4
    <3> QED
      BY <2>5, <2>6, <3>1, <3>2
  <2>9. HeightRead(b, s, h)
    BY <1>3, <2>5, <2>7, <2>8 DEF HeightRead
  <2> QED
    BY Zenon, <2>1, <2>9
<1> QED
  BY Zenon, <1>2, <1>3

-----------------------------------------------------------------------------
(* What follows it. *)

(* What stands for a byte of the signature and of the auxiliary data.       *)
Mark == {253, 254}
Marks == Seq(Mark)

(* One entry taken if it fits. *)
Taken(x, len, n, what) == IF len + Len(x) + n <= 100 THEN x \o [i \in 1 .. n |-> what] ELSE x

(* x may follow len bytes of a script signature.                            *)
Behind(x, len) == x \in Marks /\ len + Len(x) <= 100

(* What is taken so far leaves the script within its 100 bytes. *)
Room(len) == {p \in [x : Marks, good : BOOLEAN] : Behind(p.x, len)}

(* One entry of the auxiliary data.                                         *)
Took(p, len, n) == IF p.good /\ n \in 0 .. 100 THEN [p EXCEPT !.x = Taken(p.x, len, n, 254)]
                   ELSE [p EXCEPT !.good = FALSE]

(* They are bytes.                                                          *)
LEMMA MarksTyped ==
  ASSUME NEW x \in Marks
  PROVE  x \in Seq(Nat)
BY DEF Marks, Mark

(* What is taken fits.                                                      *)
LEMMA TakenTyped ==
  ASSUME NEW len \in Nat, NEW x, Behind(x, len), NEW n \in Nat, NEW what \in Mark
  PROVE  Behind(Taken(x, len, n, what), len)
<1>0. x \in Marks /\ len + Len(x) <= 100
  BY DEF Behind
<1>1. PICK l \in Nat : l = Len(x)
  BY <1>0 DEF Marks
<1>2. CASE len + Len(x) + n <= 100
  <2> DEFINE y == [i \in 1 .. n |-> what]
  <2>1. y \in Marks /\ Len(y) = n
    BY DEF Marks
  <2> HIDE DEF y
  <2>2. x \o y \in Marks /\ Len(x \o y) = l + n
    BY <1>0, <1>1, <2>1 DEF Marks
  <2>3. Taken(x, len, n, what) = x \o y
    BY Zenon, <1>2 DEF Taken, y
  <2>4. len + (l + n) <= 100
    BY <1>1, <1>2
  <2> QED
    BY <2>2, <2>3, <2>4 DEF Behind
<1>3. CASE ~ len + Len(x) + n <= 100
  BY <1>3 DEF Taken
<1> QED
  BY <1>2, <1>3

(* So it does after every entry, whatever it is.                            *)
LEMMA TookTyped ==
  ASSUME NEW len \in Nat, NEW p \in Room(len), NEW n
  PROVE  Took(p, len, n) \in Room(len)
<1>1. p \in [x : Marks, good : BOOLEAN] /\ Behind(p.x, len)
  BY Zenon DEF Room
<1>2. CASE p.good /\ n \in 0 .. 100
  <2> DEFINE y == Taken(p.x, len, n, 254)
  <2>1. n \in Nat /\ 254 \in Mark
    BY <1>2 DEF Mark
  <2>2. Behind(y, len)
    BY ZenonT(60), <1>1, <2>1, TakenTyped
  <2>3. Took(p, len, n) = [p EXCEPT !.x = y]
    BY Zenon, <1>2 DEF Took
  <2> HIDE DEF y
  <2>4. y \in Marks
    BY Zenon, <2>2 DEF Behind
  <2>5. [p EXCEPT !.x = y] \in [x : Marks, good : BOOLEAN] /\ [p EXCEPT !.x = y].x = y
    BY <1>1, <2>4
  <2> QED
    BY Zenon, <2>2, <2>3, <2>5 DEF Room
<1>3. CASE ~ (p.good /\ n \in 0 .. 100)
  <2>1. Took(p, len, n) = [p EXCEPT !.good = FALSE]
    BY Zenon, <1>3 DEF Took
  <2>2. /\ [p EXCEPT !.good = FALSE] \in [x : Marks, good : BOOLEAN]
        /\ [p EXCEPT !.good = FALSE].x = p.x
    BY <1>1
  <2> QED
    BY Zenon, <1>1, <2>1, <2>2 DEF Room
<1> QED
  BY <1>2, <1>3

(* Whatever the signature and the auxiliary data, what goes behind the     *)
(* script signature still fits.                                            *)
LEMMA XsigTyped ==
  ASSUME NEW len \in Nat, len <= 100, NEW sig \in Nat, NEW aux, Len(aux) \in Nat
  PROVE  Behind(xsig(len, sig, aux), len)
<1> DEFINE S == Room(len)
           n == Len(aux)
           step == [q \in (1 .. n) \X S |-> Took(q[2], len, aux[q[1]])]
           c == [x |-> Taken(<<>>, len, sig, 253), good |-> TRUE]
           Loops(g) == g = [i \in 0 .. n |-> IF i = 0 THEN c ELSE Took(g[i - 1], len, aux[i])]
           taken == CHOOSE g : Loops(g)
<1>1. xsig(len, sig, aux) = taken[n].x
  BY Zenon DEF xsig, Took, Taken
<1>2. c \in S
  <2> DEFINE y == Taken(<<>>, len, sig, 253)
  <2>1. <<>> \in Marks /\ Len(<<>>) = 0
    BY DEF Marks
  <2>2. Behind(<<>>, len) /\ 253 \in Mark
    BY <2>1 DEF Behind, Mark
  <2>3. Behind(y, len)
    BY Zenon, <2>2, TakenTyped
  <2>4. c = [x |-> y, good |-> TRUE]
    BY Zenon
  <2> HIDE DEF y, c
  <2>5. y \in Marks
    BY Zenon, <2>3 DEF Behind
  <2> QED
    BY <2>3, <2>4, <2>5 DEF Room
<1>3. n \in Nat
  OBVIOUS
<1>4. \A p \in S : \A i : Took(p, len, aux[i]) \in S
  BY TookTyped
<1> HIDE DEF S, c, n
<1>5. step \in [(1 .. n) \X S -> S]
  BY <1>4
<1>6. PICK g \in [0 .. n -> S] : Recursive(g, c, step, n)
  <2> HIDE DEF step
  <2> QED
    BY <1>2, <1>3, <1>5, Recursion
<1>7. \A i \in 0 .. n : g[i] = IF i = 0 THEN c ELSE Took(g[i - 1], len, aux[i])
  <2> TAKE i \in 0 .. n
  <2>1. CASE i = 0
    BY <1>6, <2>1 DEF Recursive
  <2>2. CASE i # 0
    <3>1. i \in 1 .. n /\ g[i - 1] \in S
      BY <1>3, <1>6, <2>2
    <3>2. step[<<i, g[i - 1]>>] = Took(g[i - 1], len, aux[i])
      BY <3>1
    <3> HIDE DEF step
    <3> QED
      BY <1>6, <2>2, <3>1, <3>2 DEF Recursive
  <2> QED
    BY <2>1, <2>2
<1>8. Loops(taken)
  <2>1. Loops(g)
    BY <1>6, <1>7
  <2> HIDE DEF Loops
  <2> QED
    BY <2>1
<1> HIDE DEF taken
<1>9. \A i \in 0 .. n : taken[i] = IF i = 0 THEN c ELSE Took(taken[i - 1], len, aux[i])
  BY <1>8
<1> DEFINE K == {i \in Nat : taken[i] \in S}
<1>10. 0 .. n \subseteq K
  <2>1. 0 \in K
    BY <1>2, <1>3, <1>9
  <2>2. ASSUME NEW i \in 0 .. n, i \in K, i < n PROVE i + 1 \in K
    <3>1. i + 1 \in 0 .. n /\ i + 1 # 0 /\ (i + 1) - 1 = i
      BY <1>3, <2>2
    <3> QED
      BY <1>4, <1>9, <2>2, <3>1
  <2> HIDE DEF K
  <2> QED
    BY <1>3, <2>1, <2>2, SetInduction
<1>11. taken[n] \in S
  <2>1. n \in 0 .. n
    BY <1>3
  <2> QED
    BY <1>10, <2>1
<1> QED
  BY Zenon, <1>1, <1>11 DEF S, Room

(* What may follow len bytes of a script signature: it fits, and is one    *)
(* push or, when there is no room for an opcode, the plain data.           *)
Follows(s, len) ==
  /\ s \in Seq(Nat)
  /\ len + Len(s) <= 100
  /\ s # <<>> /\ s[1] < 253 => PushedData(s).len = Len(PushedData(s).data)
  /\ s # <<>> /\ s[1] >= 253 => len + Len(s) > 98

(* Data behind one byte that tells its length. *)
LEMMA PushedShort ==
  ASSUME NEW x \in Marks, NEW l \in 1 .. 75, Len(x) = l, NEW len \in Nat, len + l < 76
  PROVE  Follows(<<l>> \o x, len) /\ Len(<<l>> \o x) = 1 + l
<1> DEFINE s == <<l>> \o x
<1>1. x \in Seq(Nat)
  BY DEF Marks, Mark
<1>2. s \in Seq(Nat) /\ Len(s) = 1 + l /\ s[1] = l
  BY <1>1
<1> HIDE DEF s
<1>3. PushedData(s) = [len |-> s[1], data |-> SubSeq(s, 2, 1 + l)]
  <2>1. s[1] # 76 /\ 2 - 1 = 1
    BY <1>2
  <2> QED
    BY Zenon, <1>2, <2>1 DEF PushedData
<1>4. Len(SubSeq(s, 2, 1 + l)) = l
  BY <1>2
<1>5. PushedData(s).len = Len(PushedData(s).data)
  BY <1>2, <1>3, <1>4
<1>6. Follows(s, len)
  BY <1>2, <1>5 DEF Follows
<1> QED
  BY Zenon, <1>2, <1>6 DEF s

(* ... behind OP_PUSHDATA1 and its length. *)
LEMMA PushedLong ==
  ASSUME NEW x \in Marks, NEW l \in 1 .. 98, Len(x) = l, NEW len \in Nat, len + 2 + l <= 100
  PROVE  Follows(<<76, l>> \o x, len) /\ Len(<<76, l>> \o x) = 2 + l
<1> DEFINE s == <<76, l>> \o x
<1>1. x \in Seq(Nat)
  BY DEF Marks, Mark
<1>2. s \in Seq(Nat) /\ Len(s) = 2 + l /\ s[1] = 76 /\ s[2] = l
  BY <1>1
<1> HIDE DEF s
<1>3. PushedData(s) = [len |-> s[2], data |-> SubSeq(s, 3, 2 + l)]
  <2>1. 3 - 1 = 2
    OBVIOUS
  <2> QED
    BY Zenon, <1>2, <2>1 DEF PushedData
<1>4. Len(SubSeq(s, 3, 2 + l)) = l
  BY <1>2
<1>5. PushedData(s).len = Len(PushedData(s).data)
  BY <1>2, <1>3, <1>4
<1>6. Follows(s, len)
  BY <1>2, <1>5 DEF Follows
<1> QED
  BY Zenon, <1>2, <1>6 DEF s

(* ... or as it is. *)
LEMMA PushedPlain ==
  ASSUME NEW x \in Marks, NEW l \in Nat, Len(x) = l, l >= 1, NEW len \in Nat,
         len + l <= 100, len + 2 + l > 100
  PROVE  Follows(x, len)
<1>1. x \in Seq(Nat)
  BY DEF Marks, Mark
<1>2. x[1] \in Mark
  BY DEF Marks
<1>3. x[1] >= 253
  BY <1>2 DEF Mark
<1> QED
  BY <1>1, <1>3 DEF Follows

(* What append_xsig makes of a coinbase: the script signature goes on with *)
(* a legal tail, and the coinbase grows by as much.                        *)
Appends(r, ssig, size) ==
  \E s : /\ Follows(s, Len(ssig))
         /\ r.ssig = ssig \o s
         /\ r.size = size + Len(s)

(* Nothing may follow.                                                      *)
LEMMA TailNone ==
  ASSUME NEW ssig \in Seq(Nat), Len(ssig) <= 100, NEW size \in Nat,
         NEW r, r.ssig = ssig, r.size = size
  PROVE  Appends(r, ssig, size)
<1>1. <<>> \in Seq(Nat) /\ Len(<<>>) = 0 /\ ssig \o <<>> = ssig
  BY ConcatEmptySeq
<1>2. PICK e : e = <<>>
  OBVIOUS
<1>3. Follows(e, Len(ssig)) /\ ssig = ssig \o e /\ size = size + Len(e)
  BY <1>1, <1>2 DEF Follows
<1> QED
  BY Zenon, <1>3 DEF Appends

(* What is left of the two bytes of an opcode.                              *)
LEMMA Opcodes ==
  ASSUME NEW l \in Nat
  PROVE  /\ SubSeq(<<76, l>>, 2, 2) = <<l>>
         /\ SubSeq(<<76, l>>, 3, 2) = <<>>
         /\ SubSeq(<<76, l>>, 1, 2) = <<76, l>>
<1> DEFINE t == <<76, l>>
<1>1. t \in Seq(Nat) /\ Len(t) = 2 /\ t[1] = 76 /\ t[2] = l
  OBVIOUS
<1> HIDE DEF t
<1>2. SubSeq(t, 2, 2) = <<l>>
  <2>1. /\ SubSeq(t, 2, 2) \in Seq(Nat) /\ Len(SubSeq(t, 2, 2)) = 1
        /\ SubSeq(t, 2, 2)[1] = l
    BY <1>1
  <2>2. <<l>> \in Seq(Nat) /\ Len(<<l>>) = 1 /\ <<l>>[1] = l
    OBVIOUS
  <2>3. \A i \in 1 .. 1 : SubSeq(t, 2, 2)[i] = <<l>>[i]
    <3> TAKE i \in 1 .. 1
    <3>1. i = 1
      OBVIOUS
    <3> QED
      BY <2>1, <2>2, <3>1
  <2> QED
    BY Zenon, <2>1, <2>2, <2>3, SeqEqual
<1>3. SubSeq(t, 3, 2) = <<>>
  <2>1. SubSeq(t, 3, 2) \in Seq(Nat) /\ Len(SubSeq(t, 3, 2)) = 0
    BY <1>1
  <2> QED
    BY Zenon, <2>1, EmptySeq
<1>4. SubSeq(t, 1, 2) = t
  <2>1. /\ SubSeq(t, 1, 2) \in Seq(Nat) /\ Len(SubSeq(t, 1, 2)) = 2
        /\ \A i \in 1 .. 2 : SubSeq(t, 1, 2)[i] = t[i]
    BY <1>1
  <2> QED
    BY ZenonT(60), <1>1, <2>1, SeqEqual
<1> QED
  BY Zenon, <1>2, <1>3, <1>4 DEF t

(* In which order three sequences are joined does not matter.               *)
LEMMA Grouped ==
  ASSUME NEW a \in Seq(Nat), NEW b \in Seq(Nat), NEW c \in Seq(Nat)
  PROVE  (a \o b) \o c = a \o (b \o c)
BY SMTT(60), ConcatAssociative

(* The three ways in which data may follow. *)
LEMMA TailOf ==
  ASSUME NEW ssig \in Seq(Nat), NEW size \in Nat, NEW r,
         NEW x \in Marks, NEW op \in Seq(Nat), NEW pl \in Nat, NEW l \in Nat, Len(x) = l,
         r.ssig = (ssig \o op) \o x, r.size = size + pl + l,
         Len(op \o x) = pl + l, Follows(op \o x, Len(ssig))
  PROVE  Appends(r, ssig, size)
<1>1. x \in Seq(Nat)
  BY Zenon, MarksTyped
<1>2. r.ssig = ssig \o (op \o x)
  BY Zenon, <1>1, Grouped
<1>3. r.size = size + Len(op \o x)
  OBVIOUS
<1> QED
  BY Zenon, <1>2, <1>3 DEF Appends

(* Which of them is taken depends on the room there is. *)
push(len, l) == IF len + l < 76 THEN 1 ELSE IF len + 2 + l > 100 THEN 0 ELSE 2

(* Each of them is legal where it is taken.                                 *)
LEMMA TailLegal ==
  ASSUME NEW ssig \in Seq(Nat), NEW size \in Nat, NEW r, NEW len \in Nat, len = Len(ssig),
         NEW x \in Marks, NEW l \in Nat, Len(x) = l, l >= 1, len + l <= 100,
         r.ssig = (ssig \o SubSeq(<<76, l>>, 3 - push(len, l), 2)) \o x,
         r.size = size + push(len, l) + l
  PROVE  Appends(r, ssig, size)
<1>1. CASE len + l < 76
  <2>1. push(len, l) = 1 /\ 3 - push(len, l) = 2
    BY <1>1 DEF push
  <2>2. r.ssig = (ssig \o <<l>>) \o x /\ r.size = size + 1 + l
    BY Zenon, <2>1, Opcodes
  <2>3. l \in 1 .. 75 /\ <<l>> \in Seq(Nat) /\ 1 \in Nat
    BY <1>1
  <2>4. Follows(<<l>> \o x, Len(ssig)) /\ Len(<<l>> \o x) = 1 + l
    BY Zenon, <1>1, <2>3, PushedShort
  <2> QED
    BY Zenon, <2>2, <2>3, <2>4, TailOf
<1>2. CASE ~ len + l < 76 /\ len + 2 + l > 100
  <2>1. push(len, l) = 0 /\ 3 - push(len, l) = 3
    BY <1>2 DEF push
  <2>2. r.ssig = (ssig \o <<>>) \o x /\ r.size = size + 0 + l
    <3>1. SubSeq(<<76, l>>, 3 - push(len, l), 2) = <<>>
      BY <2>1, Opcodes
    <3> QED
      BY <2>1, <3>1
  <2>3. <<>> \in Seq(Nat) /\ 0 \in Nat /\ 0 + l = l
    OBVIOUS
  <2>4. <<>> \o x = x
    BY ConcatEmptySeq DEF Marks
  <2>5. Follows(x, Len(ssig))
    BY Zenon, <1>2, PushedPlain
  <2> QED
    BY ZenonT(60), <2>2, <2>3, <2>4, <2>5, TailOf
<1>3. CASE ~ len + l < 76 /\ ~ len + 2 + l > 100
  <2>1. push(len, l) = 2 /\ 3 - push(len, l) = 1
    BY <1>3 DEF push
  <2>2. r.ssig = (ssig \o <<76, l>>) \o x /\ r.size = size + 2 + l
    BY ZenonT(60), <2>1, Opcodes
  <2>3. l \in 1 .. 98 /\ len + 2 + l <= 100 /\ <<76, l>> \in Seq(Nat) /\ 2 \in Nat
    BY SMTT(60), <1>3
  <2>4. Follows(<<76, l>> \o x, Len(ssig)) /\ Len(<<76, l>> \o x) = 2 + l
    BY Zenon, <2>3, PushedLong
  <2> QED
    BY ZenonT(60), <2>2, <2>3, <2>4, TailOf
<1> QED
  BY Zenon, <1>1, <1>2, <1>3

(* append_xsig, for every signature and every auxiliary data.               *)
LEMMA AppendXsig ==
  ASSUME NEW ssig \in Seq(Nat), Len(ssig) <= 100, NEW script, NEW commit, NEW size \in Nat,
         NEW cb, cb = [ssig |-> ssig, script |-> script, commit |-> commit, size |-> size],
         NEW sig \in Nat, NEW aux, Len(aux) \in Nat
  PROVE  Appends(append_xsig(cb, sig, aux), ssig, size)
<1>1. cb.ssig = ssig /\ cb.size = size
  OBVIOUS
<1>2. PICK len \in Nat : len = Len(ssig)
  OBVIOUS
<1>3. PICK x : x = xsig(len, sig, aux)
  OBVIOUS
<1>4. PICK r : r = append_xsig(cb, sig, aux)
  OBVIOUS
<1>5. r = IF x = <<>> THEN cb
          ELSE [cb EXCEPT !.ssig = @ \o SubSeq(<<76, Len(x)>>, 3 - push(len, Len(x)), 2) \o x,
                          !.size = @ + push(len, Len(x)) + Len(x)]
  BY ZenonT(60), <1>1, <1>2, <1>3, <1>4 DEF append_xsig, push
<1>6. x \in Marks /\ len + Len(x) <= 100
  <2>1. Behind(x, len)
    BY Zenon, <1>2, <1>3, XsigTyped
  <2> QED
    BY Zenon, <2>1 DEF Behind
<1>7. CASE x = <<>>
  <2>1. r.ssig = ssig /\ r.size = size
    BY Zenon, <1>1, <1>5, <1>7
  <2> QED
    BY Zenon, <1>4, <2>1, TailNone
<1>8. CASE x # <<>>
  <2>1. PICK l \in Nat : l = Len(x) /\ l >= 1
    BY <1>6, <1>8 DEF Marks
  <2>2. r = [cb EXCEPT !.ssig = @ \o SubSeq(<<76, l>>, 3 - push(len, l), 2) \o x,
                       !.size = @ + push(len, l) + l]
    BY Zenon, <1>5, <1>8, <2>1
  <2>3. /\ r.ssig = (ssig \o SubSeq(<<76, l>>, 3 - push(len, l), 2)) \o x
        /\ r.size = size + push(len, l) + l
    BY <1>1, <2>2
  <2>4. len + l <= 100
    BY <1>6, <2>1
  <2> QED
    BY Zenon, <1>2, <1>4, <1>6, <2>1, <2>3, <2>4, TailLegal
<1> QED
  BY Zenon, <1>7, <1>8

-----------------------------------------------------------------------------
(* The coinbase as a whole. *)

(* The script signature of BIP 34 is a sequence of numbers.                 *)
LEMMA HeightTyped ==
  ASSUME NEW h \in Nat, 1 <= h, h < Top(4)
  PROVE  bip34_height(h) \in Seq(Nat)
<1>1. PICK g : /\ Peels(g)
               /\ bip34_height(h) = IF h \in 1 .. 16 THEN <<h + 80, 0>>
                                    ELSE <<Len(g[h])>> \o g[h]
  BY Zenon, HeightLoop
<1>2. <<h + 80, 0>> \in Seq(Nat)
  OBVIOUS
<1>3. g[h] \in Seq(Nat)
  BY Zenon, <1>1, PeelsAt
<1>4. <<Len(g[h])>> \o g[h] \in Seq(Nat)
  <2>1. PICK s \in Seq(Nat) : s = g[h]
    BY Zenon, <1>3
  <2>2. <<Len(s)>> \o s \in Seq(Nat)
    OBVIOUS
  <2> QED
    BY Zenon, <2>1, <2>2
<1> QED
  BY Zenon, <1>1, <1>2, <1>4

(* What follows the first bytes of a script. *)
LEMMA RestOf ==
  ASSUME NEW b \in Seq(Nat), NEW s \in Seq(Nat), NEW n \in Nat, n = Len(b)
  PROVE  /\ SubSeq(b \o s, n + 1, Len(b \o s)) = s
         /\ Leads(b, b \o s)
         /\ Len(b \o s) = n + Len(s)
<1>1. PICK m \in Nat : m = Len(s)
  OBVIOUS
<1> DEFINE u == b \o s
<1>2. /\ u \in Seq(Nat) /\ Len(u) = n + m
      /\ \A i \in 1 .. n : u[i] = b[i]
      /\ \A i \in 1 .. m : u[n + i] = s[i]
  BY <1>1
<1> HIDE DEF u
<1>3. SubSeq(u, n + 1, n + m) = s
  <2> DEFINE v == SubSeq(u, n + 1, n + m)
  <2>1. v \in Seq(Nat) /\ Len(v) = m /\ \A i \in 1 .. m : v[i] = u[n + i]
    <3>1. \A i \in n + 1 .. n + m : u[i] \in Nat
      BY <1>2
    <3>2. (n + m) - (n + 1) + 1 = m /\ (n + 1 <= n + m <=> m > 0)
      OBVIOUS
    <3>3. v \in Seq(Nat) /\ Len(v) = m
      BY SMTT(60), <3>1, <3>2, SubSeqProperties
    <3>4. \A i \in 1 .. (n + m) - (n + 1) + 1 : v[i] = u[(n + 1) + i - 1]
      BY <3>1, SubSeqProperties
    <3>5. ASSUME NEW i \in 1 .. m PROVE v[i] = u[n + i]
      <4>1. i \in 1 .. (n + m) - (n + 1) + 1 /\ (n + 1) + i - 1 = n + i
        OBVIOUS
      <4> QED
        BY Zenon, <3>4, <4>1
    <3> QED
      BY Zenon, <3>3, <3>5
  <2> HIDE DEF v
  <2>2. \A i \in 1 .. m : v[i] = s[i]
    BY <1>2, <2>1
  <2>3. v = s
    BY Zenon, <1>1, <2>1, <2>2, SeqEqual
  <2> QED
    BY Zenon, <2>3 DEF v
<1>4. Leads(b, u)
  BY <1>2 DEF Leads
<1> QED
  BY Zenon, <1>1, <1>2, <1>3, <1>4 DEF u

(* A coinbase that the miner builds is legal. *)
LEMMA LegalBuilt ==
  ASSUME NEW t, t.cbtxn = 0, t.height \in Nat, 1 <= t.height, t.height < Top(4),
         NEW b, b = bip34_height(t.height), NEW cb, NEW n \in 0 .. 42,
         NEW size \in Nat, size <= 107 + Len(b) + n, Appends(cb, b, size)
  PROVE  Legal(t, cb)
<1>1. b \in Seq(Nat)
  BY Zenon, HeightTyped
<1>2. PICK s : Follows(s, Len(b)) /\ cb.ssig = b \o s /\ cb.size = size + Len(s)
  BY Zenon DEF Appends
<1>3. s \in Seq(Nat)
  BY Zenon, <1>2 DEF Follows
<1>4. PICK l \in Nat : l = Len(b)
  BY <1>1
<1>5. PICK m \in Nat : m = Len(s)
  BY <1>3
<1>6. PICK u : u = b \o s
  OBVIOUS
<1>7. SubSeq(u, l + 1, Len(u)) = s /\ Leads(b, u) /\ Len(u) = l + m
  BY ZenonT(60), <1>1, <1>3, <1>4, <1>5, <1>6, RestOf
<1>8. HeightRead(b, u, t.height)
  BY Zenon, <1>7, HeightPush
<1>9. l \in 2 .. 5 /\ l + m <= 100
  <2>1. Len(b) \in 2 .. 5
    BY Zenon, <1>8 DEF HeightRead
  <2>2. Len(b) + Len(s) <= 100
    BY Zenon, <1>2 DEF Follows
  <2> QED
    BY <1>4, <1>5, <2>1, <2>2
<1>10. Len(u) \in 2 .. 100 /\ cb.size <= 256
  <2>1. size <= 107 + l + n
    BY Zenon, <1>4
  <2>2. l + m \in 2 .. 100 /\ size + m <= 256
    BY <1>9, <2>1
  <2> QED
    BY Zenon, <1>2, <1>5, <1>7, <2>2
<1>11. FirstPush(u)[2] + (IF t.height \in 1 .. 16 THEN 1 ELSE 0) = l /\ FirstPush(u)[1] = t.height
  BY Zenon, <1>4, <1>8 DEF HeightRead
<1>12. t.height > 16 => u[l] < 128 /\ (u[l] > 0 \/ u[l - 1] > 127)
  BY Zenon, <1>4, <1>8 DEF HeightRead
<1>13. s # <<>> /\ s[1] < 253 => PushedData(s).len = Len(PushedData(s).data)
  BY Zenon, <1>2 DEF Follows
<1>14. s # <<>> /\ s[1] >= 253 => Len(u) > 98
  <2>1. s # <<>> /\ s[1] >= 253 => Len(b) + Len(s) > 98
    BY Zenon, <1>2 DEF Follows
  <2> QED
    BY Zenon, <1>4, <1>5, <1>7, <2>1
<1>15. ~ t.cbtxn > 0
  OBVIOUS
<1>16. cb.ssig = u
  BY Zenon, <1>2, <1>6
<1> DEFINE n0 == IF t.cbtxn > 0 THEN t.cbtxn
                 ELSE FirstPush(cb.ssig)[2] + (IF t.height \in 1 .. 16 THEN 1 ELSE 0)
           rest == SubSeq(cb.ssig, n0 + 1, Len(cb.ssig))
<1>17. n0 = l
  BY Zenon, <1>11, <1>15, <1>16
<1>18. rest = s
  <2> HIDE DEF n0
  <2> QED
    BY Zenon, <1>7, <1>16, <1>17
<1>19. Legal(t, cb) <=>
         /\ Len(cb.ssig) \in 2 .. 100
         /\ t.cbtxn = 0 =>
              /\ FirstPush(cb.ssig)[1] = t.height
              /\ t.height > 16 => cb.ssig[n0] < 128 /\ (cb.ssig[n0] > 0 \/ cb.ssig[n0 - 1] > 127)
              /\ cb.size <= 256
         /\ t.cbtxn > 0 => cb.size <= given_coinbase(t).size + 100
         /\ rest # <<>> /\ rest[1] < 253 => PushedData(rest).len = Len(PushedData(rest).data)
         /\ rest # <<>> /\ rest[1] >= 253 => Len(cb.ssig) > 98
  BY Zenon DEF Legal
<1> HIDE DEF n0, rest
<1> QED
  BY ZenonT(60), <1>10, <1>11, <1>12, <1>13, <1>14, <1>15, <1>16, <1>17, <1>18, <1>19

(* ... and so is one that came with the template. *)
LEMMA LegalGiven ==
  ASSUME NEW t, t.cbtxn \in 2 .. 100, NEW b \in Seq(Nat), Len(b) = t.cbtxn, NEW cb,
         NEW size \in Nat, size = given_coinbase(t).size, Appends(cb, b, size)
  PROVE  Legal(t, cb)
<1>1. PICK n \in 2 .. 100 : n = t.cbtxn
  OBVIOUS
<1>2. PICK s : Follows(s, Len(b)) /\ cb.ssig = b \o s /\ cb.size = size + Len(s)
  BY Zenon DEF Appends
<1>3. s \in Seq(Nat)
  BY Zenon, <1>2 DEF Follows
<1>4. n \in Nat /\ t.cbtxn > 0 /\ ~ t.cbtxn = 0
  <2>1. n \in Nat /\ n > 0 /\ ~ n = 0
    OBVIOUS
  <2> QED
    BY Zenon, <1>1, <2>1
<1>5. PICK m \in Nat : m = Len(s)
  BY <1>3
<1>6. PICK u : u = b \o s
  OBVIOUS
<1>7. SubSeq(u, n + 1, Len(u)) = s /\ Len(u) = n + m
  BY Zenon, <1>1, <1>3, <1>4, <1>5, <1>6, RestOf
<1>8. n + m <= 100
  BY Zenon, <1>1, <1>2, <1>5 DEF Follows
<1>9. Len(u) \in 2 .. 100 /\ cb.size <= size + 100
  <2>1. n + m \in 2 .. 100 /\ size + m <= size + 100
    BY <1>8
  <2> QED
    BY Zenon, <1>2, <1>5, <1>7, <2>1
<1>10. s # <<>> /\ s[1] < 253 => PushedData(s).len = Len(PushedData(s).data)
  BY Zenon, <1>2 DEF Follows
<1>11. s # <<>> /\ s[1] >= 253 => Len(u) > 98
  BY Zenon, <1>1, <1>2, <1>5, <1>7 DEF Follows
<1>12. cb.ssig = u /\ t.cbtxn = n
  BY Zenon, <1>1, <1>2, <1>6
<1> QED
  BY Zenon, <1>4, <1>7, <1>9, <1>10, <1>11, <1>12 DEF Legal

(* What gbt_work_decode needs of a template. *)
Sound(t) == /\ Len(t.txs) \in Nat /\ Len(t.aux) \in Nat
            /\ t.height \in Nat /\ 1 <= t.height /\ t.height < Top(4)
            /\ t.cbtxn = 0 \/ t.cbtxn \in 2 .. 100

(* So the coinbase of a sound template is legal.                            *)
LEMMA CoinbaseDecoded ==
  ASSUME NEW t, Sound(t), NEW script, NEW n \in 0 .. 42, n = Len(script), NEW sig \in {0, 30}
  PROVE  Legal(t, gbt_work_decode(t, script, sig).cb)
<1>1. sig \in Nat
  OBVIOUS
<1>2. PICK cb : cb = gbt_work_decode(t, script, sig).cb
  OBVIOUS
<1>3. CASE t.cbtxn = 0
  <2>1. cb = append_xsig(build_coinbase(t, script), sig, t.aux)
    BY <1>2, <1>3 DEF gbt_work_decode
  <2>2. PICK b : b = bip34_height(t.height)
    OBVIOUS
  <2>3. b \in Seq(Nat)
    BY Zenon, <2>2, HeightTyped DEF Sound
  <2>4. PICK l \in Nat : l = Len(b)
    BY <2>3
  <2>5. l \in 2 .. 5
    <3>1. Leads(b, b)
      BY <2>3 DEF Leads
    <3>2. HeightRead(b, b, t.height)
      BY Zenon, <2>2, <3>1, HeightPush DEF Sound
    <3> QED
      BY Zenon, <2>4, <3>2 DEF HeightRead
  <2>6. PICK commit : commit = IF t.segwit THEN witness_commitment(t.txs) ELSE Zero
    OBVIOUS
  <2>7. PICK size : size = 42 + l + 4 + 1 + 8 + 1 + n + (IF t.segwit THEN 8 + 7 + 32 ELSE 0) + 4
    OBVIOUS
  <2>8. size \in Nat /\ size <= 107 + l + n
    BY <2>7
  <2>9. build_coinbase(t, script) = [ssig |-> b, script |-> script, commit |-> commit, size |-> size]
    BY Zenon, <2>2, <2>4, <2>6, <2>7 DEF build_coinbase
  <2>10. Len(b) <= 100
    <3>1. l <= 100
      BY <2>5
    <3> QED
      BY Zenon, <2>4, <3>1
  <2>11. Len(t.aux) \in Nat
    BY Zenon DEF Sound
  <2>12. Appends(cb, b, size)
    BY Zenon, <1>1, <2>1, <2>3, <2>8, <2>9, <2>10, <2>11, AppendXsig
  <2>13. size <= 107 + Len(b) + n
    BY Zenon, <2>4, <2>8
  <2>14. Legal(t, cb)
    BY Zenon, <1>3, <2>2, <2>8, <2>12, <2>13, LegalBuilt DEF Sound
  <2> QED
    BY Zenon, <1>2, <2>14
<1>4. CASE t.cbtxn \in 2 .. 100
  <2>1. PICK k \in 2 .. 100 : k = t.cbtxn
    BY <1>4
  <2>2. PICK b : b = [i \in 1 .. k |-> 0]
    OBVIOUS
  <2>3. b \in Seq(Nat) /\ Len(b) = k
    BY <2>2
  <2>4. given_coinbase(t) = [ssig |-> b, script |-> <<>>, commit |-> Zero, size |-> 100 + k]
    BY Zenon, <2>1, <2>2 DEF given_coinbase
  <2>5. PICK cb0 : cb0 = given_coinbase(t)
    OBVIOUS
  <2>6. cb0.ssig = b /\ cb0.size = 100 + k /\ 100 + k \in Nat
    BY <2>4, <2>5
  <2>7. t.cbtxn > 0
    <3>1. k > 0
      OBVIOUS
    <3> QED
      BY Zenon, <2>1, <3>1
  <2>8. cb = IF t.append \/ t.cbtxn = 0 THEN append_xsig(cb0, sig, t.aux) ELSE cb0
    BY <1>2, <2>5, <2>7 DEF gbt_work_decode
  <2>9. Len(b) <= 100 /\ Len(t.aux) \in Nat
    BY <2>3 DEF Sound
  <2>10. Appends(append_xsig(cb0, sig, t.aux), b, 100 + k)
    <3>1. PICK size \in Nat : size = 100 + k
      BY Zenon, <2>6
    <3>2. cb0 = [ssig |-> b, script |-> <<>>, commit |-> Zero, size |-> size]
      BY Zenon, <2>4, <2>5, <3>1
    <3>3. /\ b \in Seq(Nat) /\ Len(b) <= 100
          /\ sig \in Nat /\ Len(t.aux) \in Nat
      BY Zenon, <1>1, <2>3, <2>9
    <3>4. Appends(append_xsig(cb0, sig, t.aux), b, size)
      BY Zenon, <3>2, <3>3, AppendXsig
    <3> QED
      BY Zenon, <3>1, <3>4
  <2>11. Appends(cb0, b, 100 + k)
    BY Zenon, <2>3, <2>6, <2>9, TailNone
  <2>12. Appends(cb, b, 100 + k)
    BY Zenon, <2>8, <2>10, <2>11
  <2>13. Legal(t, cb)
    BY Zenon, <1>4, <2>1, <2>3, <2>5, <2>6, <2>12, LegalGiven
  <2> QED
    BY Zenon, <1>2, <2>13
<1> QED
  BY Zenon, <1>3, <1>4 DEF Sound

-----------------------------------------------------------------------------
(* The options. *)

(* The settings of cpu-miner.c. *)
Options ==
  [url : Urls \cup {"none"}, benchmark : BOOLEAN, want_longpoll : BOOLEAN,
   want_stratum : BOOLEAN, have_stratum : BOOLEAN, have_gbt : BOOLEAN,
   allow_getwork : BOOLEAN, have_longpoll : BOOLEAN, afile : BOOLEAN, sig : {0, 30},
   refused : BOOLEAN]

(* A benchmark wants nothing of a server. *)
Alone(o) == o.benchmark => ~ o.want_longpoll /\ ~ o.want_stratum /\ ~ o.have_stratum

(* What main may have parsed so far. *)
Parsed == {o \in Options : Alone(o) /\ ~ o.have_longpoll}

(* No argument makes a benchmark talk to a server, or turns long polling *)
(* on before a server has offered it.                                    *)
LEMMA ArgParsed ==
  ASSUME NEW o \in Parsed, NEW key \in Keys
  PROVE  parse_arg(o, key) \in Parsed
<1>1. CASE key \in Urls
  <2>1. parse_arg(o, key) = parse_url(o, key)
    BY Zenon, <1>1 DEF parse_arg, Urls
  <2> DEFINE pool == ~ o.benchmark /\ key \in {"url pool", "url pools"}
  <2>2. parse_arg(o, key) = [o EXCEPT !.url = key, !.have_stratum = pool]
    BY <2>1 DEF parse_url
  <2>3. pool \in BOOLEAN /\ (o.benchmark => ~ pool)
    BY Zenon
  <2> HIDE DEF pool
  <2>4. CASE pool = TRUE
    <3>1. parse_arg(o, key) = [o EXCEPT !.url = key, !.have_stratum = TRUE] /\ ~ o.benchmark
      BY <2>2, <2>3, <2>4
    <3> QED
      BY <1>1, <3>1 DEF Parsed, Options, Alone
  <2>5. CASE pool = FALSE
    <3>1. parse_arg(o, key) = [o EXCEPT !.url = key, !.have_stratum = FALSE]
      BY <2>2, <2>5
    <3> QED
      BY <1>1, <3>1 DEF Parsed, Options, Alone
  <2> QED
    BY <2>3, <2>4, <2>5
<1>2. CASE key = "benchmark"
  <2>1. parse_arg(o, key) = parse_benchmark(o)
    BY <1>2 DEF parse_arg, Urls
  <2> QED
    BY <2>1 DEF parse_benchmark, Parsed, Options, Alone
<1>3. CASE key \notin Urls /\ key # "benchmark"
  <2>1. parse_arg(o, key) \in
          {o, [o EXCEPT !.want_longpoll = FALSE], [o EXCEPT !.want_stratum = FALSE],
           [o EXCEPT !.allow_getwork = FALSE], [o EXCEPT !.have_gbt = FALSE],
           [o EXCEPT !.afile = TRUE], [o EXCEPT !.sig = 30], [o EXCEPT !.refused = TRUE]}
    BY Zenon, <1>3 DEF parse_arg, Keys, Urls
  <2>2. [o EXCEPT !.want_longpoll = FALSE] \in Parsed
    BY DEF Parsed, Options, Alone
  <2>3. [o EXCEPT !.want_stratum = FALSE] \in Parsed
    BY DEF Parsed, Options, Alone
  <2>4. [o EXCEPT !.allow_getwork = FALSE] \in Parsed
    BY DEF Parsed, Options, Alone
  <2>5. [o EXCEPT !.have_gbt = FALSE] \in Parsed
    BY DEF Parsed, Options, Alone
  <2>6. [o EXCEPT !.afile = TRUE] \in Parsed
    BY DEF Parsed, Options, Alone
  <2>7. [o EXCEPT !.sig = 30] \in Parsed
    BY DEF Parsed, Options, Alone
  <2>8. [o EXCEPT !.refused = TRUE] \in Parsed
    BY DEF Parsed, Options, Alone
  <2> QED
    BY <2>1, <2>2, <2>3, <2>4, <2>5, <2>6, <2>7, <2>8
<1> QED
  BY <1>1, <1>2, <1>3

(* Neither does a configuration file, whatever its members. *)
LEMMA ConfigParsed ==
  ASSUME NEW o \in Parsed
  PROVE  parse_config(o) \in Parsed
<1> DEFINE m == Len(ConfigKeys)
           step == [p \in (1 .. m) \X Parsed |-> parse_arg(p[2], ConfigKeys[p[1]])]
           Parses(g) == g = [i \in 0 .. m |-> IF i = 0 THEN o
                                               ELSE parse_arg(g[i - 1], ConfigKeys[i])]
           parsed == CHOOSE g : Parses(g)
<1>1. m \in Nat /\ \A i \in 1 .. m : ConfigKeys[i] \in Keys
  BY StartupAssumption
<1>2. parse_config(o) = parsed[m]
  BY Zenon DEF parse_config
<1> HIDE DEF m
<1>3. step \in [(1 .. m) \X Parsed -> Parsed]
  BY <1>1, ArgParsed
<1>4. PICK g \in [0 .. m -> Parsed] : Recursive(g, o, step, m)
  <2> HIDE DEF step
  <2> QED
    BY <1>1, <1>3, Recursion
<1>5. \A i \in 0 .. m : g[i] = IF i = 0 THEN o ELSE parse_arg(g[i - 1], ConfigKeys[i])
  <2> TAKE i \in 0 .. m
  <2>1. CASE i = 0
    BY <1>4, <2>1 DEF Recursive
  <2>2. CASE i # 0
    <3>1. i \in 1 .. m /\ g[i - 1] \in Parsed
      BY <1>1, <1>4, <2>2
    <3>2. step[<<i, g[i - 1]>>] = parse_arg(g[i - 1], ConfigKeys[i])
      BY <3>1
    <3> HIDE DEF step
    <3> QED
      BY <1>4, <2>2, <3>1, <3>2 DEF Recursive
  <2> QED
    BY <2>1, <2>2
<1>6. Parses(parsed)
  <2>1. Parses(g)
    BY <1>4, <1>5
  <2> HIDE DEF Parses
  <2> QED
    BY <2>1
<1> HIDE DEF parsed
<1>7. \A i \in 0 .. m : parsed[i] = IF i = 0 THEN o
                                    ELSE parse_arg(parsed[i - 1], ConfigKeys[i])
  BY <1>6
<1> DEFINE K == {i \in 0 .. m : parsed[i] \in Parsed}
<1>8. 0 .. m \subseteq K
  <2>1. 0 \in K
    BY <1>1, <1>7
  <2>2. ASSUME NEW i \in 0 .. m, i \in K, i < m PROVE i + 1 \in K
    <3>1. i + 1 \in 1 .. m /\ parsed[i] \in Parsed /\ (i + 1) - 1 = i
      BY <1>1, <2>2
    <3>2. parsed[i + 1] = parse_arg(parsed[i], ConfigKeys[i + 1])
      BY <1>7, <3>1
    <3> QED
      BY <1>1, <3>1, <3>2, ArgParsed
  <2> HIDE DEF K
  <2> QED
    BY <1>1, <2>1, <2>2, SetInduction
<1>9. parsed[m] \in Parsed
  BY <1>1, <1>8
<1> QED
  BY <1>2, <1>9

-----------------------------------------------------------------------------
(* Start-up. *)

(* opt has its members, and a benchmark stays alone. *)
OptInv ==
  /\ mpc = "parse" => opt \in Parsed
  /\ DOMAIN opt = DOMAIN Defaults
  /\ Alone(opt)

(* What a step after start-up does to the options: a node may make them     *)
(* turn to getwork, to long polling, or to a pool.                          *)
Turned ==
  /\ DOMAIN opt' = DOMAIN opt
  /\ opt'.benchmark = opt.benchmark /\ opt'.want_longpoll = opt.want_longpoll
  /\ opt'.want_stratum = opt.want_stratum
  /\ \/ opt'.have_stratum = opt.have_stratum
     \/ Solo /\ opt.want_stratum /\ opt'.have_stratum
  /\ opt'.have_longpoll => opt.have_longpoll \/ (Solo /\ opt.want_longpoll)

(* The answer to a request may do so. *)
LEMMA TurnedByAnswer ==
  ASSUME OptInv, NEW t, get_upstream_work(t)
  PROVE  Turned
<1> DEFINE gbt == ~ (no_payout(t) /\ opt.allow_getwork)
           lpo == opt.have_longpoll \/ (made'.work.rc /\ opt.want_longpoll)
<1>1. opt' = [opt EXCEPT !.have_gbt = gbt, !.have_longpoll = lpo] /\ Solo
  BY Zenon DEF get_upstream_work, Asked
<1>2. DOMAIN opt = DOMAIN Defaults
  BY DEF OptInv
<1>3. lpo => opt.have_longpoll \/ opt.want_longpoll
  BY Zenon
<1> HIDE DEF gbt, lpo
<1>4. opt'.have_longpoll = lpo
  BY <1>1, <1>2 DEF Defaults
<1>5. opt'.have_longpoll => opt.have_longpoll \/ opt.want_longpoll
  BY <1>3, <1>4, Zenon
<1> QED
  BY <1>1, <1>2, <1>5 DEF Turned, Defaults

(* So may an X-Stratum header. *)
LEMMA TurnedByPool ==
  ASSUME OptInv, x_stratum
  PROVE  Turned
<1>1. opt' = [opt EXCEPT !.have_stratum = TRUE] /\ Solo /\ opt.want_stratum
  BY DEF x_stratum, Asked
<1>2. DOMAIN opt = DOMAIN Defaults
  BY DEF OptInv
<1> QED
  BY <1>1, <1>2 DEF Turned, Defaults

(* No option has been parsed. *)
LEMMA OptInit == Init => OptInv
<1>1. Defaults \in Parsed
  BY DEF Defaults, Parsed, Options, Alone
<1> QED
  BY <1>1 DEF Init, StartInit, OptInv, Parsed

(* How far main is with the threads and their queues. *)
Up == mpc \in {"miners", "join"} \/ Miners # {}

(* The threads that the miners may turn to have their queues. *)
LongpollUp == opt.want_longpoll /\ ~ opt.have_stratum => "longpoll" \in queues
StratumUp  == /\ opt.want_stratum => "stratum" \in queues
              /\ opt.want_stratum /\ opt.have_stratum => "stratum" \in pushed

(* Nothing is there before main makes it, and it makes the miners last. *)
ThreadInv ==
  /\ mpc \in {"parse", "init", "workio"} => queues = {} /\ threads = {} /\ pushed = {}
  /\ mpc \in {"longpoll", "stratum"} => Miners = {} /\ "workio" \in threads /\ pushed = {}
  /\ mpc = "stratum" => LongpollUp
  /\ Up => LongpollUp /\ StratumUp /\ "workio" \in threads

(* Nothing is pushed before its queue is there. *)
PushInv ==
  /\ pushed \subseteq queues
  /\ opt.benchmark => pushed = {}
  /\ opt.have_longpoll => "longpoll" \in queues

(* A solo miner that goes on has a script. *)
FedInv == (mpc \notin {"parse", "exit"} \/ Miners # {}) /\ Solo => pk.size > 0

(* No thread has been made. *)
LEMMA ThreadInit == Init => ThreadInv /\ PushInv /\ FedInv
BY DEF Init, StartInit, ThreadInv, PushInv, FedInv, Up, LongpollUp, StratumUp, Miners, Defaults

(* Options that turn while miners run do not disturb what start-up made *)
(* true, when the queue of whoever they turn to is there.               *)
LEMMA TurnedNext ==
  ASSUME OptInv, ThreadInv, PushInv, FedInv, Turned, Miners # {},
         UNCHANGED <<mpc, queues, threads, pk>>,
         pushed' \subseteq pushed \cup {"longpoll", "stratum"}, pushed \subseteq pushed',
         "longpoll" \in pushed' => "longpoll" \in pushed \/ opt'.have_longpoll,
         "stratum" \in pushed' => "stratum" \in pushed \/ opt.want_stratum,
         Solo,
         Solo' \/ "stratum" \in pushed'
  PROVE  OptInv' /\ ThreadInv' /\ PushInv' /\ FedInv'
<1>1. mpc \notin {"parse", "init", "workio", "longpoll", "stratum"} /\ Up
  BY DEF ThreadInv, Miners, Up
<1>2. LongpollUp /\ StratumUp /\ "workio" \in threads
  BY <1>1 DEF ThreadInv
<1>3. Miners' = Miners /\ Up'
  BY <1>1 DEF Miners, Up
<1>4. OptInv'
  BY <1>1 DEF OptInv, Turned, Alone, Solo
<1>5. LongpollUp'
  BY <1>2 DEF LongpollUp, Turned, Solo
<1>6. StratumUp'
  BY <1>2 DEF StratumUp, Turned, Solo
<1>7. ThreadInv'
  BY <1>1, <1>2, <1>3, <1>5, <1>6 DEF ThreadInv
<1>8. "longpoll" \in pushed' => "longpoll" \in queues
  BY <1>2 DEF PushInv, Turned, LongpollUp, Solo
<1>9. PushInv'
  BY <1>2, <1>8 DEF PushInv, Turned, StratumUp, LongpollUp, Solo
<1>10. FedInv'
  BY <1>3 DEF FedInv, Turned, Solo
<1> QED
  BY <1>4, <1>7, <1>9, <1>10

-----------------------------------------------------------------------------
(* What the addresses are, and what is in pk_script. *)

(* The bytes of the scripts loaded, and the sequences of them that fit. *)
Octets ==
  {0} \cup UNION {UNION {{f.addrs[i][k] : k \in 1 .. PkSize} : i \in 1 .. Len(f.addrs)} : f \in Disk}

Scripts == {s \in Seq(Octets) : Len(s) \in 4 .. PkSize}

(* The addresses of a file are scripts that fit. *)
LEMMA DiskScripts ==
  ASSUME NEW f \in Disk
  PROVE  f.addrs \in Seq(Scripts)
<1>1. PICK g \in Files : f.addrs = load_addresses_from_file(g.text)
  BY DEF Disk
<1>2. PICK T : (\A s \in T : IsScript(s)) /\ f.addrs \in Seq(T)
  BY <1>1, LoadsScripts, StartupAssumption
<1>3. ASSUME NEW i \in 1 .. Len(f.addrs) PROVE f.addrs[i] \in Scripts
  <2> DEFINE s == f.addrs[i]
  <2>1. IsScript(s)
    BY <1>2
  <2>2. \A k \in 1 .. PkSize : s[k] \in Octets
    BY DEF Octets
  <2> HIDE DEF s
  <2>3. PICK U : \E n \in 4 .. PkSize : Long(s, U, n)
    BY <2>1 DEF IsScript
  <2>7. PICK n \in 4 .. PkSize : Long(s, U, n)
    BY <2>3
  <2>4. s \in Seq(U) /\ Len(s) = n
    BY <2>7 DEF Long
  <2>5. n \in Nat /\ \A k \in 1 .. n : s[k] \in Octets
    <3>1. n \in Nat /\ n <= 42
      BY <2>7 DEF PkSize
    <3>2. 1 .. n \subseteq 1 .. 42
      BY <3>1
    <3> QED
      BY <2>2, <3>1, <3>2 DEF PkSize
  <2>6. s \in Seq(Octets)
    BY <2>4, <2>5
  <2> QED
    BY <2>7, <2>4, <2>6 DEF Scripts, s
<1> QED
  BY <1>2, <1>3

(* One file has been read, or none. *)
FileInv ==
  \/ file \in {"none", "missing"} /\ addrs = <<>>
  \/ \E f \in Disk : file = f.name /\ addrs = f.addrs

(* So are the addresses that have been loaded. *)
LEMMA FileScripts ==
  ASSUME FileInv
  PROVE  addrs \in Seq(Scripts) /\ Len(addrs) \in Nat
<1>1. addrs \in Seq(Scripts)
  <2>1. CASE addrs = <<>>
    BY <2>1
  <2>2. CASE \E f \in Disk : file = f.name /\ addrs = f.addrs
    BY <2>2, DiskScripts
  <2> QED
    BY <2>1, <2>2 DEF FileInv
<1> QED
  BY <1>1

(* pk_script holds bytes of the addresses, and its size is within its room. *)
PkTypes == pk \in [bytes : [1 .. PkSize -> Octets], size : 0 .. PkSize]

(* What the copy of a script leaves in pk_script. *)
LEMMA Overwritten ==
  ASSUME NEW b \in [1 .. PkSize -> Octets], NEW s \in Seq(Octets), NEW from \in 1 .. PkSize
  PROVE  /\ overwrite(b, s, from) \in [1 .. PkSize -> Octets]
         /\ \A k \in 1 .. PkSize : overwrite(b, s, from)[k] = IF k \in from .. Len(s) THEN s[k] ELSE b[k]
<1> DEFINE o == overwrite(b, s, from)
<1>1. o = [k \in 1 .. PkSize |-> IF k \in from .. Len(s) THEN s[k] ELSE b[k]]
  BY DEF overwrite
<1> HIDE DEF o
<1>2. ASSUME NEW k \in 1 .. PkSize
      PROVE  (IF k \in from .. Len(s) THEN s[k] ELSE b[k]) \in Octets
  <2>1. from \in Nat /\ from > 0
    <3>1. from \in 1 .. 42
      BY DEF PkSize
    <3> QED
      BY <3>1
  <2>2. Len(s) \in Nat
    OBVIOUS
  <2> QED
    BY <2>1, <2>2
<1>3. o \in [1 .. PkSize -> Octets]
  BY <1>1, <1>2
<1>4. \A k \in 1 .. PkSize : o[k] = IF k \in from .. Len(s) THEN s[k] ELSE b[k]
  BY <1>1
<1> QED
  BY <1>3, <1>4 DEF o

(* A script fits, opcodes first. *)
LEMMA ScriptBytes ==
  ASSUME NEW s \in Scripts
  PROVE  /\ s \in Seq(Octets)
         /\ Len(s) \in Nat
         /\ Len(s) >= 4
         /\ Len(s) <= PkSize
         /\ 1 .. Len(s) \subseteq 1 .. PkSize
<1>1. s \in Seq(Octets) /\ Len(s) \in 4 .. 42
  BY DEF Scripts, PkSize
<1>2. PICK n \in 4 .. 42 : n = Len(s)
  BY <1>1
<1>3. n \in Nat /\ n >= 4 /\ n <= 42 /\ 1 .. n \subseteq 1 .. 42
  BY SMTT(60)
<1> QED
  BY <1>1, <1>2, <1>3 DEF PkSize

(* b begins with the first n bytes of s. *)
Begins(b, s, n) == \A k \in 1 .. n : b[k] = s[k]

(* Between two selections pk_script is empty or one of the addresses; during *)
(* one it is on the way to the next.                                         *)
PkInv ==
  /\ wpc \in {"idle", "opcodes", "bytes"}
  /\ mpc = "parse" => pk.size = 0
  /\ wpc = "idle" /\ pk.size # 0 =>
       \E i \in 1 .. Len(addrs) :
         pk.size = Len(addrs[i]) /\ Begins(pk.bytes, addrs[i], Len(addrs[i]))
  /\ wpc # "idle" => \E i \in 1 .. Len(addrs) : next = addrs[i]
  /\ wpc = "opcodes" => Begins(pk.bytes, next, Head3)
  /\ wpc = "bytes" => Begins(pk.bytes, next, Len(next))

(* pk_script is empty. *)
LEMMA PkInit == Init => FileInv /\ PkTypes /\ PkInv
BY DEF Init, StartInit, FileInv, PkTypes, PkInv, Octets, PkSize

-----------------------------------------------------------------------------
(* The long-polling thread, and the unit of work decoded. *)

(* Nothing is selected, read or decoded before the miners run. *)
LateInv == wpc # "idle" \/ lp.pc # "poll" => mpc # "parse"

(* What the long-polling thread knows of pk_script. *)
LpTypes ==
  lp \in [pc : {"poll", "length", "opcodes"}, torn : BOOLEAN, len : 0 .. PkSize,
          bytes : Seq(Octets)]

(* What the long-polling thread has read, as long as nothing overlapped it, *)
(* is what pk_script still holds.                                           *)
LpInv ==
  lp.pc # "poll" /\ ~ lp.torn =>
    /\ wpc = "idle"
    /\ lp.len = pk.size /\ pk.size # 0
    /\ lp.pc = "opcodes" => lp.bytes = SubSeq(pk.bytes, 1, Head3)

(* A coinbase built for an unspoilt script pays one of the addresses. *)
PaysLoaded ==
  Decoded /\ made.tpl.cbtxn = 0 /\ ~ made.torn =>
    \E i \in 1 .. Len(addrs) : made.work.cb.script = addrs[i]

-----------------------------------------------------------------------------
(* Start-up, step by step. *)

(* What start-up makes true. *)
StartInv == OptInv /\ ThreadInv /\ PushInv /\ FedInv

(* main parses, refuses or accepts what it was given. *)
LEMMA ParseNext ==
  ASSUME StartInv, \/ \E key \in Keys : parse_cmdline(key)
                   \/ main_refuses \/ main_loads \/ main_goes_on \/ main_inits
  PROVE  StartInv'
<1>1. ASSUME NEW key \in Keys, parse_cmdline(key) PROVE StartInv'
  <2>1. opt \in Parsed
    BY <1>1 DEF StartInv, OptInv, parse_cmdline
  <2>2. opt' \in Parsed
    BY <1>1, <2>1, ArgParsed, ConfigParsed DEF parse_cmdline
  <2>3. DOMAIN opt' = DOMAIN Defaults /\ Alone(opt')
    BY <2>2 DEF Parsed, Options, Defaults
  <2>4. OptInv'
    BY <2>2, <2>3 DEF OptInv
  <2>5. queues = {} /\ threads = {} /\ pushed = {} /\ mpc = "parse"
    BY <1>1 DEF StartInv, ThreadInv, parse_cmdline
  <2>6. mpc' \in {"parse", "exit"} /\ UNCHANGED <<queues, threads, pushed, pk>>
    BY <1>1 DEF parse_cmdline
  <2>7. Miners' = {}
    BY <2>5, <2>6 DEF Miners
  <2>8. ThreadInv'
    BY <2>5, <2>6, <2>7 DEF ThreadInv, Up
  <2>9. PushInv' /\ FedInv'
    BY <2>2, <2>5, <2>6, <2>7 DEF PushInv, FedInv, Parsed
  <2> QED
    BY <2>4, <2>8, <2>9 DEF StartInv
<1>2. CASE main_refuses \/ main_goes_on \/ main_inits
  <2>1. UNCHANGED <<opt, queues, threads, pushed, pk>> /\ mpc \in {"parse", "init"}
        /\ mpc' \in {"exit", "init", "workio"}
    BY <1>2 DEF main_refuses, main_goes_on, main_inits
  <2>2. threads = {} /\ queues = {} /\ pushed = {}
    BY <2>1 DEF StartInv, ThreadInv
  <2>3. Miners' = {} /\ Miners = {}
    BY <2>1, <2>2 DEF Miners
  <2>4. OptInv'
    BY <2>1 DEF StartInv, OptInv, Alone
  <2>5. ThreadInv' /\ PushInv'
    BY <2>1, <2>2, <2>3 DEF StartInv, ThreadInv, PushInv, Up
  <2>6. FedInv'
    BY <1>2, <2>1, <2>3 DEF StartInv, FedInv, Solo, main_refuses, main_goes_on, main_inits
  <2> QED
    BY <2>4, <2>5, <2>6 DEF StartInv
<1>3. CASE main_loads
  <2>1. UNCHANGED <<opt, queues, threads, pushed>> /\ mpc = "parse" /\ mpc' \in {"exit", "init"}
    BY <1>3 DEF main_loads
  <2>2. threads = {} /\ queues = {} /\ pushed = {}
    BY <2>1 DEF StartInv, ThreadInv
  <2>3. Miners' = {} /\ Miners = {}
    BY <2>1, <2>2 DEF Miners
  <2>4. OptInv'
    BY <2>1 DEF StartInv, OptInv, Alone
  <2>5. ThreadInv' /\ PushInv'
    BY <2>1, <2>2, <2>3 DEF StartInv, ThreadInv, PushInv, Up
  <2>6. ASSUME mpc' = "init" PROVE pk'.size > 0
    <3>1. addrs' # <<>> /\ \E i \in 1 .. Len(addrs') : pk' = select_random_address(addrs'[i])
      BY <1>3, <2>6 DEF main_loads
    <3>2. PICK f \in Disk : addrs' = f.addrs
      BY <1>3, <3>1 DEF main_loads
    <3>3. addrs' \in Seq(Scripts)
      BY <3>2, DiskScripts
    <3>4. PICK i \in 1 .. Len(addrs') : pk' = select_random_address(addrs'[i])
      BY <3>1
    <3>5. addrs'[i] \in Scripts
      BY <3>3, <3>4
    <3>6. pk'.size = Len(addrs'[i])
      BY <3>4 DEF select_random_address
    <3>7. Len(addrs'[i]) > 0
      BY <3>5 DEF Scripts
    <3> QED
      BY <3>6, <3>7
  <2>7. FedInv'
    BY <2>1, <2>3, <2>6 DEF FedInv
  <2> QED
    BY <2>4, <2>5, <2>7 DEF StartInv
<1> QED
  BY <1>1, <1>2, <1>3

(* main makes the threads. *)
LEMMA ThreadNext ==
  ASSUME StartInv, start_workio \/ start_longpoll \/ start_stratum \/ start_miner
  PROVE  StartInv'
<1>1. UNCHANGED <<opt, pk>> /\ mpc' # "parse" /\ mpc \in {"workio", "longpoll", "stratum", "miners"}
  BY Zenon DEF start_workio, start_longpoll, start_stratum, start_miner, start_thread
<1>2. OptInv'
  BY <1>1 DEF StartInv, OptInv, Alone
<1>3. FedInv'
  BY <1>1 DEF StartInv, FedInv, Solo
<1>4. queues \subseteq queues' /\ threads \subseteq threads' /\ pushed \subseteq pushed'
  BY Zenon DEF start_workio, start_longpoll, start_stratum, start_miner, start_thread
<1>5. CASE start_workio
  <2>1. threads = {} /\ queues = {} /\ pushed = {} /\ pushed' = {} /\ queues' = {"workio"}
    BY <1>5 DEF StartInv, ThreadInv, start_workio, start_thread
  <2>2. \/ threads' = {"workio"} /\ mpc' = "longpoll"
        \/ threads' = {} /\ mpc' = "exit"
    BY <1>5, <2>1 DEF start_workio, start_thread
  <2>3. Miners' = {}
    BY Zenon, <2>2 DEF Miners, MinerNames
  <2>4. ThreadInv'
    BY <2>1, <2>2, <2>3 DEF ThreadInv, Up
  <2>5. PushInv'
    BY <1>1, <2>1 DEF StartInv, PushInv
  <2> QED
    BY <1>2, <1>3, <2>4, <2>5 DEF StartInv
<1>6. CASE start_longpoll
  <2>1. Miners = {} /\ "workio" \in threads /\ pushed = {} /\ pushed' = {}
    BY <1>6 DEF StartInv, ThreadInv, start_longpoll
  <2>2. mpc' \in {"stratum", "exit"} /\ (mpc' = "stratum" => LongpollUp')
    BY <1>1, <1>6 DEF start_longpoll, start_thread, LongpollUp
  <2>3. threads' \subseteq threads \cup {"longpoll"}
    BY <1>6 DEF start_longpoll, start_thread
  <2>4. Miners' = {}
    BY Zenon, <2>1, <2>3 DEF Miners, MinerNames
  <2>5. ThreadInv'
    BY <1>4, <2>1, <2>2, <2>4 DEF ThreadInv, Up
  <2>6. PushInv'
    BY <1>1, <1>4, <2>1 DEF StartInv, PushInv
  <2> QED
    BY <1>2, <1>3, <2>5, <2>6 DEF StartInv
<1>7. CASE start_stratum
  <2>1. Miners = {} /\ "workio" \in threads /\ pushed = {} /\ LongpollUp
    BY <1>7 DEF StartInv, ThreadInv, start_stratum
  <2>2. mpc' \in {"miners", "exit"} /\ threads' \subseteq threads \cup {"stratum"}
    BY <1>7 DEF start_stratum, start_thread
  <2>3. Miners' = {}
    BY Zenon, <2>1, <2>2 DEF Miners, MinerNames
  <2>4. LongpollUp'
    BY <1>1, <1>4, <2>1 DEF LongpollUp
  <2>5. mpc' = "miners" => StratumUp'
    BY <1>1, <1>7 DEF start_stratum, start_thread, StratumUp
  <2>6. ThreadInv'
    BY <1>4, <2>1, <2>2, <2>3, <2>4, <2>5 DEF ThreadInv, Up
  <2>7. pushed' # {} => opt.have_stratum /\ pushed' = {"stratum"} /\ "stratum" \in queues'
    BY <1>7, <2>1 DEF start_stratum, start_thread
  <2>8. PushInv'
    BY <1>1, <1>4, <2>7 DEF StartInv, OptInv, Alone, PushInv
  <2> QED
    BY <1>2, <1>3, <2>6, <2>8 DEF StartInv
<1>8. CASE start_miner
  <2>1. LongpollUp /\ StratumUp /\ "workio" \in threads
    BY Zenon, <1>8 DEF StartInv, ThreadInv, Up, start_miner
  <2>2. mpc' \in {"miners", "join", "exit"} /\ pushed' = pushed
    BY Zenon, <1>8 DEF start_miner, start_thread
  <2>3. LongpollUp' /\ StratumUp' /\ "workio" \in threads'
    BY <1>1, <1>4, <2>1 DEF LongpollUp, StratumUp
  <2>4. ThreadInv'
    BY <2>2, <2>3 DEF ThreadInv
  <2>5. PushInv'
    BY <1>1, <1>4, <2>2 DEF StartInv, PushInv
  <2> QED
    BY <1>2, <1>3, <2>4, <2>5 DEF StartInv
<1> QED
  BY <1>5, <1>6, <1>7, <1>8

(* Nothing else disturbs it: an answer may turn the options, and an address *)
(* that is selected is not empty.                                            *)
LEMMA StartNext ==
  ASSUME StartInv, FileInv, PkInv, PkTypes, [Next]_vars
  PROVE  StartInv'
<1>1. CASE starting
  BY <1>1, ParseNext, ThreadNext DEF starting, main
<1>2. ASSUME NEW t, get_upstream_work(t) PROVE StartInv'
  <2>1. Solo /\ Miners # {} /\ UNCHANGED <<mpc, queues, threads, pk>>
    BY <1>2 DEF get_upstream_work, Asked
  <2>2. Turned
    BY <1>2, TurnedByAnswer DEF StartInv
  <2>3. pushed' = pushed \cup {q \in {"longpoll"} : opt'.have_longpoll}
    BY <1>2 DEF get_upstream_work
  <2>4. Solo'
    <3>1. opt'.have_stratum = opt.have_stratum
      BY <1>2 DEF get_upstream_work, StartInv, OptInv, Defaults
    <3> QED
      BY <2>1, <2>2, <3>1 DEF Solo, Turned
  <2> QED
    BY <2>1, <2>2, <2>3, <2>4, TurnedNext DEF StartInv
<1>3. CASE x_stratum
  <2>1. Solo /\ Miners # {} /\ UNCHANGED <<mpc, queues, threads, pk>> /\ opt.want_stratum
    BY <1>3 DEF x_stratum, Asked
  <2>2. Turned
    BY <1>3, TurnedByPool DEF StartInv
  <2>3. pushed' = pushed \cup {"stratum"}
    BY <1>3 DEF x_stratum
  <2> QED
    BY <2>1, <2>2, <2>3, TurnedNext DEF StartInv
<1>4. ASSUME UNCHANGED <<mpc, opt, queues, threads, pushed>>, pk'.size = pk.size \/ pk'.size > 0
      PROVE  StartInv'
  <2>1. OptInv'
    BY <1>4 DEF StartInv, OptInv, Alone
  <2>2. Miners' = Miners
    BY <1>4 DEF Miners
  <2>3. ThreadInv'
    BY <1>4, <2>2 DEF StartInv, ThreadInv, Up, LongpollUp, StratumUp
  <2>4. PushInv'
    BY <1>4 DEF StartInv, PushInv
  <2>5. FedInv'
    BY <1>4, <2>2 DEF StartInv, FedInv, Solo
  <2> QED
    BY <2>1, <2>3, <2>4, <2>5 DEF StartInv
<1>5. CASE share_result \/ select_hash
  <2>1. pk'.size = pk.size
    BY <1>5 DEF share_result, select_hash, PkTypes
  <2> QED
    BY <1>4, <1>5, <2>1 DEF share_result, select_hash
<1>6. CASE select_size
  <2>1. PICK i \in 1 .. Len(addrs) : next = addrs[i]
    BY <1>6 DEF select_size, PkInv
  <2>2. next \in Scripts
    BY <2>1, FileScripts
  <2>3. Len(next) > 0
    BY <2>2 DEF Scripts
  <2>4. pk'.size = Len(next)
    BY <1>6 DEF select_size, PkTypes
  <2> QED
    BY <1>4, <1>6, <2>3, <2>4 DEF select_size
<1>7. CASE longpoll_decode \/ copy_opcodes \/ (\E t \in Few : copy_rest(t)) \/ handed_over
           \/ UNCHANGED vars
  <2>1. UNCHANGED startVars
    BY <1>7 DEF longpoll_decode, copy_opcodes, copy_rest, handed_over, vars
  <2> QED
    BY <1>4, <2>1 DEF startVars
<1> QED
  BY <1>1, <1>2, <1>3, <1>5, <1>6, <1>7 DEF Next

-----------------------------------------------------------------------------
(* The addresses and pk_script, step by step. *)

(* Only main reads a file, and nothing is under way while it does. *)
LEMMA FileNext ==
  ASSUME FileInv, [Next]_vars
  PROVE  FileInv'
<1>1. CASE main_loads
  BY <1>1 DEF main_loads, FileInv
<1>2. CASE UNCHANGED <<file, addrs>>
  BY <1>2 DEF FileInv
<1>3. main_loads \/ UNCHANGED <<file, addrs>>
  <2>1. CASE starting
    BY Zenon, <2>1 DEF starting, main, parse_cmdline, main_refuses, main_goes_on, main_inits,
       start_workio, start_longpoll, start_stratum, start_miner, start_thread
  <2>2. CASE \E t : get_upstream_work(t) \/ copy_rest(t)
    BY <2>2 DEF get_upstream_work, copy_rest, startVars
  <2>3. CASE x_stratum \/ share_result \/ select_hash \/ select_size
    BY <2>3 DEF x_stratum, share_result, select_hash, select_size
  <2>4. CASE longpoll_decode \/ copy_opcodes \/ handed_over \/ UNCHANGED vars
    BY <2>4 DEF longpoll_decode, copy_opcodes, handed_over, startVars, vars
  <2> QED
    BY <2>1, <2>2, <2>3, <2>4 DEF Next
<1> QED
  BY <1>1, <1>2, <1>3

(* Miners and long polling begin after the options. *)
LEMMA LateNext ==
  ASSUME StartInv, LateInv, [Next]_vars
  PROVE  LateInv'
<1>1. "longpoll" \in threads \/ Miners # {} => mpc # "parse"
  BY DEF StartInv, ThreadInv, Miners
<1>2. CASE starting
  <2>1. UNCHANGED <<wpc, lp>> /\ (mpc' = "parse" => mpc = "parse")
    BY Zenon, <1>2 DEF starting, main, parse_cmdline, main_refuses, main_loads, main_goes_on,
       main_inits, start_workio, start_longpoll, start_stratum, start_miner, start_thread
  <2> QED
    BY <2>1 DEF LateInv
<1>3. CASE share_result \/ longpoll_decode
  BY <1>1, <1>3 DEF LateInv, share_result, longpoll_decode, Asked, startVars
<1>4. CASE select_hash \/ select_size \/ copy_opcodes \/ (\E t : copy_rest(t))
  BY <1>4 DEF LateInv, select_hash, select_size, copy_opcodes, copy_rest, startVars
<1>5. CASE x_stratum \/ (\E t : get_upstream_work(t)) \/ handed_over \/ UNCHANGED vars
  BY Zenon, <1>5 DEF LateInv, x_stratum, get_upstream_work, handed_over, startVars, vars
<1> QED
  BY <1>2, <1>3, <1>4, <1>5 DEF Next

(* The steps that write pk_script or choose what is written. *)
Selecting == (starting /\ main_loads) \/ share_result \/ select_hash \/ select_size

(* Every other step leaves both alone. *)
LEMMA NotSelecting ==
  ASSUME [Next]_vars, ~ Selecting
  PROVE  UNCHANGED <<addrs, pk, wpc, next>> /\ (mpc' = "parse" => mpc = "parse")
<1>1. CASE starting
  BY Zenon, <1>1 DEF Selecting, starting, main, parse_cmdline, main_refuses, main_goes_on,
     main_inits, start_workio, start_longpoll, start_stratum, start_miner, start_thread
<1>2. CASE \E t : get_upstream_work(t) \/ copy_rest(t)
  BY <1>2 DEF get_upstream_work, copy_rest, startVars
<1>3. CASE x_stratum \/ longpoll_decode \/ copy_opcodes \/ handed_over \/ UNCHANGED vars
  BY <1>3 DEF x_stratum, longpoll_decode, copy_opcodes, handed_over, startVars, vars
<1> QED
  BY <1>1, <1>2, <1>3 DEF Next, Selecting

(* main selects the first address of the file it has read. *)
LEMMA PkLoaded ==
  ASSUME PkTypes, PkInv, LateInv, starting, main_loads
  PROVE  PkTypes' /\ PkInv'
<1>1. wpc = "idle" /\ wpc' = "idle" /\ mpc = "parse" /\ mpc' # "parse" /\ pk.size = 0
  BY DEF starting, main_loads, LateInv, PkInv
<1>2. CASE addrs' = <<>>
  <2>1. pk' = pk
    BY <1>2 DEF main_loads
  <2> QED
    BY <1>1, <2>1 DEF PkTypes, PkInv
<1>3. CASE addrs' # <<>>
  <2>1. PICK f \in Disk : addrs' = f.addrs
    BY <1>3 DEF main_loads
  <2>2. PICK i \in 1 .. Len(addrs') : pk' = select_random_address(addrs'[i])
    BY <1>3 DEF main_loads
  <2>3. addrs'[i] \in Scripts
    BY <2>1, <2>2, DiskScripts
  <2> DEFINE s == addrs'[i]
             b == overwrite(pk.bytes, s, 1)
  <2>4. pk' = [bytes |-> b, size |-> Len(s)]
    BY <2>2 DEF select_random_address
  <2>5. pk.bytes \in [1 .. PkSize -> Octets]
    BY DEF PkTypes
  <2> HIDE DEF s, b
  <2>6. /\ s \in Seq(Octets) /\ Len(s) \in Nat /\ Len(s) <= PkSize
        /\ 1 .. Len(s) \subseteq 1 .. PkSize
    BY <2>3, ScriptBytes DEF s
  <2>7. 1 \in 1 .. PkSize /\ PkSize \in Nat
    BY DEF PkSize
  <2>8. /\ b \in [1 .. PkSize -> Octets]
        /\ \A k \in 1 .. PkSize : b[k] = IF k \in 1 .. Len(s) THEN s[k] ELSE pk.bytes[k]
    BY <2>5, <2>6, <2>7, Overwritten DEF b
  <2>9. PkTypes'
    BY <2>4, <2>6, <2>7, <2>8 DEF PkTypes
  <2>10. Begins(b, s, Len(s))
    BY <2>6, <2>8 DEF Begins
  <2>11. pk'.size = Len(addrs'[i]) /\ Begins(pk'.bytes, addrs'[i], Len(addrs'[i]))
    BY <2>4, <2>10 DEF s
  <2>12. PkInv'
    BY <1>1, <2>2, <2>11 DEF PkInv
  <2> QED
    BY <2>9, <2>12
<1> QED
  BY <1>2, <1>3

(* A selection writes the opcodes, the rest, the size. *)
LEMMA PkSelected ==
  ASSUME StartInv, FileInv, PkTypes, PkInv, LateInv,
         share_result \/ select_hash \/ select_size
  PROVE  PkTypes' /\ PkInv'
<1>1. /\ pk.bytes \in [1 .. PkSize -> Octets] /\ pk.size \in 0 .. PkSize
      /\ DOMAIN pk = {"bytes", "size"} /\ pk = [bytes |-> pk.bytes, size |-> pk.size]
  BY DEF PkTypes
<1>2. \A i \in 1 .. Len(addrs) : addrs[i] \in Scripts
  BY FileScripts
<1>3. PkSize \in Nat /\ 1 \in 1 .. PkSize /\ Head3 + 1 \in 1 .. PkSize /\ Head3 = 3
      /\ 1 .. 3 \subseteq 1 .. PkSize
  BY DEF PkSize, Head3
<1>4. CASE share_result
  <2>1. PICK i \in 1 .. Len(addrs) : next' = addrs[i]
    BY <1>4 DEF share_result
  <2> DEFINE n == next'
             h == SubSeq(n, 1, Head3)
             b == overwrite(pk.bytes, h, 1)
  <2>2. pk' = [pk EXCEPT !.bytes = b] /\ wpc' = "opcodes" /\ UNCHANGED <<addrs, mpc>>
    BY <1>4 DEF share_result
  <2>3. mpc # "parse"
    BY <1>4 DEF share_result, Asked, StartInv, ThreadInv, Miners
  <2> HIDE DEF n, b
  <2>4. n \in Seq(Octets) /\ Len(n) \in Nat /\ Len(n) >= 4
    BY <1>2, <2>1, ScriptBytes DEF n
  <2>5. h \in Seq(Octets) /\ Len(h) = 3 /\ \A k \in 1 .. 3 : h[k] = n[k]
    BY <1>3, <2>4
  <2> HIDE DEF h
  <2>6. /\ b \in [1 .. PkSize -> Octets]
        /\ \A k \in 1 .. PkSize : b[k] = IF k \in 1 .. Len(h) THEN h[k] ELSE pk.bytes[k]
    BY <1>1, <1>3, <2>5, Overwritten DEF b
  <2>7. pk' = [bytes |-> b, size |-> pk.size]
    BY <1>1, <2>2
  <2>8. PkTypes'
    BY <1>1, <2>6, <2>7 DEF PkTypes
  <2>9. Begins(pk'.bytes, next', Head3)
    BY <1>3, <2>5, <2>6, <2>7 DEF Begins, n
  <2> QED
    BY <2>1, <2>2, <2>3, <2>8, <2>9 DEF PkInv
<1>5. CASE select_hash
  <2>1. wpc = "opcodes" /\ wpc' = "bytes" /\ UNCHANGED <<addrs, mpc, next>>
    BY <1>5 DEF select_hash
  <2>2. mpc # "parse"
    BY <2>1 DEF LateInv
  <2>3. PICK i \in 1 .. Len(addrs) : next = addrs[i]
    BY <2>1 DEF PkInv
  <2>4. next \in Seq(Octets) /\ Len(next) \in Nat /\ 1 .. Len(next) \subseteq 1 .. PkSize
    BY <1>2, <2>3, ScriptBytes
  <2> DEFINE b == overwrite(pk.bytes, next, Head3 + 1)
  <2>5. pk' = [pk EXCEPT !.bytes = b]
    BY <1>5 DEF select_hash
  <2> HIDE DEF b
  <2>6. /\ b \in [1 .. PkSize -> Octets]
        /\ \A k \in 1 .. PkSize :
             b[k] = IF k \in Head3 + 1 .. Len(next) THEN next[k] ELSE pk.bytes[k]
    BY ZenonT(60), <1>1, <1>3, <2>4, Overwritten DEF b
  <2>7. pk' = [bytes |-> b, size |-> pk.size]
    BY <1>1, <2>5
  <2>8. PkTypes'
    BY <1>1, <2>6, <2>7 DEF PkTypes
  <2>9. \A k \in 1 .. 3 : pk.bytes[k] = next[k]
    BY <1>3, <2>1 DEF PkInv, Begins
  <2>10. Begins(b, next, Len(next))
    BY <1>3, <2>4, <2>6, <2>9 DEF Begins
  <2>11. Begins(pk'.bytes, next', Len(next'))
    BY <2>1, <2>7, <2>10
  <2> QED
    BY <2>1, <2>2, <2>3, <2>8, <2>11 DEF PkInv
<1>6. CASE select_size
  <2>1. wpc = "bytes" /\ wpc' = "idle" /\ UNCHANGED <<addrs, mpc>>
        /\ pk' = [pk EXCEPT !.size = Len(next)]
    BY <1>6 DEF select_size
  <2>2. mpc # "parse"
    BY <2>1 DEF LateInv
  <2>3. PICK i \in 1 .. Len(addrs) : next = addrs[i]
    BY <2>1 DEF PkInv
  <2>4. Len(next) \in Nat /\ Len(next) <= PkSize
    BY <1>2, <2>3, ScriptBytes
  <2>5. pk' = [bytes |-> pk.bytes, size |-> Len(next)]
    BY <1>1, <2>1
  <2>6. PkTypes'
    BY <1>1, <1>3, <2>4, <2>5 DEF PkTypes
  <2>7. Begins(pk.bytes, next, Len(next))
    BY <2>1 DEF PkInv
  <2>8. pk'.size = Len(addrs'[i]) /\ Begins(pk'.bytes, addrs'[i], Len(addrs'[i]))
    BY <2>1, <2>3, <2>5, <2>7
  <2> QED
    BY <2>1, <2>2, <2>3, <2>6, <2>8 DEF PkInv
<1> QED
  BY <1>4, <1>5, <1>6

(* No other step writes pk_script. *)
LEMMA PkNext ==
  ASSUME StartInv, FileInv, PkTypes, PkInv, LateInv, [Next]_vars
  PROVE  PkTypes' /\ PkInv'
<1>1. CASE ~ Selecting
  BY <1>1, NotSelecting DEF PkTypes, PkInv
<1> QED
  BY <1>1, PkLoaded, PkSelected DEF Selecting

-----------------------------------------------------------------------------
(* The long-polling thread, step by step. *)

(* The steps in which it takes part, or in which a selection notes it. *)
Polls == longpoll_decode \/ copy_opcodes \/ (\E t : copy_rest(t))

(* The long-polling thread reads pk_script.                                 *)
LEMMA LpStep ==
  ASSUME LpTypes, LpInv, PkTypes, PkInv, Polls
  PROVE  LpTypes' /\ LpInv'
<1>1. UNCHANGED <<pk, wpc>>
  BY DEF Polls, longpoll_decode, copy_opcodes, copy_rest, startVars
<1>2. pk.size \in 0 .. PkSize
  BY DEF PkTypes
<1>3. <<>> \in Seq(Octets)
  OBVIOUS
<1>4. CASE longpoll_decode
  <2> DEFINE torn == wpc # "idle"
  <2>1. lp' = [pc |-> "length", torn |-> torn, len |-> pk.size, bytes |-> <<>>]
        /\ pk.size # 0
    BY <1>4 DEF longpoll_decode
  <2>2. torn \in BOOLEAN /\ (~ torn => wpc = "idle")
    BY Zenon
  <2> HIDE DEF torn
  <2>3. LpTypes'
    BY <1>2, <1>3, <2>1, <2>2 DEF LpTypes
  <2>4. CASE torn = TRUE
    BY <2>1, <2>3, <2>4 DEF LpInv
  <2>5. CASE torn = FALSE
    BY <1>1, <2>1, <2>2, <2>3, <2>5 DEF LpInv
  <2> QED
    BY <2>2, <2>4, <2>5
<1>5. CASE copy_opcodes
  <2> DEFINE h == SubSeq(pk.bytes, 1, Head3)
  <2>1. lp' = [lp EXCEPT !.pc = "opcodes", !.bytes = h] /\ lp.pc = "length"
    BY <1>5 DEF copy_opcodes
  <2>2. h \in Seq(Octets)
    <3>1. \A k \in 1 .. 3 : pk.bytes[k] \in Octets
      BY DEF PkTypes, PkSize
    <3> QED
      BY <3>1, SubSeqProperties DEF Head3
  <2>3. h = SubSeq(pk'.bytes, 1, Head3)
    BY <1>1
  <2> HIDE DEF h
  <2>4. lp' = [pc |-> "opcodes", torn |-> lp.torn, len |-> lp.len, bytes |-> h]
    BY <2>1 DEF LpTypes
  <2>5. LpTypes'
    BY <2>2, <2>4 DEF LpTypes
  <2>6. LpInv'
    BY <1>1, <2>1, <2>3, <2>4 DEF LpInv
  <2> QED
    BY <2>5, <2>6
<1>6. CASE \E t : copy_rest(t)
  <2>1. lp' = Polling
    BY <1>6 DEF copy_rest
  <2> QED
    BY <1>3, <2>1 DEF LpTypes, LpInv, Polling, PkSize
<1> QED
  BY <1>4, <1>5, <1>6 DEF Polls

(* A step of a selection marks what is being read as torn. *)
LEMMA LpOverlapped ==
  ASSUME LpTypes, lp' = Overlapped
  PROVE  LpTypes' /\ LpInv'
<1> DEFINE torn == lp.pc # "poll"
<1>1. lp' = [lp EXCEPT !.torn = torn]
  BY DEF Overlapped
<1>2. torn \in BOOLEAN /\ (~ torn => lp.pc = "poll")
  BY Zenon
<1> HIDE DEF torn
<1>3. lp' = [pc |-> lp.pc, torn |-> torn, len |-> lp.len, bytes |-> lp.bytes]
  BY <1>1 DEF LpTypes
<1>4. LpTypes'
  BY <1>2, <1>3 DEF LpTypes
<1>5. LpInv'
  BY <1>2, <1>3 DEF LpInv
<1> QED
  BY <1>4, <1>5

(* Whatever step is taken, a script that is read in one go is whole. *)
LEMMA LpNext ==
  ASSUME LateInv, LpTypes, LpInv, PkTypes, PkInv, [Next]_vars
  PROVE  LpTypes' /\ LpInv'
<1>1. CASE Polls
  BY <1>1, LpStep
<1>2. CASE share_result \/ select_hash \/ select_size
  BY <1>2, LpOverlapped DEF share_result, select_hash, select_size
<1>3. CASE starting /\ main_loads
  <2>1. lp' = lp /\ lp.pc = "poll"
    BY <1>3 DEF starting, main_loads, LateInv
  <2> QED
    BY <2>1 DEF LpTypes, LpInv
<1>4. CASE ~ Selecting /\ ~ Polls
  <2>1. lp' = lp
    BY Zenon, <1>4 DEF Next, Polls, Selecting, starting, x_stratum, get_upstream_work, handed_over,
       startVars, vars
  <2>2. UNCHANGED <<pk, wpc>>
    BY <1>4, NotSelecting
  <2> QED
    BY <2>1, <2>2 DEF LpTypes, LpInv
<1> QED
  BY <1>1, <1>2, <1>3, <1>4 DEF Selecting

-----------------------------------------------------------------------------
(* What is decoded. *)

(* The coinbase that the miner builds pays the script it is given; without  *)
(* a script there is no work.                                               *)
LEMMA PaysScript ==
  ASSUME NEW t, NEW script, NEW sig, t.cbtxn = 0
  PROVE  /\ gbt_work_decode(t, script, sig).cb.script = script
         /\ gbt_work_decode(t, script, sig).rc => script # <<>>
<1> DEFINE cb0 == build_coinbase(t, script)
           cb == append_xsig(cb0, sig, t.aux)
<1>1. cb0.script = script
  BY DEF build_coinbase
<1> HIDE DEF cb0
<1>2. cb.script = cb0.script
  BY DEF append_xsig
<1> HIDE DEF cb
<1>3. gbt_work_decode(t, script, sig).cb = cb
  BY DEF gbt_work_decode, cb, cb0
<1>4. gbt_work_decode(t, script, sig).rc => script # <<>>
  BY DEF gbt_work_decode
<1> QED
  BY <1>1, <1>2, <1>3, <1>4

(* Between two selections pk_script is one of the addresses. *)
LEMMA WholeScript ==
  ASSUME FileInv, PkTypes, PkInv, wpc = "idle", pk.size # 0
  PROVE  /\ \E i \in 1 .. Len(addrs) : pk_script = addrs[i]
         /\ pk.size \in 4 .. PkSize
<1>1. PICK i \in 1 .. Len(addrs) :
        pk.size = Len(addrs[i]) /\ Begins(pk.bytes, addrs[i], Len(addrs[i]))
  BY DEF PkInv
<1> DEFINE s == addrs[i]
           n == pk.size
<1>2. s \in Scripts
  BY FileScripts
<1>3. n = Len(s) /\ Begins(pk.bytes, s, n)
  BY <1>1
<1> HIDE DEF s, n
<1>4. s \in Seq(Octets) /\ n \in Nat /\ n >= 4 /\ n <= PkSize
  BY <1>2, <1>3, ScriptBytes
<1>5. \A k \in 1 .. n : pk.bytes[k] = s[k] /\ s[k] \in Octets
  BY <1>3, <1>4 DEF Begins
<1> DEFINE w == SubSeq(pk.bytes, 1, n)
<1>6. w \in Seq(Octets) /\ Len(w) = n /\ \A k \in 1 .. n : w[k] = pk.bytes[k]
  <2>1. 1 \in Int /\ n \in Int /\ \A k \in 1 .. n : pk.bytes[k] \in Octets
    BY <1>4, <1>5
  <2>2. /\ w \in Seq(Octets)
        /\ Len(w) = IF 1 <= n THEN n - 1 + 1 ELSE 0
        /\ \A k \in 1 .. n - 1 + 1 : w[k] = pk.bytes[1 + k - 1]
    BY <2>1, SubSeqProperties
  <2> HIDE DEF w
  <2>3. 1 <= n /\ n - 1 + 1 = n /\ \A k \in 1 .. n : 1 + k - 1 = k
    BY <1>4
  <2> QED
    BY <2>2, <2>3
<1> HIDE DEF w
<1>7. w = s
  BY <1>3, <1>4, <1>5, <1>6, SeqEqual
<1>8. pk_script = s
  BY <1>7 DEF pk_script, w, n
<1>9. n \in 4 .. PkSize
  BY <1>4 DEF PkSize
<1> QED
  BY <1>8, <1>9 DEF s, n

(* Each decode builds the coinbase for an address; the others make none. *)
LEMMA PaysNext ==
  ASSUME FileInv, PkTypes, PkInv, LpInv, PaysLoaded, [Next]_vars
  PROVE  PaysLoaded'
<1>1. ASSUME NEW t, get_upstream_work(t) PROVE PaysLoaded'
  <2>1. made' = Made("workio", t, pk_script, FALSE) /\ wpc = "idle" /\ addrs' = addrs
    BY <1>1 DEF get_upstream_work, Asked
  <2> SUFFICES ASSUME Decoded', made'.tpl.cbtxn = 0
               PROVE  \E i \in 1 .. Len(addrs) : made'.work.cb.script = addrs[i]
    BY <2>1 DEF PaysLoaded
  <2>2. t.cbtxn = 0 /\ made'.work = gbt_work_decode(t, pk_script, opt.sig)
    BY <2>1 DEF Made
  <2>3. made'.work.cb.script = pk_script /\ pk_script # <<>>
    BY <2>2, PaysScript DEF Decoded
  <2>4. pk.size # 0
    <3>1. pk.size = 0 => SubSeq(pk.bytes, 1, pk.size) = <<>>
      BY SubSeqEmpty
    <3> QED
      BY <2>3, <3>1 DEF pk_script
  <2> QED
    BY <2>1, <2>3, <2>4, WholeScript
<1>2. ASSUME NEW t, copy_rest(t) PROVE PaysLoaded'
  <2> DEFINE script == lp.bytes \o SubSeq(pk.bytes, Head3 + 1, lp.len)
  <2>1. made' = Made("longpoll", t, script, lp.torn) /\ lp.pc = "opcodes" /\ addrs' = addrs
        /\ t.cbtxn = 0
    BY <1>2 DEF copy_rest, startVars
  <2> SUFFICES ASSUME ~ lp.torn
               PROVE  \E i \in 1 .. Len(addrs) : made'.work.cb.script = addrs[i]
    BY <2>1 DEF PaysLoaded, Made
  <2>2. wpc = "idle" /\ lp.len = pk.size /\ pk.size # 0 /\ lp.bytes = SubSeq(pk.bytes, 1, 3)
    BY <2>1 DEF LpInv, Head3
  <2>3. pk.size \in 4 .. 42 /\ pk.bytes \in [1 .. 42 -> Octets]
    BY <2>2, WholeScript DEF PkTypes, PkSize
  <2>4. script = pk_script
    <3> DEFINE b == pk.bytes
    <3>4. b \in [1 .. 42 -> Octets]
      BY <2>3
    <3> HIDE DEF b
    <3>1. Long(b, Octets, 42)
      BY <3>4, LongFunction
    <3>2. 1 \in 1 .. 42 + 1 /\ 3 \in 1 - 1 .. 42 /\ pk.size \in 3 .. 42
      BY <2>3
    <3>5. 1 \in 1 .. Len(b) + 1 /\ 3 \in 1 - 1 .. Len(b) /\ pk.size \in 3 .. Len(b)
      BY <3>1, <3>2, Zenon DEF Long
    <3>3. SubSeq(b, 1, 3) \o SubSeq(b, 3 + 1, pk.size) = SubSeq(b, 1, pk.size)
      <4>1. b \in Seq(Octets)
        BY <3>1 DEF Long
      <4> QED
        BY <3>5, <4>1, ConcatAdjacentSubSeq
    <3> QED
      BY <2>2, <3>3 DEF pk_script, Head3, b
  <2>5. made'.work.cb.script = script
    <3> HIDE DEF script
    <3>1. made'.work = gbt_work_decode(t, script, opt.sig)
      BY <2>1 DEF Made
    <3> QED
      BY <2>1, <3>1, PaysScript
  <2> QED
    BY <2>2, <2>4, <2>5, WholeScript
<1>3. CASE starting \/ handed_over
  BY <1>3 DEF starting, handed_over, PaysLoaded, Decoded
<1>4. CASE UNCHANGED <<made, addrs>>
  BY <1>4 DEF PaysLoaded, Decoded
<1>5. CASE x_stratum \/ share_result \/ select_hash \/ select_size \/ longpoll_decode
           \/ copy_opcodes \/ UNCHANGED vars
  <2>1. UNCHANGED <<made, addrs>>
    BY <1>5 DEF x_stratum, share_result, select_hash, select_size, longpoll_decode,
       copy_opcodes, startVars, vars
  <2> QED
    BY <1>4, <2>1
<1> QED
  BY <1>1, <1>2, <1>3, <1>5 DEF Next

-----------------------------------------------------------------------------
(* The invariant as a whole, and what follows of it. *)

-----------------------------------------------------------------------------
(* What is decoded is made of a template of the node. *)

(* A node answers with sound templates.                                     *)
LEMMA SoundTemplates ==
  ASSUME NEW t \in Templates \cup Few
  PROVE  Sound(t)
<1>1. /\ Len(t.txs) \in Nat /\ Len(t.aux) \in Nat
      /\ t.height \in Nat /\ 1 <= t.height
      /\ t.cbtxn = 0 \/ t.cbtxn \in 2 .. 100
  BY SMT, TemplateAssumption
<1>2. t.height \in Nat /\ t.height <= 2147483647
  BY SMT, TemplateAssumption
<1>3. t.height < Top(4)
  BY SMT, <1>2 DEF Top
<1> QED
  BY SMT, <1>1, <1>3 DEF Sound

(* No signature, or the one of the test. *)
SigInv == opt.sig \in {0, 30}

(* Only an option on the command line sets it.                              *)
LEMMA SigNext ==
  ASSUME OptInv, SigInv, [Next]_vars
  PROVE  SigInv'
<1>1. ASSUME NEW key \in Keys, parse_cmdline(key) PROVE SigInv'
  <2>1. opt \in Parsed
    BY <1>1 DEF OptInv, parse_cmdline
  <2>2. opt' \in Parsed
    BY <1>1, <2>1, ArgParsed, ConfigParsed DEF parse_cmdline
  <2> QED
    BY <2>2 DEF Parsed, Options, SigInv
<1>2. ASSUME NEW t, get_upstream_work(t) PROVE SigInv'
  <2> DEFINE gbt == ~ (no_payout(t) /\ opt.allow_getwork)
             lpo == opt.have_longpoll \/ (made'.work.rc /\ opt.want_longpoll)
  <2>1. opt' = [opt EXCEPT !.have_gbt = gbt, !.have_longpoll = lpo]
    BY Zenon, <1>2 DEF get_upstream_work
  <2>2. DOMAIN opt = DOMAIN Defaults
    BY DEF OptInv
  <2> HIDE DEF gbt, lpo
  <2>3. opt'.sig = opt.sig
    BY <2>1, <2>2 DEF Defaults
  <2> QED
    BY Zenon, <2>3 DEF SigInv
<1>3. CASE x_stratum
  <2>1. opt' = [opt EXCEPT !.have_stratum = TRUE]
    BY Zenon, <1>3 DEF x_stratum
  <2>2. DOMAIN opt = DOMAIN Defaults
    BY DEF OptInv
  <2>3. opt'.sig = opt.sig
    BY <2>1, <2>2 DEF Defaults
  <2> QED
    BY Zenon, <2>3 DEF SigInv
<1>4. CASE opt' = opt
  BY Zenon, <1>4 DEF SigInv
<1>5. \/ \E key \in Keys : parse_cmdline(key)
      \/ \E t : get_upstream_work(t)
      \/ x_stratum \/ opt' = opt
  BY Zenon DEF Next, vars, startVars, starting, main, main_refuses, main_loads, main_goes_on, main_inits,
     start_workio, start_longpoll, start_stratum, start_miner, start_thread,
     share_result, select_hash, select_size, longpoll_decode, copy_opcodes, copy_rest, handed_over
<1> QED
  BY Zenon, <1>1, <1>2, <1>3, <1>4, <1>5

(* The opcodes are read in one go. *)
LpBytes == lp.pc = "opcodes" => Len(lp.bytes) = Head3

(* The unit of work is what gbt_work_decode makes of a template, and the    *)
(* script no longer than pk_script, whoever decodes it.                     *)
MadeInv ==
  made # None =>
    /\ made.tpl \in Templates \cup Few
    /\ \E n \in 0 .. 42 : n = Len(made.script)
    /\ \E sig \in {0, 30} : made.work = gbt_work_decode(made.tpl, made.script, sig)

(* Nobody else writes what the long-polling thread has read.                *)
LEMMA BytesNext ==
  ASSUME LpTypes, PkTypes, LpBytes, [Next]_vars
  PROVE  LpBytes'
<1>1. CASE longpoll_decode
  BY <1>1 DEF longpoll_decode, LpBytes
<1>2. CASE copy_opcodes
  <2>1. lp' = [lp EXCEPT !.pc = "opcodes", !.bytes = SubSeq(pk.bytes, 1, Head3)]
    BY Zenon, <1>2 DEF copy_opcodes
  <2>2. lp'.bytes = SubSeq(pk.bytes, 1, 3)
    BY <2>1 DEF LpTypes, Head3
  <2>3. Len(SubSeq(pk.bytes, 1, 3)) = 3
    <3>1. \A k \in 1 .. 3 : pk.bytes[k] \in Octets
      BY DEF PkTypes, PkSize
    <3> QED
      BY <3>1, SubSeqProperties
  <2> QED
    BY <2>2, <2>3 DEF LpBytes, Head3
<1>3. CASE \E t : copy_rest(t)
  BY <1>3 DEF copy_rest, Polling, LpBytes
<1>4. CASE share_result \/ select_hash \/ select_size
  <2>1. lp' = [lp EXCEPT !.torn = lp.pc # "poll"]
    BY Zenon, <1>4 DEF share_result, select_hash, select_size, Overlapped
  <2>2. lp'.pc = lp.pc /\ lp'.bytes = lp.bytes
    BY <2>1 DEF LpTypes
  <2> QED
    BY <2>2 DEF LpBytes
<1>5. CASE lp' = lp
  BY <1>5 DEF LpBytes
<1>6. \/ longpoll_decode \/ copy_opcodes \/ (\E t : copy_rest(t))
      \/ share_result \/ select_hash \/ select_size \/ lp' = lp
  BY Zenon DEF Next, starting, x_stratum, get_upstream_work, handed_over, startVars, vars
<1> QED
  BY <1>1, <1>2, <1>3, <1>4, <1>5, <1>6

(* A unit of work just made. *)
LEMMA MadeStep ==
  ASSUME NEW by, NEW t \in Templates \cup Few, NEW script, NEW torn,
         NEW n \in 0 .. 42, n = Len(script), opt.sig \in {0, 30},
         made' = Made(by, t, script, torn)
  PROVE  MadeInv'
<1>1. /\ made'.tpl = t /\ made'.script = script
      /\ made'.work = gbt_work_decode(t, script, opt.sig)
  BY DEF Made
<1> QED
  BY Zenon, <1>1 DEF MadeInv

(* Both threads decode templates of the node for a script that fits.        *)
LEMMA MadeNext ==
  ASSUME SigInv, PkTypes, LpTypes, LpBytes, MadeInv, [Next]_vars
  PROVE  MadeInv'
<1>1. opt.sig \in {0, 30}
  BY Zenon DEF SigInv
<1>2. /\ pk.size \in 0 .. 42 /\ lp.len \in 0 .. 42 /\ lp.bytes \in Seq(Octets)
      /\ \A k \in 1 .. 42 : pk.bytes[k] \in Octets
  BY DEF PkTypes, LpTypes, PkSize
<1>3. ASSUME NEW t \in Answers, get_upstream_work(t) PROVE MadeInv'
  <2>1. made' = Made("workio", t, pk_script, FALSE)
    BY Zenon, <1>3 DEF get_upstream_work
  <2>2. Len(pk_script) = pk.size
    <3>1. PICK k \in 0 .. 42 : k = pk.size
      BY <1>2
    <3>2. \A i \in 1 .. k : pk.bytes[i] \in Octets
      <4>1. \A i \in 1 .. k : i \in 1 .. 42
        OBVIOUS
      <4> QED
        BY Zenon, <1>2, <4>1
    <3>3. Len(SubSeq(pk.bytes, 1, k)) = k
      BY <3>2, SubSeqProperties
    <3> QED
      BY Zenon, <3>1, <3>3 DEF pk_script
  <2>3. t \in Templates \cup Few
    BY Zenon DEF Answers
  <2> QED
    BY Zenon, <1>1, <1>2, <2>1, <2>2, <2>3, MadeStep
<1>4. ASSUME NEW t \in Few, copy_rest(t) PROVE MadeInv'
  <2> DEFINE r == SubSeq(pk.bytes, Head3 + 1, lp.len)
  <2>1. made' = Made("longpoll", t, lp.bytes \o r, lp.torn) /\ lp.pc = "opcodes"
    BY Zenon, <1>4 DEF copy_rest
  <2>2. PICK k \in 0 .. 42 : k = lp.len
    BY <1>2
  <2>3. \A i \in 4 .. k : pk.bytes[i] \in Octets
    <3>1. \A i \in 4 .. k : i \in 1 .. 42
      OBVIOUS
    <3> QED
      BY Zenon, <1>2, <3>1
  <2>4. r = SubSeq(pk.bytes, 4, k)
    <3>1. Head3 + 1 = 4
      BY DEF Head3
    <3> QED
      BY Zenon, <2>2, <3>1
  <2>5. /\ SubSeq(pk.bytes, 4, k) \in Seq(Octets)
        /\ Len(SubSeq(pk.bytes, 4, k)) = IF 4 <= k THEN k - 4 + 1 ELSE 0
    BY <2>3, SubSeqProperties
  <2> HIDE DEF r
  <2>6. r \in Seq(Octets) /\ Len(r) \in 0 .. 39
    <3>1. (IF 4 <= k THEN k - 4 + 1 ELSE 0) \in 0 .. 39
      OBVIOUS
    <3> QED
      BY Zenon, <2>4, <2>5, <3>1
  <2>7. Len(lp.bytes) = 3
    BY <2>1 DEF LpBytes, Head3
  <2>8. Len(lp.bytes \o r) \in 0 .. 42
    <3>1. PICK j \in 0 .. 39 : j = Len(r)
      BY <2>6
    <3>2. PICK a \in Seq(Octets) : a = lp.bytes
      BY Zenon, <1>2
    <3>3. Len(a) = 3
      BY Zenon, <2>7, <3>2
    <3>4. Len(a \o r) = 3 + j
      <4>1. Len(a \o r) = Len(a) + Len(r)
        BY <2>6
      <4> QED
        BY <3>1, <3>3, <4>1
    <3>5. Len(a \o r) \in 0 .. 42
      BY <3>4
    <3> QED
      BY Zenon, <3>2, <3>5
  <2>9. t \in Templates \cup Few
    OBVIOUS
  <2> QED
    BY Zenon, <1>1, <2>1, <2>8, <2>9, MadeStep
<1>5. CASE handed_over
  BY Zenon, <1>5 DEF handed_over, MadeInv
<1>6. CASE made' = made
  BY Zenon, <1>6 DEF MadeInv
<1>7. \/ \E t \in Answers : get_upstream_work(t)
      \/ \E t \in Few : copy_rest(t)
      \/ handed_over \/ made' = made
  BY DEF Next, starting, x_stratum, share_result, select_hash, select_size, longpoll_decode,
     copy_opcodes, vars
<1> QED
  BY Zenon, <1>3, <1>4, <1>5, <1>6, <1>7

(* Nothing is decoded at first.                                             *)
LEMMA MadeInit == Init => SigInv /\ LpBytes /\ MadeInv
<1> SUFFICES ASSUME Init PROVE SigInv /\ LpBytes /\ MadeInv
  OBVIOUS
<1>1. lp.pc = "poll" /\ made = None
  BY DEF Init, Polling
<1>2. opt.sig \in {0, 30}
  BY DEF Init, StartInit, Defaults
<1> QED
  BY Zenon, <1>1, <1>2 DEF SigInv, LpBytes, MadeInv


-----------------------------------------------------------------------------
(* The inductive invariant. *)
IInv == /\ StartInv /\ LateInv
        /\ FileInv /\ PkTypes /\ PkInv
        /\ LpTypes /\ LpInv /\ LpBytes
        /\ SigInv /\ PaysLoaded /\ MadeInv

(* It holds before main parses anything. *)
LEMMA InvInit == Init => IInv
<1>1. Init => lp = Polling /\ wpc = "idle" /\ made = None
  BY DEF Init
<1>2. <<>> \in Seq(Octets) /\ 0 \in 0 .. PkSize
  BY DEF PkSize
<1>3. lp = Polling /\ wpc = "idle" => LpTypes /\ LpInv /\ LateInv
  <2> SUFFICES ASSUME lp = Polling, wpc = "idle" PROVE LpTypes /\ LpInv /\ LateInv
    OBVIOUS
  <2>1. LpTypes
    BY <1>2 DEF Polling, LpTypes
  <2> QED
    BY <2>1 DEF Polling, LpInv, LateInv
<1>4. Init => PaysLoaded
  BY <1>1 DEF PaysLoaded, Decoded
<1> QED
  BY <1>1, <1>3, <1>4, OptInit, ThreadInit, PkInit, MadeInit DEF IInv, StartInv

(* Every step preserves it. *)
LEMMA InvNext == IInv /\ [Next]_vars => IInv'
<1> SUFFICES ASSUME IInv, [Next]_vars PROVE IInv'
  OBVIOUS
<1>1. StartInv' /\ LateInv' /\ FileInv' /\ PkTypes' /\ PkInv' /\ LpTypes' /\ LpInv' /\ PaysLoaded'
  BY StartNext, LateNext, FileNext, PkNext, LpNext, PaysNext DEF IInv
<1>2. SigInv' /\ LpBytes' /\ MadeInv'
  BY SigNext, BytesNext, MadeNext DEF IInv, StartInv
<1> QED
  BY <1>1, <1>2 DEF IInv

(* So it always holds. *)
LEMMA InvCorrect == Spec => []IInv
BY InvInit, InvNext, PTL DEF Spec

(* Whatever the options and their order, the answers of a node and the      *)
(* threads that cannot be made: main never pushes to a queue that is not    *)
(* there, and the miners it starts have what they need.                     *)
THEOREM StartsFedCorrect == Spec => []StartsFed
<1>1. IInv => StartsFed
  <2> SUFFICES ASSUME IInv PROVE StartsFed
    OBVIOUS
  <2>1. pushed \subseteq queues
    BY DEF IInv, StartInv, PushInv
  <2>2. ASSUME Miners # {}
        PROVE  /\ LongpollUp /\ StratumUp /\ "workio" \in threads
               /\ Solo => pk.size > 0
               /\ opt.benchmark => ~ opt.have_stratum /\ pushed = {}
    BY <2>2 DEF IInv, StartInv, ThreadInv, FedInv, PushInv, OptInv, Alone, Up
  <2> QED
    BY <2>1, <2>2 DEF StartsFed, StratumUp, Solo
<1> QED
  BY <1>1, InvCorrect, PTL

(* The coinbase that is built without an accepted block in between pays an  *)
(* address that was loaded, whatever was in the file, however long the      *)
(* scripts and whoever decodes the template.                                *)
THEOREM PaysLoadedCorrect == Spec => []PaysLoaded
BY InvCorrect, PTL DEF IInv

(* ... which is an address of the file as long as the decoders do what      *)
(* LoadsTheListed says.                                                     *)
THEOREM PaysListedCorrect == Spec => [](LoadsTheListed => PaysListed)
<1>1. IInv => (LoadsTheListed => PaysListed)
  <2> SUFFICES ASSUME IInv, LoadsTheListed, Decoded, made.tpl.cbtxn = 0, ~ made.torn,
                      NEW f \in Disk, f.name = file, f.short
               PROVE  made.work.cb.script \in ToSet(f.scripts)
    BY DEF PaysListed
  <2>1. addrs = f.scripts
    BY DEF LoadsTheListed
  <2>2. PICK i \in 1 .. Len(addrs) : made.work.cb.script = addrs[i]
    BY DEF IInv, PaysLoaded
  <2>3. i \in DOMAIN addrs
    <3>1. addrs \in Seq(Scripts)
      BY FileScripts DEF IInv
    <3> QED
      BY <3>1
  <2> QED
    BY <2>1, <2>2, <2>3 DEF ToSet
<1> QED
  BY <1>1, InvCorrect, PTL

(* For every template of a block, with however many transactions: what is   *)
(* hashed and submitted is the root of the tree over its coinbase and its   *)
(* transactions, and the commitment the one over their witnesses.           *)
THEOREM TreesMatchCorrect == Spec => []TreesMatchTemplate
<1>1. MadeInv => TreesMatchTemplate
  <2> SUFFICES ASSUME MadeInv, Decoded PROVE TreesMatchTemplate
    BY Zenon DEF TreesMatchTemplate
  <2>1. PICK t : t = made.tpl
    OBVIOUS
  <2>2. PICK w : w = made.work
    OBVIOUS
  <2>3. t \in Templates \cup Few
    BY Zenon, <2>1 DEF MadeInv, Decoded
  <2>4. PICK sig : w = gbt_work_decode(t, made.script, sig)
    BY Zenon, <2>1, <2>2 DEF MadeInv, Decoded
  <2>5. PICK n \in Nat : n = Len(t.txs)
    BY Zenon, <2>3, SoundTemplates DEF Sound
  <2> DEFINE leaves == <<Sha(w.cb)>> \o [i \in 1 .. Len(t.txs) |-> tx_leaf(t, i)]
  <2>6. w.root = merkle_root(leaves)
    BY <2>4 DEF gbt_work_decode
  <2>7. w.root = TreeRoot(leaves)
    <3> DEFINE U == {Sha(w.cb)} \cup {tx_leaf(t, i) : i \in 1 .. n}
               tl == [i \in 1 .. n |-> tx_leaf(t, i)]
    <3>1. tl \in Seq(U) /\ Len(tl) = n
      OBVIOUS
    <3>2. <<Sha(w.cb)>> \in Seq(U) /\ Len(<<Sha(w.cb)>>) = 1
      OBVIOUS
    <3>3. leaves = <<Sha(w.cb)>> \o tl
      BY Zenon, <2>5
    <3> HIDE DEF U, tl, leaves
    <3>4. leaves \in Seq(U) /\ Len(leaves) = 1 + n
      BY <3>1, <3>2, <3>3
    <3>5. 1 + n \in Nat /\ 1 + n > 0
      OBVIOUS
    <3> QED
      BY Zenon, <2>6, <3>4, <3>5, MerkleRoot
  <2>8. t.segwit /\ t.cbtxn = 0 =>
          w.cb.commit = Pair(TreeRoot(<<Zero>> \o [i \in 1 .. Len(t.txs) |-> <<"hash", t.txs[i]>>]), Zero)
    <3> SUFFICES ASSUME t.segwit, t.cbtxn = 0
                 PROVE  w.cb.commit = witness_commitment(t.txs)
      BY Zenon, <2>5, WitnessCommitment
    <3>1. PICK cb0 : cb0 = build_coinbase(t, made.script)
      OBVIOUS
    <3>2. ~ t.cbtxn > 0
      OBVIOUS
    <3>3. w.cb = append_xsig(cb0, sig, t.aux)
      BY <2>4, <3>1, <3>2 DEF gbt_work_decode
    <3>4. cb0.commit = witness_commitment(t.txs)
      BY <3>1 DEF build_coinbase
    <3>5. append_xsig(cb0, sig, t.aux).commit = cb0.commit
      BY <3>1 DEF append_xsig, build_coinbase
    <3> QED
      BY Zenon, <3>3, <3>4, <3>5
  <2> QED
    BY Zenon, <2>1, <2>2, <2>7, <2>8 DEF TreesMatchTemplate
<1> QED
  BY <1>1, InvCorrect, PTL DEF IInv

(* For every height, every signature and every auxiliary data: the script   *)
(* signature is one a node accepts, and the coinbase stays in its buffer.   *)
THEOREM CoinbaseCorrect == Spec => []CoinbaseLegal
<1>1. MadeInv => CoinbaseLegal
  <2> SUFFICES ASSUME MadeInv, Decoded PROVE Legal(made.tpl, made.work.cb)
    BY Zenon DEF CoinbaseLegal
  <2>1. /\ made.tpl \in Templates \cup Few
        /\ \E n \in 0 .. 42 : n = Len(made.script)
        /\ \E sig \in {0, 30} : made.work = gbt_work_decode(made.tpl, made.script, sig)
    BY Zenon DEF MadeInv, Decoded
  <2> QED
    BY Zenon, <2>1, SoundTemplates, CoinbaseDecoded
<1> QED
  BY <1>1, InvCorrect, PTL DEF IInv

(* For every template of a block: the count says how many transactions the  *)
(* block has, they are in its order, and the words of header and target     *)
(* hold each byte where the consensus wants it.                             *)
THEOREM WorkMatchesCorrect == Spec => []WorkMatchesTemplate
<1>1. MadeInv => WorkMatchesTemplate
  <2> SUFFICES ASSUME MadeInv, Decoded PROVE WorkMatchesTemplate
    BY Zenon DEF WorkMatchesTemplate
  <2>1. PICK t : t = made.tpl
    OBVIOUS
  <2>2. PICK w : w = made.work
    OBVIOUS
  <2>3. t \in Templates \cup Few
    BY Zenon, <2>1 DEF MadeInv, Decoded
  <2>4. PICK sig : w = gbt_work_decode(t, made.script, sig)
    BY Zenon, <2>1, <2>2 DEF MadeInv, Decoded
  <2>5. /\ w.count = varint_encode(1 + Len(t.txs))
        /\ w.txs = IF t.submitcb THEN <<>> ELSE t.txs
        /\ w.data = assemble_header
        /\ w.target = decode_target
    BY <2>4 DEF gbt_work_decode
  <2>6. VarintValue(w.count) = 1 + Len(t.txs)
    <3>1. Len(t.txs) \in Nat /\ Len(t.txs) < 2147483647
      BY SMT, <2>3, TemplateAssumption
    <3>2. PICK n \in Nat : n = 1 + Len(t.txs)
      BY SMT, <3>1
    <3>3. n < 2147483648
      BY SMT, <3>1, <3>2
    <3>4. VarintValue(varint_encode(n)) = n
      BY SMT, <3>3, VarintCorrect
    <3> QED
      BY Zenon, <2>5, <3>2, <3>4
  <2>7. FlattenSeq(w.data) = ReferenceHeader
    BY Zenon, <2>5, HeaderBytes
  <2>8. FlattenSeq(Reverse(w.target)) = Bytes("target", 1, 32)
    BY Zenon, <2>5, TargetBytes
  <2>9. ~ t.submitcb => w.txs = t.txs
    BY Zenon, <2>5
  <2> QED
    BY Zenon, <2>1, <2>2, <2>6, <2>7, <2>8, <2>9 DEF WorkMatchesTemplate
<1> QED
  BY <1>1, InvCorrect, PTL DEF IInv

-----------------------------------------------------------------------------
(* Base58: the number that a text spells. *)

(* The character of a digit. *)
Char58(k) == IF k <= 9 THEN 48 + k ELSE
             IF k <= 17 THEN 55 + k ELSE
             IF k <= 22 THEN 56 + k ELSE
             IF k <= 33 THEN 57 + k ELSE
             IF k <= 44 THEN 63 + k ELSE 64 + k

(* The characters from one code to another. *)
LEMMA CodesAre ==
  ASSUME NEW p \in Nat, NEW q \in Nat, NEW n \in Nat, n = q - p + 1
  PROVE  Long(Codes(p, q), Nat, n) /\ \A i \in 1 .. n : Codes(p, q)[i] = p + i - 1
<1>1. Codes(p, q) = [i \in 1 .. n |-> p + i - 1]
  BY DEF Codes
<1>2. Codes(p, q) \in [1 .. n -> Nat]
  BY <1>1
<1>3. Long(Codes(p, q), Nat, n)
  BY <1>2, LongFunction
<1>4. \A i \in 1 .. n : Codes(p, q)[i] = p + i - 1
  BY SMTT(60), <1>1
<1> QED
  BY <1>3, <1>4

(* The alphabet: its characters are in the order of their codes. *)
LEMMA Alphabet58 ==
  /\ Len(b58digits) = 58
  /\ \A k \in 1 .. 58 : b58digits[k] = Char58(k)
  /\ \A k \in 1 .. 58 : b58digits[k] \in Nat
  /\ \A k, l \in 1 .. 58 : b58digits[k] = b58digits[l] => k = l
<1> DEFINE a == Codes(49, 57)
           b == Codes(65, 72)
           c == Codes(74, 78)
           d == Codes(80, 90)
           e == Codes(97, 107)
           f == Codes(109, 122)
<1>1. b58digits = a \o b \o c \o d \o e \o f
  BY DEF b58digits
<1>2. Long(a, Nat, 9) /\ \A i \in 1 .. 9 : a[i] = 48 + i
  <2>1. PICK p \in Nat, q \in Nat, n \in Nat : p = 49 /\ q = 57 /\ n = 9 /\ n = q - p + 1
    OBVIOUS
  <2>2. Long(Codes(p, q), Nat, n) /\ \A i \in 1 .. n : Codes(p, q)[i] = p + i - 1
    <3>1. n = q - p + 1
      BY <2>1
    <3> QED
      BY <3>1, CodesAre
  <2>3. \A i \in 1 .. n : p + i - 1 = 48 + i
    BY <2>1
  <2> QED
    BY <2>1, <2>2, <2>3
<1>3. Long(b, Nat, 8) /\ \A i \in 1 .. 8 : b[i] = 64 + i
  <2>1. PICK p \in Nat, q \in Nat, n \in Nat : p = 65 /\ q = 72 /\ n = 8 /\ n = q - p + 1
    OBVIOUS
  <2>2. Long(Codes(p, q), Nat, n) /\ \A i \in 1 .. n : Codes(p, q)[i] = p + i - 1
    <3>1. n = q - p + 1
      BY <2>1
    <3> QED
      BY <3>1, CodesAre
  <2>3. \A i \in 1 .. n : p + i - 1 = 64 + i
    BY <2>1
  <2> QED
    BY <2>1, <2>2, <2>3
<1>4. Long(c, Nat, 5) /\ \A i \in 1 .. 5 : c[i] = 73 + i
  <2>1. PICK p \in Nat, q \in Nat, n \in Nat : p = 74 /\ q = 78 /\ n = 5 /\ n = q - p + 1
    OBVIOUS
  <2>2. Long(Codes(p, q), Nat, n) /\ \A i \in 1 .. n : Codes(p, q)[i] = p + i - 1
    <3>1. n = q - p + 1
      BY <2>1
    <3> QED
      BY <3>1, CodesAre
  <2>3. \A i \in 1 .. n : p + i - 1 = 73 + i
    BY <2>1
  <2> QED
    BY <2>1, <2>2, <2>3
<1>5. Long(d, Nat, 11) /\ \A i \in 1 .. 11 : d[i] = 79 + i
  <2>1. PICK p \in Nat, q \in Nat, n \in Nat : p = 80 /\ q = 90 /\ n = 11 /\ n = q - p + 1
    OBVIOUS
  <2>2. Long(Codes(p, q), Nat, n) /\ \A i \in 1 .. n : Codes(p, q)[i] = p + i - 1
    <3>1. n = q - p + 1
      BY <2>1
    <3> QED
      BY <3>1, CodesAre
  <2>3. \A i \in 1 .. n : p + i - 1 = 79 + i
    BY <2>1
  <2> QED
    BY <2>1, <2>2, <2>3
<1>6. Long(e, Nat, 11) /\ \A i \in 1 .. 11 : e[i] = 96 + i
  <2>1. PICK p \in Nat, q \in Nat, n \in Nat : p = 97 /\ q = 107 /\ n = 11 /\ n = q - p + 1
    OBVIOUS
  <2>2. Long(Codes(p, q), Nat, n) /\ \A i \in 1 .. n : Codes(p, q)[i] = p + i - 1
    <3>1. n = q - p + 1
      BY <2>1
    <3> QED
      BY <3>1, CodesAre
  <2>3. \A i \in 1 .. n : p + i - 1 = 96 + i
    BY <2>1
  <2> QED
    BY <2>1, <2>2, <2>3
<1>7. Long(f, Nat, 14) /\ \A i \in 1 .. 14 : f[i] = 108 + i
  <2>1. PICK p \in Nat, q \in Nat, n \in Nat : p = 109 /\ q = 122 /\ n = 14 /\ n = q - p + 1
    OBVIOUS
  <2>2. Long(Codes(p, q), Nat, n) /\ \A i \in 1 .. n : Codes(p, q)[i] = p + i - 1
    <3>1. n = q - p + 1
      BY <2>1
    <3> QED
      BY <3>1, CodesAre
  <2>3. \A i \in 1 .. n : p + i - 1 = 108 + i
    BY <2>1
  <2> QED
    BY <2>1, <2>2, <2>3
<1> HIDE DEF a, b, c, d, e, f
<1>8. PICK s : s = a \o b
  OBVIOUS
<1>9. PICK t : t = s \o c
  OBVIOUS
<1>10. PICK u : u = t \o d
  OBVIOUS
<1>11. PICK v : v = u \o e
  OBVIOUS
<1>12. PICK w : w = v \o f
  OBVIOUS
<1>13. Joint(s, a, b, Nat, 9, 8, 17)
  <2>1. 9 \in Nat /\ 8 \in Nat /\ 17 \in Nat /\ 17 = 9 + 8
    OBVIOUS
  <2>2. Long(a, Nat, 9) /\ Long(b, Nat, 8) /\ s = a \o b
    BY Zenon, <1>2, <1>3, <1>8 DEF Joint
  <2> QED
    BY <2>1, <2>2, Jointly
<1>14. Joint(t, s, c, Nat, 17, 5, 22)
  <2>1. 17 \in Nat /\ 5 \in Nat /\ 22 \in Nat /\ 22 = 17 + 5
    OBVIOUS
  <2>2. Long(s, Nat, 17) /\ Long(c, Nat, 5) /\ t = s \o c
    BY Zenon, <1>13, <1>4, <1>9 DEF Joint
  <2> QED
    BY <2>1, <2>2, Jointly
<1>15. Joint(u, t, d, Nat, 22, 11, 33)
  <2>1. 22 \in Nat /\ 11 \in Nat /\ 33 \in Nat /\ 33 = 22 + 11
    OBVIOUS
  <2>2. Long(t, Nat, 22) /\ Long(d, Nat, 11) /\ u = t \o d
    BY Zenon, <1>14, <1>5, <1>10 DEF Joint
  <2> QED
    BY <2>1, <2>2, Jointly
<1>16. Joint(v, u, e, Nat, 33, 11, 44)
  <2>1. 33 \in Nat /\ 11 \in Nat /\ 44 \in Nat /\ 44 = 33 + 11
    OBVIOUS
  <2>2. Long(u, Nat, 33) /\ Long(e, Nat, 11) /\ v = u \o e
    BY Zenon, <1>15, <1>6, <1>11 DEF Joint
  <2> QED
    BY <2>1, <2>2, Jointly
<1>17. Joint(w, v, f, Nat, 44, 14, 58)
  <2>1. 44 \in Nat /\ 14 \in Nat /\ 58 \in Nat /\ 58 = 44 + 14
    OBVIOUS
  <2>2. Long(v, Nat, 44) /\ Long(f, Nat, 14) /\ w = v \o f
    BY Zenon, <1>16, <1>7, <1>12 DEF Joint
  <2> QED
    BY <2>1, <2>2, Jointly
<1>18. ASSUME NEW k \in 1 .. 58 PROVE w[k] = Char58(k)
  <2>1. CASE k \in 1 .. 9
    <3>1. w[k] = a[k]
      BY <1>13, <1>14, <1>15, <1>16, <1>17, <2>1 DEF Joint
    <3> QED
      BY <1>2, <2>1, <3>1 DEF Char58
  <2>2. CASE k \in 10 .. 17
    <3>1. PICK i \in 1 .. 8 : i = k - 9 /\ 9 + i = k
      BY <2>2
    <3>2. w[k] = b[i]
      BY <1>13, <1>14, <1>15, <1>16, <1>17, <2>2, <3>1 DEF Joint
    <3> QED
      BY <1>3, <2>2, <3>1, <3>2 DEF Char58
  <2>3. CASE k \in 18 .. 22
    <3>1. PICK i \in 1 .. 5 : i = k - 17 /\ 17 + i = k
      BY <2>3
    <3>2. w[k] = c[i]
      BY <1>14, <1>15, <1>16, <1>17, <2>3, <3>1 DEF Joint
    <3> QED
      BY <1>4, <2>3, <3>1, <3>2 DEF Char58
  <2>4. CASE k \in 23 .. 33
    <3>1. PICK i \in 1 .. 11 : i = k - 22 /\ 22 + i = k
      BY <2>4
    <3>2. w[k] = d[i]
      BY <1>15, <1>16, <1>17, <2>4, <3>1 DEF Joint
    <3> QED
      BY <1>5, <2>4, <3>1, <3>2 DEF Char58
  <2>5. CASE k \in 34 .. 44
    <3>1. PICK i \in 1 .. 11 : i = k - 33 /\ 33 + i = k
      BY <2>5
    <3>2. w[k] = e[i]
      BY <1>16, <1>17, <2>5, <3>1 DEF Joint
    <3> QED
      BY <1>6, <2>5, <3>1, <3>2 DEF Char58
  <2>6. CASE k \in 45 .. 58
    <3>1. PICK i \in 1 .. 14 : i = k - 44 /\ 44 + i = k
      BY <2>6
    <3>2. w[k] = f[i]
      BY SMTT(60), <1>17, <2>6, <3>1 DEF Joint
    <3> QED
      BY <1>7, <2>6, <3>1, <3>2 DEF Char58
  <2> QED
    BY <2>1, <2>2, <2>3, <2>4, <2>5, <2>6
<1>19. Len(w) = 58 /\ w = b58digits
  BY <1>1, <1>8, <1>9, <1>10, <1>11, <1>12, <1>17 DEF Joint, Long
<1>20. \A k \in 1 .. 58 : Char58(k) \in Nat
  BY DEF Char58
<1>21. \A k, l \in 1 .. 58 : Char58(k) = Char58(l) => k = l
  BY DEF Char58
<1> QED
  BY <1>18, <1>19, <1>20, <1>21

(* The place of a character in the alphabet, 0 for any other. *)
Place(ch) == SelectInSeq(b58digits, LAMBDA d : d = ch)

(* SelectInSeq finds the place of a character, or none. *)
LEMMA PlaceIs ==
  ASSUME NEW ch
  PROVE  /\ Place(ch) \in 0 .. 58
         /\ Place(ch) # 0 => b58digits[Place(ch)] = ch
         /\ \A k \in 1 .. 58 : b58digits[k] = ch => Place(ch) = k
<1> DEFINE I == {i \in 1 .. Len(b58digits) : b58digits[i] = ch}
<1>1. Place(ch) = IF I # {} THEN CHOOSE x \in I : \A y \in I : x =< y ELSE 0
  BY Zenon DEF Place, SelectInSeq, Min
<1>2. I \in SUBSET Nat /\ \A i : i \in I <=> i \in 1 .. 58 /\ b58digits[i] = ch
  BY Alphabet58
<1> HIDE DEF I
<1>3. CASE I = {}
  BY SMTT(60), <1>1, <1>2, <1>3
<1>4. CASE I # {}
  <2>1. Place(ch) \in I
    BY <1>1, <1>2, <1>4, LeastNumber
  <2> QED
    BY <1>2, <2>1, Alphabet58
<1> QED
  BY <1>3, <1>4

(* The bytes of a word as a number. *)
LEMMA WordSize ==
  \/ WordBytes = 1 /\ WordBase = 256
  \/ WordBytes = 2 /\ WordBase = 65536
  \/ WordBytes = 4 /\ WordBase = 4294967296
<1>1. CASE WordBytes = 1
  BY <1>1 DEF WordBase
<1>2. CASE WordBytes = 2
  BY <1>2 DEF WordBase
<1>3. CASE WordBytes = 4
  BY <1>3 DEF WordBase
<1> QED
  BY <1>1, <1>2, <1>3, WordBytesAssumption

(* o is what is carried from word to word. *)
Carries(o, w, c, n) ==
  /\ o[0] = c
  /\ \A k \in 1 .. n : o[k] = (w[n - k + 1] * 58 + o[k - 1]) \div WordBase
  /\ times58(w, c).c = o[n]
  /\ times58(w, c).out = [j \in 1 .. n |-> (w[j] * 58 + o[n - j]) % WordBase]

(* What times58 carries. *)
LEMMA CarryRow ==
  ASSUME NEW n \in Nat, NEW w \in [1 .. n -> Nat], NEW c \in Nat
  PROVE  \E o \in [0 .. n -> Nat] : Carries(o, w, c, n)
<1> DEFINE over(k, x) == (w[n - k + 1] * 58 + x) \div WordBase
           step == [p \in (1 .. n) \X Nat |-> over(p[1], p[2])]
           Is(g) == g = [k \in 0 .. Len(w) |-> IF k = 0 THEN c
                              ELSE (w[Len(w) - k + 1] * 58 + g[k - 1]) \div WordBase]
           row == CHOOSE g : Is(g)
<1>1. WordBase \in Nat /\ WordBase > 0 /\ Len(w) = n
  BY SMT, WordSize
<1>2. /\ times58(w, c).c = row[n]
      /\ times58(w, c).out = [j \in 1 .. n |-> (w[j] * 58 + row[n - j]) % WordBase]
  <2>1. times58(w, c) = [out |-> [j \in 1 .. Len(w) |-> (w[j] * 58 + row[Len(w) - j]) % WordBase],
                         c   |-> row[Len(w)]]
    BY Zenon DEF times58
  <2> HIDE DEF row
  <2> QED
    BY <1>1, <2>1
<1>3. \A k \in 1 .. n, x \in Nat : over(k, x) \in Nat
  <2> TAKE k \in 1 .. n, x \in Nat
  <2>1. n - k + 1 \in 1 .. n
    OBVIOUS
  <2>2. w[n - k + 1] \in Nat
    BY <2>1
  <2>3. PICK t \in Nat : t = w[n - k + 1] * 58 + x
    BY <2>2
  <2> QED
    BY <1>1, <2>3, Divides
<1> HIDE DEF over
<1>4. step \in [(1 .. n) \X Nat -> Nat]
  BY <1>3
<1>5. PICK g \in [0 .. n -> Nat] : Recursive(g, c, step, n)
  <2> HIDE DEF step
  <2> QED
    BY <1>4, Recursion
<1>6. \A k \in 1 .. n : g[k] = over(k, g[k - 1])
  <2> TAKE k \in 1 .. n
  <2>1. g[k - 1] \in Nat
    OBVIOUS
  <2>2. step[<<k, g[k - 1]>>] = over(k, g[k - 1])
    BY <2>1
  <2> HIDE DEF step
  <2> QED
    BY <1>5, <2>2 DEF Recursive
<1>7. g[0] = c
  BY <1>5 DEF Recursive
<1>8. Is(g)
  BY <1>1, <1>6, <1>7 DEF over
<1>9. Is(row)
  <2> HIDE DEF Is
  <2> QED
    BY <1>8
<1> HIDE DEF row
<1>10. \A k \in 0 .. n : row[k] = IF k = 0 THEN c ELSE over(k, row[k - 1])
  BY <1>1, <1>9 DEF over
<1> DEFINE K == {k \in 0 .. n : row[k] = g[k]}
<1>11. 0 .. n \subseteq K
  <2>1. 0 \in K
    BY <1>7, <1>10
  <2>2. ASSUME NEW k \in 0 .. n, k \in K, k < n PROVE k + 1 \in K
    <3>1. k + 1 \in 1 .. n /\ (k + 1) - 1 = k /\ row[k] = g[k] /\ k + 1 # 0 /\ k + 1 \in 0 .. n
      BY <2>2
    <3>2. row[k + 1] = g[k + 1]
      BY <1>6, <1>10, <3>1
    <3> QED
      BY <3>1, <3>2
  <2> HIDE DEF K
  <2> QED
    BY <2>1, <2>2, SetInduction
<1>12. row = g
  <2>1. \A k \in 0 .. n : row[k] = g[k]
    BY <1>11
  <2>2. row = [k \in 0 .. n |-> row[k]]
    BY <1>1, <1>9
  <2> QED
    BY <2>1, <2>2
<1> QED
  BY <1>2, <1>6, <1>7, <1>12 DEF over, Carries

(* The number 58 times as large, and c more: t.c runs over, p is the power. *)
Rounded(t, w, c, n, p) ==
  /\ InBase(t.out, n, WordBase)
  /\ \E C \in Nat : /\ t.c = C
                   /\ Number(t.out, WordBase) + C * p = 58 * Number(w, WordBase) + c

(* times58 computes that. *)
LEMMA RoundNumber ==
  ASSUME NEW n \in Nat, NEW w, InBase(w, n, WordBase), NEW c \in Nat,
         NEW P \in [0 .. n -> Nat], Powers(P, WordBase, n)
  PROVE  Rounded(times58(w, c), w, c, n, P[n])
<1>1. PICK B \in Nat : B = WordBase /\ B > 0
  BY SMT, WordSize
<1>2. w \in [1 .. n -> Nat]
  BY DEF InBase
<1>3. PICK o \in [0 .. n -> Nat] : Carries(o, w, c, n)
  BY <1>2, CarryRow
<1>4. PICK out : out = times58(w, c).out
  OBVIOUS
<1>5. ASSUME NEW j \in 1 .. n
      PROVE  /\ out[j] \in Nat /\ out[j] < B /\ n - j \in 0 .. n /\ n - j + 1 \in 0 .. n
             /\ B * o[n - j + 1] + out[j] = 58 * w[j] + o[n - j]
  <2>1. n - j \in 0 .. n /\ n - j + 1 \in 1 .. n /\ n - (n - j + 1) + 1 = j /\ (n - j + 1) - 1 = n - j
    OBVIOUS
  <2>2. PICK t \in Nat : t = w[j] * 58 + o[n - j]
    BY SMTT(60), <1>2, <2>1
  <2>3. o[n - j + 1] = t \div B
    BY <1>1, <1>3, <2>1, <2>2 DEF Carries
  <2>4. out[j] = t % B
    BY <1>1, <1>3, <1>4, <2>2 DEF Carries
  <2>5. t = B * (t \div B) + (t % B) /\ t % B \in 0 .. B - 1
    BY <1>1, Divides
  <2>6. PICK d \in Nat, e \in Nat : d = t \div B /\ e = t % B /\ e < B
    BY SMTT(60), <1>1, <2>5, Divides
  <2>7. t = B * d + e
    BY <2>5, <2>6
  <2>8. out[j] \in Nat /\ out[j] < B
    BY <2>4, <2>6
  <2>9. PICK x \in Nat, z \in Nat : x = w[j] /\ z = o[n - j]
    BY <1>2, <2>1
  <2>10. B * d + e = 58 * x + z
    <3>1. t = x * 58 + z
      BY <2>2, <2>9
    <3>2. PICK m \in Nat : m = B * d
      BY <1>1
    <3>3. t = m + e
      BY <2>7, <3>2
    <3> QED
      BY <3>1, <3>2, <3>3
  <2>11. B * o[n - j + 1] + out[j] = 58 * w[j] + o[n - j]
    BY <2>3, <2>4, <2>6, <2>9, <2>10
  <2> QED
    BY SMTT(60), <2>1, <2>8, <2>11
<1>6. out = [j \in 1 .. n |-> out[j]]
  BY <1>3, <1>4 DEF Carries
<1>7. out \in [1 .. n -> Nat]
  BY <1>5, <1>6
<1>8. InBase(out, n, B)
  BY <1>5, <1>7 DEF InBase
<1>9. PICK vw \in [0 .. n -> Nat] : Counts(vw, w, B, n) /\ Number(w, B) = vw[n]
  BY <1>1, <1>2, NumberRow
<1>10. PICK vo \in [0 .. n -> Nat] : Counts(vo, out, B, n) /\ Number(out, B) = vo[n]
  BY <1>1, <1>7, NumberRow
<1>11. PICK C \in Nat : C = o[n]
  OBVIOUS
<1> DEFINE K == {j \in 0 .. n : vo[j] + C * P[j] = 58 * vw[j] + o[n - j]}
<1>12. 0 \in K
  <2>1. vo[0] = 0 /\ vw[0] = 0 /\ P[0] = 1 /\ o[n - 0] = C
    <3>1. n - 0 = n
      OBVIOUS
    <3> QED
      BY <1>9, <1>10, <1>11, <3>1 DEF Counts, Powers
  <2>2. 0 \in 0 .. n
    OBVIOUS
  <2> QED
    BY <2>1, <2>2
<1>13. ASSUME NEW j \in 0 .. n, j \in K, j < n PROVE j + 1 \in K
  <2>1. j + 1 \in 1 .. n /\ (j + 1) - 1 = j /\ n - (j + 1) + 1 = n - j /\ j + 1 \in 0 .. n
        /\ n - j \in 0 .. n /\ n - (j + 1) \in 0 .. n
    BY <1>13
  <2>2. /\ vo[j + 1] = vo[j] * B + out[j + 1] /\ vw[j + 1] = vw[j] * B + w[j + 1]
        /\ P[j + 1] = B * P[j]
    BY <1>1, <1>9, <1>10, <2>1 DEF Counts, Powers
  <2>3. B * o[n - j] + out[j + 1] = 58 * w[j + 1] + o[n - (j + 1)]
    BY <1>5, <2>1
  <2>4. vo[j] + C * P[j] = 58 * vw[j] + o[n - j]
    BY <1>13
  <2>5. PICK a \in Nat, p \in Nat, u \in Nat : a = vo[j] /\ p = P[j] /\ u = vw[j]
    OBVIOUS
  <2>6. PICK x \in Nat, y \in Nat : x = w[j + 1] /\ y = out[j + 1]
    BY <1>2, <1>7, <2>1
  <2>7. PICK r \in Nat, z \in Nat : r = o[n - j] /\ z = o[n - (j + 1)]
    BY <2>1
  <2>8. Carried(C, a, p, u, r) /\ Divided(B, r, y, x, z)
    BY <2>3, <2>4, <2>5, <2>6, <2>7 DEF Carried, Divided
  <2>9. Carried(C, Then(a, y, B), B * p, Then(u, x, B), z)
    BY <2>8, CarryOn
  <2>10. Then(a, y, B) + C * (B * p) = 58 * Then(u, x, B) + z
    BY <2>9 DEF Carried
  <2>11. vo[j + 1] = Then(a, y, B) /\ vw[j + 1] = Then(u, x, B) /\ P[j + 1] = B * p
    BY <2>2, <2>5, <2>6 DEF Then
  <2>12. vo[j + 1] + C * P[j + 1] = 58 * vw[j + 1] + o[n - (j + 1)]
    BY <2>7, <2>10, <2>11
  <2> QED
    BY <2>1, <2>12
<1>14. 0 .. n \subseteq K
  <2> HIDE DEF K
  <2> QED
    BY <1>12, <1>13, SetInduction
<1>15. vo[n] + C * P[n] = 58 * vw[n] + c
  <2>1. n \in 0 .. n /\ n - n = 0
    OBVIOUS
  <2>2. n \in K
    BY <1>14, <2>1
  <2> QED
    BY <1>3, <2>1, <2>2 DEF Carries
<1>16. times58(w, c).c = C
  BY <1>3, <1>11 DEF Carries
<1>17. Number(out, WordBase) + C * P[n] = 58 * Number(w, WordBase) + c
  BY <1>1, <1>9, <1>10, <1>15
<1> QED
  BY <1>1, <1>4, <1>8, <1>16, <1>17 DEF Rounded

(* The words that b58dec works with. *)
OutWords == (AddrSize + WordBytes - 1) \div WordBytes

(* They are bytes, and up to three more. *)
LEMMA WordCount ==
  \/ WordBytes = 1 /\ OutWords = 25 /\ AddrSize % WordBytes = 0
  \/ WordBytes = 2 /\ OutWords = 13 /\ AddrSize % WordBytes = 1
  \/ WordBytes = 4 /\ OutWords = 7 /\ AddrSize % WordBytes = 1
<1>1. CASE WordBytes = 1
  BY <1>1 DEF OutWords, AddrSize
<1>2. CASE WordBytes = 2
  BY <1>2 DEF OutWords, AddrSize
<1>3. CASE WordBytes = 4
  BY <1>3 DEF OutWords, AddrSize
<1> QED
  BY <1>1, <1>2, <1>3, WordBytesAssumption

(* One power of the word's base is WordBytes powers of 256. *)
Aligned(P, q, n, m) == \A i \in 0 .. n : i * WordBytes \in 0 .. m /\ P[i] = q[i * WordBytes]

(* So it is, whatever the size of a word. *)
LEMMA WordPower ==
  ASSUME NEW m \in Nat, NEW n \in Nat, n * WordBytes <= m,
         NEW q \in [0 .. m -> Nat], Powers(q, 256, m),
         NEW P \in [0 .. n -> Nat], Powers(P, WordBase, n)
  PROVE  Aligned(P, q, n, m)
<1> DEFINE K == {i \in 0 .. n : i * WordBytes \in 0 .. m /\ P[i] = q[i * WordBytes]}
<1>1. WordBytes \in 1 .. 4
  BY SMT, WordSize
<1>2. 0 \in K
  <2>1. 0 * WordBytes = 0
    BY <1>1
  <2> QED
    BY <2>1 DEF Powers
<1>3. ASSUME NEW i \in 0 .. n, i \in K, i < n PROVE i + 1 \in K
  <2>1. i + 1 \in 1 .. n /\ (i + 1) - 1 = i
    BY <1>3
  <2>2. P[i + 1] = WordBase * P[i] /\ P[i] = q[i * WordBytes] /\ i * WordBytes \in 0 .. m
    BY <1>3, <2>1 DEF Powers
  <2>3. (i + 1) * WordBytes \in 0 .. m
    BY SMT, <1>1, <1>3, WordSize
  <2>4. \A j \in 1 .. m : q[j] = 256 * q[j - 1]
    BY DEF Powers
  <2>5. PICK x \in Nat : x = P[i]
    OBVIOUS
  <2>6. P[i + 1] = q[(i + 1) * WordBytes]
    <3>1. CASE WordBytes = 1 /\ WordBase = 256
      <4>1. i * WordBytes = i /\ (i + 1) * WordBytes = i + 1 /\ i + 1 \in 1 .. m
        BY <2>3, <3>1
      <4> QED
        BY <2>1, <2>2, <2>4, <3>1, <4>1
    <3>2. CASE WordBytes = 2 /\ WordBase = 65536
      <4>1. PICK j \in Nat : j = i * WordBytes /\ (i + 1) * WordBytes = j + 2
        BY SMT, <3>2
      <4>2. j + 2 <= m
        <5>1. PICK l \in Nat : l = (i + 1) * WordBytes /\ l <= m
          BY SMT, <2>3
        <5> QED
          BY SMT, <4>1, <5>1
      <4>3. j + 1 \in 1 .. m /\ j + 2 \in 1 .. m /\ (j + 1) - 1 = j /\ (j + 2) - 1 = j + 1
        BY SMT, <4>2
      <4>4. q[j + 1] = 256 * q[j] /\ q[j + 2] = 256 * q[j + 1]
        BY SMT, <2>4, <4>3
      <4>5. q[j + 2] = 65536 * x
        BY SMT, <2>2, <2>5, <4>1, <4>4
      <4> QED
        BY SMT, <2>2, <2>5, <3>2, <4>1, <4>5
    <3>3. CASE WordBytes = 4 /\ WordBase = 4294967296
      <4>1. PICK j \in Nat : j = i * WordBytes /\ (i + 1) * WordBytes = j + 4
        BY SMT, <3>3
      <4>2. j + 4 <= m
        <5>1. PICK l \in Nat : l = (i + 1) * WordBytes /\ l <= m
          BY SMT, <2>3
        <5> QED
          BY SMT, <4>1, <5>1
      <4>3. /\ j + 1 \in 1 .. m /\ j + 2 \in 1 .. m /\ (j + 1) - 1 = j /\ (j + 2) - 1 = j + 1
            /\ j + 3 \in 1 .. m /\ j + 4 \in 1 .. m /\ (j + 3) - 1 = j + 2 /\ (j + 4) - 1 = j + 3
        BY SMT, <4>2
      <4>4. /\ q[j + 1] = 256 * q[j] /\ q[j + 2] = 256 * q[j + 1]
            /\ q[j + 3] = 256 * q[j + 2] /\ q[j + 4] = 256 * q[j + 3]
        BY SMT, <2>4, <4>3
      <4>5. q[j + 1] = 256 * x /\ q[j + 2] = 65536 * x
        BY SMT, <2>2, <2>5, <4>1, <4>4
      <4>6. q[j + 3] = 16777216 * x
        BY SMT, <4>4, <4>5
      <4>7. q[j + 4] = 4294967296 * x
        BY SMT, <4>4, <4>6
      <4> QED
        BY SMT, <2>2, <2>5, <3>3, <4>1, <4>7
    <3> QED
      BY SMT, <3>1, <3>2, <3>3, WordSize
  <2> QED
    BY <2>1, <2>3, <2>6
<1>4. 0 .. n \subseteq K
  <2> HIDE DEF K
  <2> QED
    BY <1>2, <1>3, SetInduction
<1> QED
  BY <1>4 DEF Aligned

(* The words of a number of AddrSize bytes: the first one is not full. *)
Fits(w) == AddrSize % WordBytes # 0 => w[1] < 256

(* The number below which numbers have AddrSize bytes. *)
Limit(n) ==
  \E m \in Nat : AddrSize + 3 <= m /\ \E q \in [0 .. m -> Nat] : Powers(q, 256, m) /\ n = q[AddrSize]

(* It is no larger than what the words hold, and the same when the first    *)
(* one is not full.                                                         *)
LEMMA LimitIs ==
  ASSUME NEW n, Limit(n), NEW k \in Nat, k = OutWords,
         NEW P \in [0 .. k -> Nat], Powers(P, WordBase, k)
  PROVE  /\ n \in Nat /\ n <= P[k] /\ k > 0
         /\ AddrSize % WordBytes # 0 => n <= 256 * P[k - 1]
<1>1. PICK a \in Nat, b \in Nat : a = AddrSize /\ b = 256 /\ a = 25
  BY DEF AddrSize
<1>2. PICK m \in Nat : /\ AddrSize + 3 <= m
                      /\ \E q \in [0 .. m -> Nat] : Powers(q, 256, m) /\ n = q[AddrSize]
  BY Zenon DEF Limit
<1>3. PICK q \in [0 .. m -> Nat] : a + 3 <= m /\ Powers(q, b, m) /\ n = q[a]
  BY Zenon, <1>1, <1>2
<1>4. \/ WordBytes = 1 /\ k = 25 /\ AddrSize % WordBytes = 0
      \/ WordBytes = 2 /\ k = 13
      \/ WordBytes = 4 /\ k = 7
  BY Zenon, WordCount
<1>5. k * WordBytes <= m
  BY <1>1, <1>3, <1>4
<1>6. \A i \in 0 .. k : i * WordBytes \in 0 .. m /\ P[i] = q[i * WordBytes]
  <2>1. Powers(q, 256, m)
    BY <1>1, <1>3
  <2>2. Aligned(P, q, k, m)
    BY <1>5, <2>1, WordPower
  <2> QED
    BY <2>2 DEF Aligned
<1>7. k \in 0 .. k /\ k - 1 \in 0 .. k
  BY <1>4
<1>8. PICK c \in Nat, d \in Nat, e \in Nat, z \in Nat : c = a + 1 /\ d = c + 1 /\ e = d + 1 /\ a = z + 1
  BY <1>1
<1>9. /\ q[z] \in Nat /\ q[a] = b * q[z]
      /\ q[a] \in Nat /\ q[a] <= q[c]
      /\ q[c] \in Nat /\ q[c] <= q[d]
      /\ q[d] \in Nat /\ q[d] <= q[e]
      /\ q[e] \in Nat
  <2>1. b > 0
    BY <1>1
  <2>2. a <= m /\ c <= m /\ d <= m /\ e <= m
    BY <1>3, <1>8
  <2>3. GrowsBy(q, b, z, a) /\ GrowsBy(q, b, a, c) /\ GrowsBy(q, b, c, d) /\ GrowsBy(q, b, d, e)
    BY <1>3, <1>8, <2>1, <2>2, PowersGrow
  <2>4. q[e] \in Nat
    BY <2>2
  <2> QED
    BY <2>3, <2>4 DEF GrowsBy
<1>10. PICK qa \in Nat, qc \in Nat, qd \in Nat, qe \in Nat :
        qa = q[a] /\ qc = q[c] /\ qd = q[d] /\ qe = q[e]
  BY <1>9
<1>11. qa <= qc /\ qa <= qe
  <2>1. qa <= qc /\ qc <= qd /\ qd <= qe
    BY <1>9, <1>10
  <2> QED
    BY <2>1
<1>12. k * WordBytes = a \/ k * WordBytes = c \/ k * WordBytes = e
  BY <1>1, <1>4, <1>8
<1>13. P[k] = qa \/ P[k] = qc \/ P[k] = qe
  BY <1>6, <1>7, <1>10, <1>12
<1>14. n <= P[k] /\ n \in Nat
  <2>1. n = qa
    BY <1>3, <1>10
  <2>2. CASE P[k] = qa
    BY <2>1, <2>2
  <2>3. CASE P[k] = qc
    BY <1>11, <2>1, <2>3
  <2>4. CASE P[k] = qe
    BY <1>11, <2>1, <2>4
  <2> QED
    BY <1>13, <2>2, <2>3, <2>4
<1>15. ASSUME AddrSize % WordBytes # 0 PROVE n <= 256 * P[k - 1]
  <2>1. \/ WordBytes = 2 /\ k = 13
        \/ WordBytes = 4 /\ k = 7
    BY Zenon, <1>4, <1>15
  <2>2. (k - 1) * WordBytes = z
    BY <1>1, <1>8, <2>1
  <2>3. P[k - 1] = q[z]
    BY <1>6, <1>7, <2>2
  <2>4. PICK x \in Nat : x = q[z]
    BY <1>9
  <2>5. n = 256 * x
    BY <1>1, <1>3, <1>9, <2>4
  <2> QED
    BY <2>3, <2>4, <2>5
<1>16. k > 0
  BY <1>4
<1> QED
  BY <1>14, <1>15, <1>16

(* The bytes of a word, behind the number m. *)
WordSpells(f, m, x) ==
  /\ \A k \in 1 .. WordBytes : WordToBytes(x)[k] \in 0 .. 255
  /\ /\ f[0] = m
     /\ \A k \in 1 .. WordBytes : f[k] = f[k - 1] * 256 + WordToBytes(x)[k]
     => f[WordBytes] = Then(m, x, WordBase)

(* The bytes of a word spell the word. *)
LEMMA WordSpelled ==
  ASSUME NEW x \in Nat, x < WordBase, NEW m \in Nat, NEW f
  PROVE  WordSpells(f, m, x)
<1> DEFINE Counted == /\ f[0] = m
                      /\ \A k \in 1 .. WordBytes : f[k] = f[k - 1] * 256 + WordToBytes(x)[k]
<1>1. CASE WordBytes = 1 /\ WordBase = 256
  <2>1. WordToBytes(x)[1] = x
    BY <1>1 DEF WordToBytes
  <2>2. ASSUME Counted PROVE f[WordBytes] = Then(m, x, WordBase)
    BY <1>1, <2>1, <2>2 DEF Then
  <2>3. \A k \in 1 .. WordBytes : WordToBytes(x)[k] \in 0 .. 255
    BY <1>1, <2>1
  <2> QED
    BY <2>2, <2>3 DEF WordSpells
<1>2. CASE WordBytes = 2 /\ WordBase = 65536
  <2>1. WordToBytes(x)[1] = (x \div 256) % 256 /\ WordToBytes(x)[2] = x % 256
    BY SMT, <1>2 DEF WordToBytes
  <2>2. (x \div 256) % 256 \in 0 .. 255 /\ x % 256 \in 0 .. 255
    OBVIOUS
  <2>3. x = 256 * ((x \div 256) % 256) + (x % 256)
    BY SMT, <1>2, TwoBytes
  <2>4. PICK a \in 0 .. 255 : a = (x \div 256) % 256
    BY SMT, <2>2
  <2>5. PICK b \in 0 .. 255 : b = x % 256
    BY SMT, <2>2
  <2>6. x = 256 * a + b
    BY SMT, <2>3, <2>4, <2>5
  <2>7. ASSUME Counted PROVE f[WordBytes] = Then(m, x, WordBase)
    <3>1. f[0] = m /\ f[1] = f[0] * 256 + a /\ f[2] = f[1] * 256 + b
      <4>1. \A k \in 1 .. 2 : f[k] = f[k - 1] * 256 + WordToBytes(x)[k]
        BY SMT, <1>2, <2>7
      <4> QED
        BY SMT, <2>1, <2>4, <2>5, <2>7, <4>1
    <3>2. f[1] = m * 256 + a
      BY SMT, <3>1
    <3>3. f[2] = m * 65536 + x
      BY SMT, <2>6, <3>1, <3>2
    <3> QED
      BY SMT, <1>2, <3>3 DEF Then
  <2>8. \A k \in 1 .. WordBytes : WordToBytes(x)[k] \in 0 .. 255
    BY SMT, <1>2, <2>1, <2>2
  <2> QED
    BY SMT, <2>7, <2>8 DEF WordSpells
<1>3. CASE WordBytes = 4 /\ WordBase = 4294967296
  <2>1. /\ WordToBytes(x)[1] = (x \div 16777216) % 256 /\ WordToBytes(x)[2] = (x \div 65536) % 256
        /\ WordToBytes(x)[3] = (x \div 256) % 256 /\ WordToBytes(x)[4] = x % 256
    BY SMT, <1>3 DEF WordToBytes
  <2>2. /\ (x \div 16777216) % 256 \in 0 .. 255 /\ (x \div 65536) % 256 \in 0 .. 255
        /\ (x \div 256) % 256 \in 0 .. 255 /\ x % 256 \in 0 .. 255
    BY SMT
  <2>3. x = 16777216 * ((x \div 16777216) % 256) + 65536 * ((x \div 65536) % 256)
             + 256 * ((x \div 256) % 256) + (x % 256)
    BY SMT, <1>3, FourBytes
  <2>4. PICK a \in 0 .. 255 : a = (x \div 16777216) % 256
    BY SMT, <2>2
  <2>5. PICK b \in 0 .. 255 : b = (x \div 65536) % 256
    BY SMT, <2>2
  <2>6. PICK c \in 0 .. 255 : c = (x \div 256) % 256
    BY SMT, <2>2
  <2>7. PICK d \in 0 .. 255 : d = x % 256
    BY SMT, <2>2
  <2>8. x = 16777216 * a + 65536 * b + 256 * c + d
    BY SMT, <2>3, <2>4, <2>5, <2>6, <2>7
  <2>9. ASSUME Counted PROVE f[WordBytes] = Then(m, x, WordBase)
    <3>1. /\ f[0] = m /\ f[1] = f[0] * 256 + a /\ f[2] = f[1] * 256 + b
          /\ f[3] = f[2] * 256 + c /\ f[4] = f[3] * 256 + d
      <4>1. \A k \in 1 .. 4 : f[k] = f[k - 1] * 256 + WordToBytes(x)[k]
        BY SMT, <1>3, <2>9
      <4> QED
        BY SMT, <2>1, <2>4, <2>5, <2>6, <2>7, <2>9, <4>1
    <3>2. f[1] = m * 256 + a
      BY SMT, <3>1
    <3>3. f[2] = m * 65536 + 256 * a + b
      BY SMT, <3>1, <3>2
    <3>4. f[3] = m * 16777216 + 65536 * a + 256 * b + c
      BY SMT, <3>1, <3>3
    <3>5. f[4] = m * 4294967296 + x
      BY SMT, <2>8, <3>1, <3>4
    <3> QED
      BY SMT, <1>3, <3>5 DEF Then
  <2>10. \A k \in 1 .. WordBytes : WordToBytes(x)[k] \in 0 .. 255
    <3>1. \A k \in 1 .. WordBytes : k = 1 \/ k = 2 \/ k = 3 \/ k = 4
      BY SMT, <1>3
    <3>2. /\ WordToBytes(x)[1] \in 0 .. 255 /\ WordToBytes(x)[2] \in 0 .. 255
          /\ WordToBytes(x)[3] \in 0 .. 255 /\ WordToBytes(x)[4] \in 0 .. 255
      BY SMT, <2>1, <2>2
    <3> QED
      BY SMT, <3>1, <3>2
  <2> QED
    BY SMT, <2>9, <2>10 DEF WordSpells
<1> QED
  BY SMT, <1>1, <1>2, <1>3, WordSize

(* The place of a byte in the words and the other way round. *)
LEMMA ByteIndex ==
  ASSUME NEW i \in Nat, NEW k \in 1 .. WordBytes
  PROVE  /\ i * WordBytes \in Nat /\ WordBytes \in Nat
         /\ (i * WordBytes + k - 1) \div WordBytes = i
         /\ (i * WordBytes + k - 1) % WordBytes = k - 1
<1>1. CASE WordBytes = 1
  BY <1>1
<1>2. CASE WordBytes = 2
  BY <1>2
<1>3. CASE WordBytes = 4
  BY <1>3
<1> QED
  BY <1>1, <1>2, <1>3, WordBytesAssumption

(* Every byte belongs to a word. *)
LEMMA WordIndex ==
  ASSUME NEW n \in Nat, NEW j \in 1 .. n * WordBytes
  PROVE  \E i \in 1 .. n, k \in 1 .. WordBytes :
           /\ (j - 1) \div WordBytes + 1 = i
           /\ ((j - 1) % WordBytes) + 1 = k
<1>1. WordBytes \in 1 .. 4
  BY WordBytesAssumption
<1>2. (j - 1) \div WordBytes + 1 \in 1 .. n /\ ((j - 1) % WordBytes) + 1 \in 1 .. WordBytes
  <2>1. CASE WordBytes = 1
    BY <2>1
  <2>2. CASE WordBytes = 2
    BY <2>2
  <2>3. CASE WordBytes = 4
    BY <2>3
  <2> QED
    BY <2>1, <2>2, <2>3, WordBytesAssumption
<1> QED
  BY Zenon, <1>2

(* The bytes of words, one behind the other. *)
ByteAt(w, p) == WordToBytes(w[p \div WordBytes + 1])[(p % WordBytes) + 1]
AllBytes(w, n) == [j \in 1 .. n * WordBytes |-> ByteAt(w, j - 1)]

(* Where the bytes of a word are. *)
LEMMA BytesAt ==
  ASSUME NEW n \in Nat, NEW w, NEW i \in Nat, i < n, NEW k \in 1 .. WordBytes
  PROVE  /\ i * WordBytes + k \in 1 .. n * WordBytes
         /\ AllBytes(w, n)[i * WordBytes + k] = WordToBytes(w[i + 1])[k]
<1>1. i * WordBytes + k \in 1 .. n * WordBytes
  <2>1. CASE WordBytes = 1
    BY <2>1
  <2>2. CASE WordBytes = 2
    BY <2>2
  <2>3. CASE WordBytes = 4
    BY <2>3
  <2> QED
    BY <2>1, <2>2, <2>3, WordBytesAssumption
<1>2. PICK j \in 1 .. n * WordBytes : j = i * WordBytes + k
  BY <1>1
<1>3. AllBytes(w, n)[j] = ByteAt(w, j - 1)
  BY DEF AllBytes
<1>4. j - 1 = i * WordBytes + k - 1
  <2>1. PICK p \in Nat : p = i * WordBytes
    BY ByteIndex
  <2>2. j = p + k
    BY <1>2, <2>1
  <2> QED
    BY <2>1, <2>2
<1>5. (j - 1) \div WordBytes = i /\ (j - 1) % WordBytes = k - 1
  BY <1>4, ByteIndex
<1>6. (k - 1) + 1 = k
  OBVIOUS
<1>7. ByteAt(w, j - 1) = WordToBytes(w[i + 1])[k]
  BY Zenon, <1>5, <1>6 DEF ByteAt
<1> QED
  BY <1>1, <1>2, <1>3, <1>7

(* The bytes of words spell the same number as the words. *)
LEMMA BytesNumber ==
  ASSUME NEW n \in Nat, NEW w, InBase(w, n, WordBase)
  PROVE  /\ InBase(AllBytes(w, n), n * WordBytes, 256)
         /\ Number(AllBytes(w, n), 256) = Number(w, WordBase)
<1>1. PICK W \in Nat, B \in Nat, l \in Nat :
        W = WordBytes /\ B = WordBase /\ l = n * W /\ W \in 1 .. 4
  <2>1. WordBytes \in 1 .. 4 /\ WordBase \in Nat
    BY SMT, WordSize
  <2>2. n * WordBytes \in Nat
    BY <2>1
  <2> QED
    BY <2>1, <2>2
<1>2. w \in [1 .. n -> Nat] /\ \A i \in 1 .. n : w[i] < WordBase
  BY DEF InBase
<1>3. PICK s : s = AllBytes(w, n)
  OBVIOUS
<1>4. ASSUME NEW i \in 1 .. n, NEW k \in 1 .. WordBytes PROVE WordToBytes(w[i])[k] \in 0 .. 255
  <2>1. PICK x \in Nat : x = w[i] /\ x < WordBase
    BY <1>2
  <2>2. WordSpells(w, 0, x)
    BY <2>1, WordSpelled
  <2> QED
    BY <2>1, <2>2 DEF WordSpells
<1>5. s = [j \in 1 .. l |-> s[j]]
  BY <1>1, <1>3 DEF AllBytes
<1>6. ASSUME NEW j \in 1 .. l PROVE s[j] \in Nat /\ s[j] < 256
  <2>1. PICK i \in 1 .. n, k \in 1 .. WordBytes :
           (j - 1) \div WordBytes + 1 = i /\ ((j - 1) % WordBytes) + 1 = k
    BY Zenon, <1>1, WordIndex
  <2>2. s[j] = WordToBytes(w[i])[k]
    <3>1. s[j] = ByteAt(w, j - 1)
      BY <1>1, <1>3 DEF AllBytes
    <3>2. ByteAt(w, j - 1) = WordToBytes(w[i])[k]
      BY Zenon, <2>1 DEF ByteAt
    <3> QED
      BY <3>1, <3>2
  <2>3. WordToBytes(w[i])[k] \in 0 .. 255
    BY <1>4
  <2> QED
    BY <2>2, <2>3
<1>7. s \in [1 .. l -> Nat]
  BY <1>5, <1>6
<1>8. InBase(s, l, 256)
  BY <1>6, <1>7 DEF InBase
<1>9. PICK v \in [0 .. n -> Nat] : Counts(v, w, B, n) /\ Number(w, B) = v[n]
  BY <1>2, NumberRow
<1>10. PICK h \in Nat : h = 256
  OBVIOUS
<1>11. PICK u \in [0 .. l -> Nat] : Counts(u, s, h, l) /\ Number(s, h) = u[l]
  BY <1>7, NumberRow
<1> DEFINE K == {i \in 0 .. n : i * W \in 0 .. l /\ u[i * W] = v[i]}
<1>12. 0 \in K
  <2>1. 0 * W = 0
    OBVIOUS
  <2> QED
    BY <1>9, <1>11, <2>1 DEF Counts
<1>13. ASSUME NEW i \in 0 .. n, i \in K, i < n PROVE i + 1 \in K
  <2>1. i + 1 \in 1 .. n /\ (i + 1) - 1 = i
    BY <1>13
  <2>2. PICK p \in Nat : p = i * W
    OBVIOUS
  <2>3. (i + 1) * W = p + W
    BY <2>2
  <2>4. ASSUME NEW k \in 1 .. W
        PROVE  p + k \in 1 .. l /\ s[p + k] = WordToBytes(w[i + 1])[k]
    <3>1. k \in 1 .. WordBytes
      BY Zenon, <1>1
    <3>2. n \in Nat /\ i \in Nat /\ i < n
      BY <1>13
    <3>3. /\ i * WordBytes + k \in 1 .. n * WordBytes
          /\ AllBytes(w, n)[i * WordBytes + k] = WordToBytes(w[i + 1])[k]
      BY SMT, <3>1, <3>2, BytesAt
    <3> QED
      BY Zenon, <1>1, <1>3, <2>2, <3>3
  <2>5. p + W \in 1 .. l
    <3>1. W \in 1 .. W
      BY <1>1
    <3> QED
      BY Zenon, <2>4, <3>1
  <2> DEFINE f == [k \in 0 .. W |-> u[p + k]]
  <2>6. PICK x \in Nat : x = w[i + 1] /\ x < WordBase
    BY <1>2, <2>1
  <2>7. ASSUME NEW k \in 1 .. W PROVE f[k] = f[k - 1] * 256 + WordToBytes(x)[k]
    <3> HIDE DEF f, K
    <3>1. p + k \in 1 .. l
      BY <2>4
    <3>2. (p + k) - 1 = p + (k - 1) /\ k - 1 \in 0 .. W /\ k \in 0 .. W
      OBVIOUS
    <3>3. p + k \in 1 .. l /\ (p + k) - 1 = p + (k - 1) /\ k - 1 \in 0 .. W /\ k \in 0 .. W
      BY Zenon, <3>1, <3>2
    <3>4. u[p + k] = u[p + (k - 1)] * h + s[p + k]
      BY <1>11, <3>3 DEF Counts
    <3>5. f[k] = u[p + k] /\ f[k - 1] = u[p + (k - 1)]
      BY <3>3 DEF f
    <3>6. s[p + k] = WordToBytes(x)[k]
      BY <2>4, <2>6
    <3> QED
      BY <1>10, <3>4, <3>5, <3>6
  <2>8. f[0] = v[i] /\ f[W] = u[p + W]
    <3>1. p + 0 = p /\ 0 \in 0 .. W /\ W \in 0 .. W
      OBVIOUS
    <3>2. f[0] = u[p] /\ f[W] = u[p + W]
      BY <3>1
    <3>3. u[p] = v[i]
      BY <1>13, <2>2
    <3> QED
      BY <3>2, <3>3
  <2> HIDE DEF f
  <2>9. PICK m \in Nat : m = v[i]
    OBVIOUS
  <2>10. WordSpells(f, m, x)
    BY <2>6, WordSpelled
  <2>11. f[W] = Then(m, x, WordBase)
    <3>1. \A k \in 1 .. WordBytes : f[k] = f[k - 1] * 256 + WordToBytes(x)[k]
      BY <1>1, <2>7
    <3>2. f[WordBytes] = Then(m, x, WordBase)
      BY Zenon, <2>8, <2>9, <2>10, <3>1 DEF WordSpells
    <3> QED
      BY <1>1, <3>2
  <2>12. v[i + 1] = Then(m, x, WordBase)
    <3>1. v[i + 1] = v[i] * B + w[i + 1]
      BY <1>9, <2>1 DEF Counts
    <3> QED
      BY <1>1, <2>6, <2>9, <3>1 DEF Then
  <2>13. u[(i + 1) * W] = v[i + 1]
    BY <2>3, <2>8, <2>11, <2>12
  <2>14. (i + 1) * W \in 0 .. l
    BY <2>3, <2>5
  <2> QED
    BY <2>1, <2>13, <2>14
<1>14. 0 .. n \subseteq K
  <2> HIDE DEF K
  <2> QED
    BY <1>12, <1>13, SetInduction
<1>15. n \in K
  BY <1>14
<1>16. Number(s, h) = Number(w, B)
  BY <1>1, <1>9, <1>11, <1>15
<1> QED
  BY <1>1, <1>3, <1>8, <1>16, <1>10

(* The bytes of the number: the last ones of its words. *)
BytesOf(w) == [k \in 1 .. AddrSize |-> ByteAt(w, OutWords * WordBytes - AddrSize + k - 1)]

(* So do the last AddrSize bytes of words whose first one fits. *)
LEMMA FitBytes ==
  ASSUME NEW w, InBase(w, OutWords, WordBase), Fits(w)
  PROVE  /\ InBase(BytesOf(w), AddrSize, 256)
         /\ Number(BytesOf(w), 256) = Number(w, WordBase)
<1>1. PICK n \in Nat, a \in Nat : n = OutWords /\ a = AddrSize
  <2>1. OutWords \in Nat
    <3>1. 25 \in Nat /\ 13 \in Nat /\ 7 \in Nat
      OBVIOUS
    <3> QED
      BY Zenon, <3>1, WordCount
  <2> QED
    BY <2>1 DEF AddrSize
<1>2. \/ WordBytes = 1 /\ n = 25 /\ a = 25
      \/ WordBytes = 2 /\ n = 13 /\ a = 25 /\ w[1] < 256
      \/ WordBytes = 4 /\ n = 7 /\ a = 25 /\ w[1] < 256
  <2>1. AddrSize % WordBytes = 1 => w[1] < 256
    <3>1. 1 # 0
      OBVIOUS
    <3> QED
      BY Zenon, <3>1 DEF Fits
  <2> QED
    BY Zenon, <1>1, <2>1, WordCount DEF AddrSize
<1>3. PICK l \in Nat, z \in Nat : l = n * WordBytes /\ l = z + a /\ z \in {0, 1, 3}
  <2>1. n * WordBytes \in {25, 26, 28}
    BY <1>2
  <2>2. n * WordBytes - a \in {0, 1, 3}
    BY <1>2
  <2> QED
    BY <1>2, <2>1, <2>2
<1>4. PICK s : s = AllBytes(w, n)
  OBVIOUS
<1>5. InBase(s, l, 256) /\ Number(s, 256) = Number(w, WordBase)
  BY <1>1, <1>3, <1>4, BytesNumber
<1>6. PICK t : t = BytesOf(w)
  OBVIOUS
<1>7. ASSUME NEW j \in 1 .. a PROVE z + j \in 1 .. l /\ t[j] = s[z + j]
  <2>1. z + j \in 1 .. l
    BY <1>3
  <2>2. s[z + j] = ByteAt(w, z + j - 1)
    BY <1>3, <1>4, <2>1 DEF AllBytes
  <2>3. t[j] = ByteAt(w, n * WordBytes - a + j - 1)
    BY <1>1, <1>6 DEF BytesOf
  <2>4. n * WordBytes - a + j - 1 = z + j - 1
    BY <1>3
  <2> QED
    BY <2>1, <2>2, <2>3, <2>4
<1>8. s \in [1 .. l -> Nat] /\ \A j \in 1 .. l : s[j] < 256
  BY <1>5 DEF InBase
<1>9. t = [j \in 1 .. a |-> t[j]]
  BY <1>1, <1>6 DEF BytesOf
<1>10. \A j \in 1 .. a : t[j] \in Nat /\ t[j] < 256
  BY <1>7, <1>8
<1>11. t \in [1 .. a -> Nat]
  BY <1>9, <1>10
<1>12. InBase(t, a, 256)
  BY <1>10, <1>11 DEF InBase
<1>13. \A j \in 1 .. z : s[j] = 0
  <2>1. CASE WordBytes = 1
    <3>1. z = 0
      BY <1>2, <1>3, <2>1
    <3> QED
      BY <3>1
  <2>2. CASE WordBytes = 2
    <3>1. z = 1 /\ 1 \in 1 .. l /\ w[1] < 256
      BY <1>2, <1>3, <2>2
    <3>2. PICK x \in Nat : x = w[1]
      BY <1>1, <1>2 DEF InBase
    <3>3. s[1] = WordToBytes(x)[1]
      <4>1. 0 * WordBytes + 1 = 1 /\ 0 + 1 = 1 /\ 1 \in 1 .. WordBytes /\ 0 < n /\ 0 \in Nat
        BY <1>2, <2>2
      <4>2. PICK i \in Nat : i = 0 /\ i < n
        BY <1>2
      <4>3. PICK k \in 1 .. WordBytes : k = 1
        BY <4>1
      <4>4. AllBytes(w, n)[i * WordBytes + k] = WordToBytes(w[i + 1])[k]
        BY <4>2, BytesAt
      <4>5. i * WordBytes + k = k /\ i + 1 = 1
        BY <4>1, <4>2, <4>3
      <4> QED
        BY <1>4, <3>2, <4>3, <4>4, <4>5
    <3>4. WordToBytes(x)[1] = (x \div 256) % 256
      BY <2>2 DEF WordToBytes
    <3>5. x < 256
      BY <3>1, <3>2
    <3>6. (x \div 256) % 256 = 0
      BY <3>5
    <3> QED
      BY <3>1, <3>3, <3>4, <3>6
  <2>3. CASE WordBytes = 4
    <3>1. z = 3 /\ w[1] < 256
      BY <1>2, <1>3, <2>3
    <3>2. PICK x \in Nat : x = w[1]
      BY <1>1, <1>2 DEF InBase
    <3>3. ASSUME NEW k \in 1 .. 3 PROVE s[k] = WordToBytes(x)[k]
      <4>1. 0 * WordBytes + k = k /\ 0 + 1 = 1 /\ k \in 1 .. WordBytes /\ 0 < n /\ 0 \in Nat
        BY <1>2, <2>3
      <4>2. PICK i \in Nat : i = 0 /\ i < n
        BY <1>2
      <4>3. AllBytes(w, n)[i * WordBytes + k] = WordToBytes(w[i + 1])[k]
        <5>1. k \in 1 .. WordBytes
          BY <4>1
        <5> QED
          BY <4>2, <5>1, BytesAt
      <4>4. i * WordBytes + k = k /\ i + 1 = 1
        BY <4>1, <4>2
      <4> QED
        BY <1>4, <3>2, <4>3, <4>4
    <3>4. /\ WordToBytes(x)[1] = (x \div 16777216) % 256 /\ WordToBytes(x)[2] = (x \div 65536) % 256
          /\ WordToBytes(x)[3] = (x \div 256) % 256
      BY SMT, <2>3 DEF WordToBytes
    <3>5. x < 256
      BY <3>1, <3>2
    <3>6. (x \div 256) % 256 = 0 /\ (x \div 65536) % 256 = 0 /\ (x \div 16777216) % 256 = 0
      BY SMT, <3>5
    <3>7. s[1] = 0 /\ s[2] = 0 /\ s[3] = 0
      BY SMT, <3>3, <3>4, <3>6
    <3> QED
      BY <3>1, <3>7
  <2> QED
    BY <2>1, <2>2, <2>3, WordBytesAssumption
<1>14. Number(t, 256) = Number(s, 256)
  <2>1. PICK h \in Nat : h = 256
    OBVIOUS
  <2>2. \A j \in 1 .. a : t[j] = s[z + j]
    BY <1>7
  <2>3. Number(t, h) = Number(s, h)
    <3>1. l = z + a
      BY <1>3
    <3>2. s \in [1 .. z + a -> Nat] /\ t \in [1 .. a -> Nat]
      BY <1>8, <1>11, <3>1
    <3>3. Shifted(s, t, z, a)
      BY Zenon, <1>13, <2>2, <3>2 DEF Shifted
    <3> QED
      BY <3>3, LeadingZeros
  <2> QED
    BY <2>1, <2>3
<1> QED
  BY <1>1, <1>5, <1>6, <1>12, <1>14

(* There is such a limit, and numbers of AddrSize bytes are below it. *)
LEMMA LimitExists == \E n : Limit(n)
<1>1. PICK m \in Nat, b \in Nat \ {0} : b = 256 /\ AddrSize + 3 <= m
  BY DEF AddrSize
<1>2. PICK q \in [0 .. m -> Nat] : Powers(q, b, m)
  BY PowerRow
<1>3. Limit(q[AddrSize])
  BY <1>1, <1>2 DEF Limit
<1> QED
  BY <1>3

(* What has AddrSize bytes is below the limit. *)
LEMMA BelowLimit ==
  ASSUME NEW n, Limit(n), NEW s, InBase(s, AddrSize, 256)
  PROVE  Number(s, 256) \in Nat /\ Number(s, 256) < n
<1>1. PICK m \in Nat : /\ AddrSize + 3 <= m
                       /\ \E q \in [0 .. m -> Nat] : Powers(q, 256, m) /\ n = q[AddrSize]
  BY Zenon DEF Limit
<1>2. PICK q \in [0 .. m -> Nat] : Powers(q, 256, m) /\ n = q[AddrSize]
  BY Zenon, <1>1
<1>3. PICK a \in Nat, b \in Nat \ {0} : a = AddrSize /\ b = 256
  BY DEF AddrSize
<1>4. a <= m
  BY <1>1, <1>3
<1>5. InBase(s, a, b) /\ s \in [1 .. a -> Nat] /\ Powers(q, b, m)
  BY <1>2, <1>3 DEF InBase
<1>6. PICK v \in [0 .. a -> Nat] : Counts(v, s, b, a) /\ Number(s, b) = v[a]
  BY <1>5, NumberRow
<1>7. v[a] < q[a] /\ v[a] \in Nat
  <2>1. a \in Nat /\ m \in Nat /\ q \in [0 .. m -> Nat] /\ v \in [0 .. a -> Nat] /\ b \in Nat \ {0}
    OBVIOUS
  <2>2. v[a] < q[a]
    BY Zenon, <1>4, <1>5, <1>6, <2>1, Below
  <2> QED
    BY <2>2
<1> QED
  BY <1>2, <1>3, <1>6, <1>7

(* So words that fit spell a number below the limit. *)
LEMMA FitsBelow ==
  ASSUME NEW n, Limit(n), NEW w, InBase(w, OutWords, WordBase), Fits(w)
  PROVE  Number(w, WordBase) < n
<1>1. InBase(BytesOf(w), AddrSize, 256) /\ Number(BytesOf(w), 256) = Number(w, WordBase)
  BY FitBytes
<1> QED
  BY <1>1, BelowLimit

(* One round of b58dec. *)
NextWords(w, ch) ==
  LET rem == AddrSize % WordBytes
      c == SelectInSeq(b58digits, LAMBDA d : d = ch)
      n == times58(w, c - 1)
  IN  IF w = <<>> \/ c = 0 \/ n.c # 0
         \/ (rem # 0 /\ n.out[1] \div 256 ^ rem # 0)
      THEN <<>> ELSE n.out

(* w holds the number m. *)
Holding(w, m) ==
  w # <<>> /\ InBase(w, OutWords, WordBase) /\ Fits(w) /\ Number(w, WordBase) = m

(* The first word is too large. *)
LEMMA TooLarge ==
  ASSUME NEW x \in Nat
  PROVE  (AddrSize % WordBytes # 0 /\ x \div 256 ^ (AddrSize % WordBytes) # 0)
           <=> ~(AddrSize % WordBytes # 0 => x < 256)
<1>1. CASE AddrSize % WordBytes = 0
  BY <1>1
<1>2. CASE AddrSize % WordBytes = 1
  <2>1. PICK e : e = 256 ^ (AddrSize % WordBytes)
    OBVIOUS
  <2>2. PICK r \in Nat : r = AddrSize % WordBytes /\ r # 0
    BY <1>2
  <2>3. e = 256
    <3>1. 256 ^ 1 = 256
      OBVIOUS
    <3> QED
      BY <1>2, <2>1, <3>1
  <2>4. x \div e # 0 <=> ~(x < 256)
    BY <2>3
  <2> QED
    BY Zenon, <2>1, <2>2, <2>4
<1> QED
  BY Zenon, <1>1, <1>2, WordCount

(* A round makes 58 times the number and the digit of it, or gives up when *)
(* that reaches the limit.                                                  *)
LEMMA NextIs ==
  ASSUME NEW l, Limit(l), NEW w, Holding(w, Number(w, WordBase)), NEW ch, NEW c \in Nat, Place(ch) = c + 1
  PROVE  IF 58 * Number(w, WordBase) + c < l
         THEN Holding(NextWords(w, ch), 58 * Number(w, WordBase) + c)
         ELSE NextWords(w, ch) = <<>>
<1>1. PICK k \in Nat : k = OutWords
  <2>1. 25 \in Nat /\ 13 \in Nat /\ 7 \in Nat
    OBVIOUS
  <2>2. OutWords \in Nat
    BY Zenon, <2>1, WordCount
  <2> QED
    BY <2>2
<1>2. PICK B \in Nat : B = WordBase /\ B > 0
  BY SMT, WordSize
<1>3. PICK P \in [0 .. k -> Nat] : Powers(P, B, k)
  <2>1. B \in Nat \ {0}
    BY <1>2
  <2> QED
    BY Zenon, <2>1, PowerRow
<1>4. /\ l \in Nat /\ l <= P[k] /\ k > 0
      /\ AddrSize % WordBytes # 0 => l <= 256 * P[k - 1]
  BY <1>1, <1>2, <1>3, LimitIs
<1>5. InBase(w, k, B) /\ w # <<>>
  BY <1>1, <1>2 DEF Holding
<1>6. PICK o : o = times58(w, c)
  OBVIOUS
<1>7. InBase(o.out, k, B)
      /\ \E C \in Nat : o.c = C /\ Number(o.out, B) + C * P[k] = 58 * Number(w, B) + c
  <2>1. InBase(w, k, WordBase) /\ Powers(P, WordBase, k)
    BY Zenon, <1>2, <1>3, <1>5
  <2>2. Rounded(times58(w, c), w, c, k, P[k])
    BY <2>1, RoundNumber
  <2> QED
    BY Zenon, <1>2, <1>6, <2>2 DEF Rounded
<1>8. PICK C \in Nat : o.c = C /\ Number(o.out, B) + C * P[k] = 58 * Number(w, B) + c
  BY <1>7
<1>9. PICK u \in Nat : u = o.out[1]
  <2>1. o.out \in [1 .. k -> Nat]
    BY <1>7 DEF InBase
  <2>2. 1 \in 1 .. k
    BY <1>4
  <2> QED
    BY <2>1, <2>2
<1>10. PICK m : m = 58 * Number(w, WordBase) + c
  OBVIOUS
<1>11. NextWords(w, ch) = IF o.c # 0 \/ ~Fits(o.out) THEN <<>> ELSE o.out
  <2>1. PICK x \in Nat : x = o.out[1]
    BY <1>9
  <2>2. c + 1 # 0 /\ (c + 1) - 1 = c
    OBVIOUS
  <2>3. NextWords(w, ch) =
          IF o.c # 0 \/ (AddrSize % WordBytes # 0 /\ x \div 256 ^ (AddrSize % WordBytes) # 0)
          THEN <<>> ELSE o.out
    BY ZenonT(60), <1>5, <1>6, <2>1, <2>2 DEF NextWords, Place
  <2>4. Fits(o.out) <=> (AddrSize % WordBytes # 0 => x < 256)
    BY Zenon, <2>1 DEF Fits
  <2> QED
    BY Zenon, <2>3, <2>4, TooLarge
<1>12. CASE o.c # 0 \/ ~Fits(o.out)
  <2>1. l <= Number(o.out, B) + C * P[k]
    <3>1. CASE o.c # 0
      <4>1. C > 0
        BY <1>8, <3>1
      <4> QED
        BY <1>2, <1>3, <1>4, <1>7, <4>1, Overflows
    <3>2. CASE ~Fits(o.out)
      <4>1. PICK t \in Nat : t = 256
        OBVIOUS
      <4>2. PICK x \in Nat : x = o.out[1]
        BY <1>9
      <4>3. ~(x < 256) /\ AddrSize % WordBytes # 0
        BY Zenon, <3>2, <4>2 DEF Fits
      <4>4. t <= o.out[1]
        BY <4>1, <4>2, <4>3
      <4>5. l <= t * P[k - 1]
        BY Zenon, <1>4, <4>1, <4>3
      <4> QED
        BY <1>2, <1>3, <1>4, <1>7, <4>4, <4>5, Overflows
    <3> QED
      BY <1>12, <3>1, <3>2
  <2>2. l <= m
    BY Zenon, <1>2, <1>8, <1>10, <2>1
  <2>3. m \in Nat
    <3>1. w \in [1 .. k -> Nat]
      BY <1>5 DEF InBase
    <3>2. PICK v \in [0 .. k -> Nat] : Number(w, B) = v[k]
      BY Zenon, <3>1, NumberRow
    <3>3. PICK y \in Nat : y = Number(w, B)
      BY <3>2
    <3> QED
      BY SMTT(60), <1>2, <1>10, <3>3
  <2>4. ~(m < l)
    BY <1>4, <2>2, <2>3
  <2> QED
    BY Zenon, <1>10, <1>11, <1>12, <2>4
<1>13. CASE ~(o.c # 0 \/ ~Fits(o.out))
  <2>1. NextWords(w, ch) = o.out /\ C = 0 /\ Fits(o.out)
    BY Zenon, <1>8, <1>11, <1>13
  <2>2. Number(o.out, B) = m
    <3>1. PICK p \in Nat : p = P[k]
      BY <1>3
    <3>2. o.out \in [1 .. k -> Nat]
      BY <1>7 DEF InBase
    <3>3. PICK v \in [0 .. k -> Nat] : Number(o.out, B) = v[k]
      BY Zenon, <3>2, NumberRow
    <3>4. PICK y \in Nat : y = Number(o.out, B)
      BY <3>3
    <3>5. C * p = 0
      BY <2>1
    <3>6. y + C * p = m
      BY <1>2, <1>8, <1>10, <3>1, <3>4
    <3> QED
      BY <3>4, <3>5, <3>6
  <2>3. Number(o.out, WordBase) < l
    BY <1>1, <1>2, <1>7, <2>1, FitsBelow
  <2>4. o.out # <<>>
    BY <1>4, <1>7 DEF InBase
  <2>5. Holding(o.out, m)
    BY Zenon, <1>1, <1>2, <1>7, <2>1, <2>2, <2>4 DEF Holding
  <2>6. m < l
    BY Zenon, <1>2, <2>2, <2>3
  <2> QED
    BY Zenon, <1>10, <2>1, <2>5, <2>6
<1> QED
  BY <1>12, <1>13

(* What b58dec starts with is the number 0. *)
ZeroWords == [j \in 1 .. OutWords |-> 0]

(* Words of zeros hold 0. *)
LEMMA ZeroHolds ==
  /\ OutWords \in Nat /\ OutWords > 0
  /\ Holding(ZeroWords, 0)
  /\ \A l : Limit(l) => 0 < l
<1>1. PICK k \in Nat : k = OutWords /\ k > 0
  <2>1. 25 \in Nat /\ 13 \in Nat /\ 7 \in Nat /\ 25 > 0 /\ 13 > 0 /\ 7 > 0
    OBVIOUS
  <2>2. OutWords \in Nat /\ OutWords > 0
    BY Zenon, <2>1, WordCount
  <2> QED
    BY <2>2
<1>2. PICK B \in Nat : B = WordBase /\ B > 0
  BY SMT, WordSize
<1>3. PICK w : w = [j \in 1 .. k |-> 0]
  OBVIOUS
<1>4. w \in [1 .. k -> Nat] /\ \A j \in 1 .. k : w[j] = 0
  BY <1>3
<1>5. InBase(w, k, B)
  BY <1>2, <1>4 DEF InBase
<1>6. Counts([j \in 0 .. k |-> 0], w, B, k)
  BY <1>4 DEF Counts
<1>7. Number(w, B) = 0
  BY <1>4, <1>6, NumberIs
<1>8. Fits(w)
  <2>1. 1 \in 1 .. k /\ 0 < 256
    BY <1>1
  <2>2. w[1] < 256
    BY <1>4, <2>1
  <2> QED
    BY <2>2 DEF Fits
<1>9. w # <<>>
  BY <1>1, <1>4
<1>10. w = ZeroWords
  BY <1>1, <1>3 DEF ZeroWords
<1>11. Holding(ZeroWords, 0)
  BY Zenon, <1>1, <1>2, <1>5, <1>7, <1>8, <1>9, <1>10 DEF Holding
<1>12. ASSUME NEW l, Limit(l) PROVE 0 < l
  <2>1. Number(w, WordBase) < l
    BY <1>1, <1>2, <1>5, <1>8, <1>12, FitsBelow
  <2> QED
    BY <1>2, <1>7, <2>1
<1> QED
  BY <1>1, <1>11, <1>12

(* The digit of a character, or any digit for a character that is none. *)
Digit58(ch) == IF Place(ch) = 0 THEN 0 ELSE Place(ch) - 1

(* The digits of the alphabet. *)
LEMMA DigitIs ==
  ASSUME NEW ch
  PROVE  /\ Digit58(ch) \in Nat /\ Digit58(ch) < 58
         /\ Place(ch) # 0 => /\ Place(ch) = Digit58(ch) + 1
                             /\ b58digits[Digit58(ch) + 1] = ch
<1>1. Place(ch) \in 0 .. 58 /\ (Place(ch) # 0 => b58digits[Place(ch)] = ch)
  BY Zenon, PlaceIs
<1>2. PICK p \in 0 .. 58 : p = Place(ch)
  BY <1>1
<1>3. PICK d \in Nat : d = Digit58(ch)
  BY <1>2 DEF Digit58
<1>4. d < 58 /\ (p # 0 => p = d + 1)
  BY <1>2, <1>3 DEF Digit58
<1> QED
  BY <1>1, <1>2, <1>3, <1>4

(* A round, whatever the words and the character. *)
LEMMA NextStep ==
  ASSUME NEW l, Limit(l), NEW w, w = <<>> \/ Holding(w, Number(w, WordBase)), NEW ch
  PROVE  IF w # <<>> /\ Place(ch) # 0 /\ 58 * Number(w, WordBase) + Digit58(ch) < l
         THEN Holding(NextWords(w, ch), 58 * Number(w, WordBase) + Digit58(ch))
         ELSE NextWords(w, ch) = <<>>
<1>1. CASE w = <<>> \/ Place(ch) = 0
  BY Zenon, <1>1 DEF NextWords, Place
<1>2. CASE w # <<>> /\ Place(ch) # 0
  <2>1. PICK c \in Nat : c = Digit58(ch)
    BY DigitIs
  <2>2. Place(ch) = c + 1
    BY Zenon, <1>2, <2>1, DigitIs
  <2>3. Holding(w, Number(w, WordBase))
    BY Zenon, <1>2
  <2>4. IF 58 * Number(w, WordBase) + c < l
        THEN Holding(NextWords(w, ch), 58 * Number(w, WordBase) + c)
        ELSE NextWords(w, ch) = <<>>
    <3>1. c \in Nat
      OBVIOUS
    <3> QED
      BY Zenon, <2>2, <2>3, <3>1, NextIs
  <2> QED
    BY Zenon, <1>2, <2>1, <2>4
<1> QED
  BY Zenon, <1>1, <1>2

(* The rounds of b58dec over a text. *)
Loop58(W, text, n) ==
  W[0] = ZeroWords /\ \A i \in 1 .. n : W[i] = NextWords(W[i - 1], text[i])

(* b58dec goes through such rounds. *)
LEMMA LoopRow ==
  ASSUME NEW text \in Seq(Nat), NEW n \in Nat, n = Len(text)
  PROVE  \E W : /\ Loop58(W, text, n)
                /\ b58dec(AddrSize, text) = IF W[n] = <<>> THEN <<>> ELSE BytesOf(W[n])
<1> DEFINE S == {<<>>} \cup {w \in [1 .. OutWords -> Nat] : Holding(w, Number(w, WordBase))}
           step == [p \in (1 .. n) \X S |-> NextWords(p[2], text[p[1]])]
           Is(g) == g = [i \in 0 .. Len(text) |->
                           IF i = 0 THEN [j \in 1 .. (AddrSize + WordBytes - 1) \div WordBytes |-> 0]
                           ELSE LET outi == g[i - 1]
                                    c == SelectInSeq(b58digits, LAMBDA d : d = text[i])
                                    m == times58(outi, c - 1)
                                IN  IF outi = <<>> \/ c = 0 \/ m.c # 0
                                       \/ (AddrSize % WordBytes # 0
                                             /\ m.out[1] \div 256 ^ (AddrSize % WordBytes) # 0)
                                    THEN <<>> ELSE m.out]
           row == CHOOSE g : Is(g)
<1>1. b58dec(AddrSize, text) =
        IF row[Len(text)] = <<>> THEN <<>> ELSE BytesOf(row[Len(text)])
  BY Zenon DEF b58dec, BytesOf, ByteAt, OutWords
<1>2. \A g : Is(g) <=> g = [i \in 0 .. Len(text) |->
                             IF i = 0 THEN ZeroWords ELSE NextWords(g[i - 1], text[i])]
  BY Zenon DEF ZeroWords, OutWords, NextWords
<1>3. ASSUME NEW w \in S, NEW ch PROVE NextWords(w, ch) \in S
  <2>1. PICK l : Limit(l)
    BY Zenon, LimitExists
  <2>2. w = <<>> \/ Holding(w, Number(w, WordBase))
    BY Zenon
  <2>3. NextWords(w, ch) = <<>> \/ \E m : Holding(NextWords(w, ch), m)
    BY Zenon, <2>1, <2>2, NextStep
  <2>4. ASSUME NEW v, NEW m, Holding(v, m) PROVE v \in S
    BY Zenon, <2>4 DEF Holding, InBase
  <2> QED
    BY Zenon, <2>3, <2>4
<1>4. step \in [(1 .. n) \X S -> S]
  <2>1. \A i \in 1 .. n, w \in S : NextWords(w, text[i]) \in S
    BY Zenon, <1>3
  <2> HIDE DEF S
  <2> QED
    BY <2>1
<1>5. ZeroWords \in S
  <2>1. Holding(ZeroWords, 0)
    BY Zenon, ZeroHolds
  <2> QED
    BY Zenon, <2>1 DEF Holding, InBase
<1>6. PICK g \in [0 .. n -> S] : Recursive(g, ZeroWords, step, n)
  <2> HIDE DEF step, S
  <2> QED
    BY <1>4, <1>5, Recursion
<1>7. \A i \in 1 .. n : g[i] = NextWords(g[i - 1], text[i])
  <2> HIDE DEF S
  <2> TAKE i \in 1 .. n
  <2>1. g[i - 1] \in S
    OBVIOUS
  <2>2. step[<<i, g[i - 1]>>] = NextWords(g[i - 1], text[i])
    BY <2>1
  <2> HIDE DEF step
  <2> QED
    BY <1>6, <2>2 DEF Recursive
<1>8. g[0] = ZeroWords
  BY <1>6 DEF Recursive
<1> HIDE DEF S, step
<1>9. g = [i \in 0 .. Len(text) |-> IF i = 0 THEN ZeroWords ELSE NextWords(g[i - 1], text[i])]
  <2> HIDE DEF Is, row
  <2> QED
    BY <1>7, <1>8
<1>10. Is(g)
  BY Zenon, <1>2, <1>9
<1>11. Is(row)
  <2> HIDE DEF Is
  <2> QED
    BY <1>10
<1> HIDE DEF row
<1>12. row = [i \in 0 .. Len(text) |-> IF i = 0 THEN ZeroWords ELSE NextWords(row[i - 1], text[i])]
  BY Zenon, <1>2, <1>11
<1> HIDE DEF Is
<1>13. Loop58(row, text, n)
  BY SMTT(60), <1>12 DEF Loop58
<1> QED
  BY <1>1, <1>13

(* The digits of a text, and the number it spells. *)
Digits58(text) == [i \in 1 .. Len(text) |-> Digit58(text[i])]
InAlphabet(text, i) == \A j \in 1 .. i : Place(text[j]) # 0

(* After i characters the words hold the number they spell, when all of    *)
(* them are digits and the number is below the limit; otherwise there are  *)
(* no words any more.                                                       *)
LEMMA LoopHolds ==
  ASSUME NEW l, Limit(l), NEW text \in Seq(Nat), NEW n \in Nat, n = Len(text),
         NEW W, Loop58(W, text, n),
         NEW v \in [0 .. n -> Nat], Counts(v, Digits58(text), 58, n)
  PROVE  IF InAlphabet(text, n) /\ v[n] < l THEN Holding(W[n], v[n]) ELSE W[n] = <<>>
<1> DEFINE After(i) == IF InAlphabet(text, i) /\ v[i] < l THEN Holding(W[i], v[i]) ELSE W[i] = <<>>
           K == {i \in 0 .. n : After(i)}
<1>1. l \in Int
  <2>1. PICK k \in Nat : k = OutWords
    BY ZeroHolds
  <2>2. PICK P \in [0 .. k -> Nat] : Powers(P, WordBase, k)
    <3>1. WordBase \in Nat \ {0}
      BY SMT, WordSize
    <3> QED
      BY Zenon, <3>1, PowerRow
  <2>3. l \in Nat
    BY <2>1, <2>2, LimitIs
  <2> QED
    BY <2>3
<1>2. 0 \in K
  <2>1. v[0] = 0 /\ W[0] = ZeroWords
    BY Zenon DEF Counts, Loop58
  <2>2. InAlphabet(text, 0)
    BY DEF InAlphabet
  <2>3. Holding(W[0], v[0]) /\ v[0] < l
    BY Zenon, <2>1, ZeroHolds
  <2>4. 0 \in 0 .. n
    OBVIOUS
  <2> QED
    BY Zenon, <2>2, <2>3, <2>4
<1>3. ASSUME NEW i \in 0 .. n, i \in K, i < n PROVE i + 1 \in K
  <2>1. i + 1 \in 1 .. n /\ (i + 1) - 1 = i /\ i + 1 \in 0 .. n
    BY <1>3
  <2>2. PICK ch : ch = text[i + 1]
    OBVIOUS
  <2>3. W[i + 1] = NextWords(W[i], ch)
    BY <2>1, <2>2 DEF Loop58
  <2>4. PICK d \in Nat : d = Digit58(ch)
    BY DigitIs
  <2>5. PICK m \in Nat, k \in Nat : m = v[i] /\ k = v[i + 1]
    BY <2>1
  <2>6. k = 58 * m + d
    <3>1. v[i + 1] = v[i] * 58 + Digits58(text)[i + 1]
      BY <2>1 DEF Counts
    <3>2. Digits58(text)[i + 1] = d
      BY <2>1, <2>2, <2>4 DEF Digits58
    <3>3. k = m * 58 + d
      BY <2>5, <3>1, <3>2
    <3> QED
      BY <3>3
  <2>7. InAlphabet(text, i + 1) <=> InAlphabet(text, i) /\ Place(ch) # 0
    BY <2>1, <2>2 DEF InAlphabet
  <2>8. After(i)
    BY Zenon, <1>3
  <2>9. CASE InAlphabet(text, i) /\ m < l
    <3>1. Holding(W[i], m)
      BY Zenon, <2>5, <2>8, <2>9
    <3>2. W[i] # <<>> /\ Number(W[i], WordBase) = m
      BY Zenon, <3>1 DEF Holding
    <3>3. IF Place(ch) # 0 /\ 58 * m + d < l THEN Holding(NextWords(W[i], ch), 58 * m + d)
          ELSE NextWords(W[i], ch) = <<>>
      BY Zenon, <2>4, <3>1, <3>2, NextStep
    <3>4. After(i + 1)
      BY Zenon, <2>3, <2>5, <2>6, <2>7, <2>9, <3>3
    <3> QED
      BY Zenon, <2>1, <3>4
  <2>10. CASE ~(InAlphabet(text, i) /\ m < l)
    <3>1. W[i] = <<>>
      BY Zenon, <2>5, <2>8, <2>10
    <3>2. W[i + 1] = <<>>
      BY Zenon, <2>3, <3>1 DEF NextWords
    <3>3. k < l => m < l
      BY <1>1, <2>6
    <3>4. After(i + 1)
      BY Zenon, <2>5, <2>7, <2>10, <3>2, <3>3
    <3> QED
      BY Zenon, <2>1, <3>4
  <2> QED
    BY <2>9, <2>10
<1>4. 0 .. n \subseteq K
  <2> HIDE DEF K
  <2> QED
    BY <1>2, <1>3, SetInduction
<1>5. n \in 0 .. n
  OBVIOUS
<1>6. n \in K
  BY Zenon, <1>4, <1>5
<1> QED
  BY Zenon, <1>6

(* d are the digits that the characters of the text are. *)
Written(d, text) ==
  /\ InBase(d, Len(text), 58)
  /\ \A i \in 1 .. Len(text) : text[i] = b58digits[d[i] + 1]

(* A text of characters of the alphabet is written with its digits, and    *)
(* with no others.                                                          *)
LEMMA WrittenIs ==
  ASSUME NEW text \in Seq(Nat), NEW n \in Nat, n = Len(text)
  PROVE  /\ InBase(Digits58(text), n, 58)
         /\ InAlphabet(text, n) <=> Written(Digits58(text), text)
         /\ \A d : Written(d, text) => d = Digits58(text) /\ InAlphabet(text, n)
<1>1. InBase(Digits58(text), n, 58)
  <2>1. \A i \in 1 .. n : Digit58(text[i]) \in Nat /\ Digit58(text[i]) < 58
    BY Zenon, DigitIs
  <2> QED
    BY <2>1 DEF InBase, Digits58
<1>2. ASSUME InAlphabet(text, n) PROVE Written(Digits58(text), text)
  <2>1. ASSUME NEW i \in 1 .. n PROVE text[i] = b58digits[Digits58(text)[i] + 1]
    <3>1. 1 <= i /\ i <= n
      OBVIOUS
    <3>2. Place(text[i]) # 0
      BY <1>2 DEF InAlphabet
    <3>3. Digits58(text)[i] = Digit58(text[i])
      BY DEF Digits58
    <3> QED
      BY Zenon, <3>2, <3>3, DigitIs
  <2> QED
    BY Zenon, <1>1, <2>1 DEF Written
<1>3. ASSUME NEW d, Written(d, text) PROVE d = Digits58(text) /\ InAlphabet(text, n)
  <2>1. ASSUME NEW i \in 1 .. n PROVE Place(text[i]) # 0 /\ d[i] = Digit58(text[i])
    <3>1. PICK x \in Nat : x = d[i] /\ x < 58
      BY <1>3 DEF Written, InBase
    <3>2. b58digits[x + 1] = text[i]
      BY Zenon, <1>3, <3>1 DEF Written
    <3>3. x + 1 \in 1 .. 58
      <4>1. x < 58
        BY Zenon, <3>1
      <4> QED
        BY <4>1
    <3>4. Place(text[i]) = x + 1
      BY Zenon, <3>2, <3>3, PlaceIs
    <3>5. x + 1 # 0 /\ (x + 1) - 1 = x
      OBVIOUS
    <3> QED
      BY Zenon, <3>1, <3>4, <3>5 DEF Digit58
  <2>2. d \in [1 .. n -> Nat]
    BY <1>3 DEF Written, InBase
  <2>3. d = Digits58(text)
    BY <2>1, <2>2 DEF Digits58
  <2>4. InAlphabet(text, n)
    BY Zenon, <2>1 DEF InAlphabet
  <2> QED
    BY Zenon, <2>3, <2>4
<1>4. Written(Digits58(text), text) => InAlphabet(text, n)
  BY Zenon, <1>3
<1> QED
  BY Zenon, <1>1, <1>2, <1>3, <1>4

(* b58dec returns the AddrSize bytes of the number that the text spells,   *)
(* exactly when all of its characters are of the alphabet and the number   *)
(* has no more bytes; otherwise it returns nothing.                         *)
THEOREM Base58Decodes ==
  ASSUME NEW text \in Seq(Nat)
  PROVE  /\ b58dec(AddrSize, text) = <<>> \/ InBase(b58dec(AddrSize, text), AddrSize, 256)
         /\ \A bin : InBase(bin, AddrSize, 256) =>
              (b58dec(AddrSize, text) = bin
                 <=> \E d : Written(d, text) /\ Number(d, 58) = Number(bin, 256))
<1>1. PICK n \in Nat : n = Len(text)
  OBVIOUS
<1>2. PICK W : /\ Loop58(W, text, n)
               /\ b58dec(AddrSize, text) = IF W[n] = <<>> THEN <<>> ELSE BytesOf(W[n])
  BY Zenon, <1>1, LoopRow
<1>3. PICK l : Limit(l)
  BY Zenon, LimitExists
<1>4. InBase(Digits58(text), n, 58)
  BY Zenon, <1>1, WrittenIs
<1>5. \A d : Written(d, text) => d = Digits58(text) /\ InAlphabet(text, n)
  BY Zenon, <1>1, WrittenIs
<1>6. PICK h \in Nat : h = 58
  OBVIOUS
<1>7. PICK v \in [0 .. n -> Nat] :
        Counts(v, Digits58(text), h, n) /\ Number(Digits58(text), h) = v[n]
  <2>1. Digits58(text) \in [1 .. n -> Nat]
    BY <1>4 DEF InBase
  <2> QED
    BY Zenon, <2>1, NumberRow
<1>8. Number(Digits58(text), 58) = v[n]
  BY SMT, <1>6, <1>7
<1>9. IF InAlphabet(text, n) /\ v[n] < l THEN Holding(W[n], v[n]) ELSE W[n] = <<>>
  <2>1. Counts(v, Digits58(text), 58, n)
    BY Zenon, <1>6, <1>7
  <2> QED
    BY Zenon, <1>1, <1>2, <1>3, <2>1, LoopHolds
<1>10. ASSUME NEW m, Holding(W[n], m)
      PROVE  /\ b58dec(AddrSize, text) = BytesOf(W[n])
             /\ InBase(BytesOf(W[n]), AddrSize, 256)
             /\ Number(BytesOf(W[n]), 256) = m
  <2>1. /\ W[n] # <<>> /\ InBase(W[n], OutWords, WordBase) /\ Fits(W[n])
        /\ Number(W[n], WordBase) = m
    BY Zenon, <1>10 DEF Holding
  <2> QED
    BY Zenon, <1>2, <2>1, FitBytes
<1>11. b58dec(AddrSize, text) = <<>> \/ InBase(b58dec(AddrSize, text), AddrSize, 256)
  BY Zenon, <1>2, <1>9, <1>10
<1>12. ASSUME NEW bin, InBase(bin, AddrSize, 256), b58dec(AddrSize, text) = bin
       PROVE  \E d : Written(d, text) /\ Number(d, 58) = Number(bin, 256)
  <2>1. bin # <<>>
    <3>1. bin \in [1 .. 25 -> Nat]
      BY <1>12 DEF InBase, AddrSize
    <3>2. ASSUME bin = <<>> PROVE FALSE
      <4>1. Len(bin) = 25
        BY <3>1
      <4>2. Len(bin) = 0
        BY <3>2
      <4> QED
        BY <4>1, <4>2
    <3> QED
      BY <3>2
  <2>2. W[n] # <<>>
    BY Zenon, <1>2, <1>12, <2>1
  <2>3. InAlphabet(text, n) /\ Holding(W[n], v[n])
    BY Zenon, <1>9, <2>2
  <2>4. Number(bin, 256) = v[n]
    BY Zenon, <1>10, <1>12, <2>3
  <2>5. Written(Digits58(text), text)
    BY Zenon, <1>1, <2>3, WrittenIs
  <2>6. Number(Digits58(text), 58) = Number(bin, 256)
    BY ZenonT(60), <1>8, <2>4
  <2> QED
    BY ZenonT(60), <2>5, <2>6
<1>13. ASSUME NEW bin, InBase(bin, AddrSize, 256),
              NEW d, Written(d, text), Number(d, 58) = Number(bin, 256)
       PROVE  b58dec(AddrSize, text) = bin
  <2>1. d = Digits58(text) /\ InAlphabet(text, n)
    BY Zenon, <1>5, <1>13
  <2>2. v[n] = Number(bin, 256)
    BY ZenonT(60), <1>8, <1>13, <2>1
  <2>3. v[n] < l
    <3>1. Number(bin, 256) < l
      BY ZenonT(60), <1>3, <1>13, BelowLimit
    <3> QED
      BY ZenonT(60), <2>2, <3>1
  <2>4. Holding(W[n], v[n])
    BY Zenon, <1>9, <2>1, <2>3
  <2>5. PICK z : z = BytesOf(W[n])
    OBVIOUS
  <2>6. InBase(z, AddrSize, 256) /\ Number(z, 256) = Number(bin, 256)
        /\ b58dec(AddrSize, text) = z
    BY Zenon, <1>10, <2>2, <2>4, <2>5
  <2>7. PICK b \in Nat : b = 256
    OBVIOUS
  <2>8. InBase(z, AddrSize, b) /\ InBase(bin, AddrSize, b) /\ Number(z, b) = Number(bin, b)
    BY Zenon, <1>13, <2>6, <2>7
  <2>9. AddrSize \in Nat
    BY DEF AddrSize
  <2>10. z = bin
    BY Zenon, <2>8, <2>9, SameDigits
  <2> QED
    BY Zenon, <2>6, <2>10
<1>14. ASSUME NEW bin, InBase(bin, AddrSize, 256)
       PROVE  b58dec(AddrSize, text) = bin
                <=> \E d : Written(d, text) /\ Number(d, 58) = Number(bin, 256)
  <2>1. b58dec(AddrSize, text) = bin
          => \E d : Written(d, text) /\ Number(d, 58) = Number(bin, 256)
    BY ZenonT(60), <1>12, <1>14
  <2>2. ASSUME NEW d, Written(d, text) /\ Number(d, 58) = Number(bin, 256)
        PROVE  b58dec(AddrSize, text) = bin
    BY ZenonT(60), <1>13, <1>14, <2>2
  <2> QED
    BY Zenon, <2>1, <2>2
<1> QED
  BY Zenon, <1>11, <1>14

(* s starts with exactly z times x. *)
Leading(s, x, z) ==
  /\ z <= Len(s)
  /\ \A i \in 1 .. z : s[i] = x
  /\ z < Len(s) => s[z + 1] # x

(* The checksum of zeros is not zero, so a number with a right checksum has *)
(* a byte that is not 0.                                                    *)
LEMMA ChecksumNotZero ==
  ASSUME NEW bin, InBase(bin, AddrSize, 256),
         SubSeq(bin, 22, 25) = sha256d4(SubSeq(bin, 1, 21))
  PROVE  \E i \in 1 .. 25 : bin[i] # 0
<1> SUFFICES ASSUME \A i \in 1 .. 25 : bin[i] = 0 PROVE FALSE
  OBVIOUS
<1>1. bin \in [1 .. 25 -> Nat]
  BY DEF InBase, AddrSize
<1>2. PICK u : u = SubSeq(bin, 1, 21)
  OBVIOUS
<1>3. PICK c : c = SubSeq(bin, 22, 25)
  OBVIOUS
<1>4. /\ u \in Seq(Nat) /\ Len(u) = 21
      /\ \A i \in 1 .. 21 : u[i] = 0
  <2>1. \A i \in 1 .. 21 : bin[i] \in Nat /\ bin[1 + i - 1] = 0
    BY <1>1
  <2> QED
    BY <1>2, <2>1, SubSeqProperties
<1>5. /\ c \in Seq(Nat) /\ Len(c) = 4
      /\ \A i \in 1 .. 4 : c[i] = 0
  <2>1. /\ \A i \in 22 .. 25 : bin[i] \in Nat
        /\ \A i \in 1 .. 4 : bin[22 + i - 1] = 0
    BY <1>1
  <2> QED
    BY <1>3, <2>1, SubSeqProperties
<1>6. u = [i \in 1 .. 21 |-> 0]
  BY <1>4
<1>7. c = <<0, 0, 0, 0>>
  BY <1>5
<1>8. c = sha256d4(u)
  BY Zenon, <1>2, <1>3
<1> QED
  BY Zenon, <1>6, <1>7, <1>8, HashAssumption

(* b58check returns the version of a number whose checksum is right and     *)
(* that has as many leading zeros as the text leading ones; -3 when only    *)
(* the checksum is right, and -1 otherwise.  Its loop over both ends within *)
(* the number.                                                              *)
THEOREM Base58Checks ==
  ASSUME NEW text \in Seq(Nat), NEW bin, InBase(bin, AddrSize, 256)
  PROVE  b58check(bin, text) =
           IF SubSeq(bin, 22, 25) # sha256d4(SubSeq(bin, 1, 21)) THEN -1
           ELSE IF \E z \in 0 .. 24 : Leading(bin, 0, z) /\ Leading(text, One, z) THEN bin[1]
           ELSE -3
<1> DEFINE char(i) == IF i <= Len(text) THEN text[i] ELSE 0
           both(i) == bin[i] = 0 /\ char(i) = One
           first(i) == i \in 1 .. 25 /\ ~ both(i) /\ \A k \in 1 .. i - 1 : both(k)
           stop == CHOOSE i \in 1 .. 25 : ~ both(i) /\ \A k \in 1 .. i - 1 : both(k)
           right == SubSeq(bin, 22, 25) = sha256d4(SubSeq(bin, 1, 21))
<1>1. bin \in [1 .. 25 -> Nat] /\ Len(bin) = 25
  <2>1. bin \in [1 .. 25 -> Nat]
    BY DEF InBase, AddrSize
  <2> QED
    BY <2>1
<1>2. b58check(bin, text) = IF ~ right THEN -1
                            ELSE IF bin[stop] = 0 \/ char(stop) = One THEN -3 ELSE bin[1]
  <2>1. 25 - 3 = 22 /\ 25 - 4 = 21
    OBVIOUS
  <2> QED
    BY Zenon, <1>1, <2>1 DEF b58check
<1>3. PICK n \in Nat : n = Len(text)
  OBVIOUS
<1>4. ASSUME right PROVE first(stop)
  <2>1. PICK i \in 1 .. 25 : bin[i] # 0
    BY Zenon, <1>4, ChecksumNotZero
  <2> DEFINE I == {j \in 1 .. 25 : ~ both(j)}
  <2>2. ~ both(i)
    BY Zenon, <2>1
  <2>3. PICK j \in I : \A k \in I : j <= k
    <3>1. \A k \in I : k \in 1 .. 25
      BY Zenon
    <3>2. i \in I
      BY Zenon, <2>2
    <3> HIDE DEF I
    <3>3. I \in SUBSET Nat /\ I # {}
      BY <3>1, <3>2
    <3> QED
      BY <3>3, LeastNumber
  <2>4. first(j)
    <3>1. j \in 1 .. 25 /\ ~ both(j)
      OBVIOUS
    <3>2. ASSUME NEW k \in 1 .. j - 1 PROVE both(k)
      <4>1. k \in 1 .. 25 /\ ~ (j <= k)
        BY <3>1
      <4>2. k \notin I
        BY Zenon, <2>3, <4>1
      <4> QED
        BY Zenon, <4>1, <4>2
    <3> QED
      BY Zenon, <3>1, <3>2
  <2> QED
    BY Zenon, <2>4
<1> HIDE DEF stop
<1>5. One # 0
  BY DEF One
<1>6. ASSUME right, bin[stop] # 0, char(stop) # One
      PROVE  \E z \in 0 .. 24 : Leading(bin, 0, z) /\ Leading(text, One, z)
  <2>1. PICK j \in 1 .. 25 : j = stop /\ first(j) /\ bin[j] # 0 /\ char(j) # One
    BY Zenon, <1>4, <1>6
  <2>2. PICK z \in 0 .. 24 : z + 1 = j /\ j - 1 = z
    BY <2>1
  <2>3. Leading(bin, 0, z)
    <3>1. z <= 25
      OBVIOUS
    <3>2. bin[z + 1] # 0 /\ \A k \in 1 .. z : bin[k] = 0
      BY Zenon, <2>1, <2>2
    <3> QED
      BY Zenon, <1>1, <3>1, <3>2 DEF Leading
  <2>4. ASSUME NEW k \in 1 .. z PROVE k <= n /\ text[k] = One
    <3>1. both(k)
      BY Zenon, <2>1, <2>2
    <3>2. IF k <= n THEN text[k] = One ELSE 0 = One
      BY Zenon, <1>3, <3>1
    <3> QED
      BY <1>5, <3>2
  <2>5. z <= n
    BY <1>3, <2>2, <2>4
  <2>6. z < n => text[z + 1] # One
    BY <1>3, <2>1, <2>2
  <2>7. Leading(text, One, z)
    BY Zenon, <1>3, <2>4, <2>5, <2>6 DEF Leading
  <2> QED
    BY Zenon, <2>3, <2>7
<1>7. ASSUME right, NEW z \in 0 .. 24, Leading(bin, 0, z), Leading(text, One, z)
      PROVE  bin[stop] # 0 /\ char(stop) # One
  <2>1. PICK j \in 1 .. 25 : j = stop /\ first(j)
    BY Zenon, <1>4, <1>7
  <2>2. \A k \in 1 .. z : bin[k] = 0 /\ k <= n /\ text[k] = One
    BY <1>3, <1>7 DEF Leading
  <2>3. bin[z + 1] # 0
    <3>1. z < 25
      OBVIOUS
    <3> QED
      BY Zenon, <1>1, <1>7, <3>1 DEF Leading
  <2>4. char(z + 1) # One
    BY <1>3, <1>5, <1>7 DEF Leading
  <2>5. ASSUME j <= z PROVE FALSE
    <3>1. j \in 1 .. z
      BY <2>5
    <3>2. bin[j] = 0 /\ text[j] = One /\ j <= Len(text)
      BY Zenon, <1>3, <2>2, <3>1
    <3>3. both(j)
      BY Zenon, <3>2
    <3> QED
      BY Zenon, <2>1, <3>3
  <2>6. ~ (z + 1 < j)
    BY <2>1, <2>3
  <2>7. j = z + 1
    BY <2>5, <2>6
  <2> QED
    BY Zenon, <2>1, <2>3, <2>4, <2>7
<1> QED
  BY Zenon, <1>2, <1>6, <1>7

-----------------------------------------------------------------------------
(* The bits of a bech32 address. *)

(* The powers of two. *)
Two(b) == IF b = 0 THEN 1 ELSE IF b = 1 THEN 2 ELSE IF b = 2 THEN 4 ELSE
          IF b = 3 THEN 8 ELSE IF b = 4 THEN 16 ELSE IF b = 5 THEN 32 ELSE
          IF b = 6 THEN 64 ELSE IF b = 7 THEN 128 ELSE 256

(* They are those of the code. *)
LEMMA TwoIs ==
  ASSUME NEW b \in 0 .. 8
  PROVE  2 ^ b = Two(b)
<1>1. 2 ^ 0 = 1 /\ 2 ^ 1 = 2 /\ 2 ^ 2 = 4 /\ 2 ^ 3 = 8 /\ 2 ^ 4 = 16 /\ 2 ^ 5 = 32
      /\ 2 ^ 6 = 64 /\ 2 ^ 7 = 128 /\ 2 ^ 8 = 256
  OBVIOUS
<1>2. CASE b = 0
  BY <1>1, <1>2 DEF Two
<1>3. CASE b = 1
  BY <1>1, <1>3 DEF Two
<1>4. CASE b = 2
  BY <1>1, <1>4 DEF Two
<1>5. CASE b = 3
  BY <1>1, <1>5 DEF Two
<1>6. CASE b = 4
  BY <1>1, <1>6 DEF Two
<1>7. CASE b = 5
  BY <1>1, <1>7 DEF Two
<1>8. CASE b = 6
  BY <1>1, <1>8 DEF Two
<1>9. CASE b = 7
  BY <1>1, <1>9 DEF Two
<1>10. CASE b = 8
  BY <1>1, <1>10 DEF Two
<1> QED
  BY <1>2, <1>3, <1>4, <1>5, <1>6, <1>7, <1>8, <1>9, <1>10

(* Less than three bits and five more are less than eight. *)
LEMMA FewBits ==
  ASSUME NEW bits \in 0 .. 2, NEW p \in Nat, p = Two(bits), NEW v \in Nat, v < 32 * p
  PROVE  Two(bits + 5) = 32 * p /\ v % Two(bits + 5) = v
BY DEF Two

(* y are the first eight bits of v, and z is the rest. *)
EightFirst(v, q, y, z) ==
  /\ v = q * y + z
  /\ (v \div q) % 256 = y /\ y < 256
  /\ v % q = z /\ z < q

(* v has bits and five more: eight of them and a rest, below the power q. *)
Splits(v, bits, p) ==
  \E q \in Nat, y \in Nat, z \in Nat :
     q = Two(bits - 3) /\ 256 * q = 32 * p /\ EightFirst(v, q, y, z)

(* From three bits on, eight can be taken. *)
LEMMA ManyBits ==
  ASSUME NEW bits \in 3 .. 7, NEW p \in Nat, p = Two(bits), NEW v \in Nat, v < 32 * p
  PROVE  Splits(v, bits, p)
<1>1. PICK q \in Nat : q = Two(bits - 3) /\ q > 0 /\ 256 * q = 32 * p
  BY DEF Two
<1>2. PICK y \in Nat, z \in Nat : y = v \div q /\ z = v % q /\ v = q * y + z /\ z < q
  <2>1. /\ v = q * (v \div q) + (v % q)
        /\ v % q \in 0 .. q - 1 /\ v \div q \in Nat
    BY <1>1, Divides
  <2>2. PICK y \in Nat : y = v \div q
    BY <2>1
  <2>3. PICK z \in Nat : z = v % q /\ z < q
    BY <1>1, <2>1
  <2>4. v = q * y + z
    BY Zenon, <2>1, <2>2, <2>3
  <2> QED
    BY Zenon, <2>2, <2>3, <2>4
<1>3. y < 256
  <2>1. CASE y >= 256
    <3>1. PICK d \in Nat : y = 256 + d
      BY <2>1
    <3>2. q * y = 256 * q + q * d /\ q * d \in Nat
      BY <3>1
    <3>3. PICK e \in Nat : e = q * d
      BY <3>2
    <3>4. PICK f \in Nat : f = q * y
      OBVIOUS
    <3> QED
      BY <1>1, <1>2, <3>2, <3>3, <3>4
  <2> QED
    BY <2>1
<1>4. y % 256 = y
  BY <1>3
<1>5. EightFirst(v, q, y, z)
  BY Zenon, <1>2, <1>3, <1>4 DEF EightFirst
<1> QED
  BY Zenon, <1>1, <1>5 DEF Splits

(* g is s with the byte y behind it. *)
OneBehind(g, s, y, n) ==
  InBase(g, n + 1, 256) /\ Number(g, 256) = Then(Number(s, 256), y, 256)

(* w is the byte y alone. *)
IsByte(w, y) == y \in Nat /\ y < 256 /\ w \in [1 .. 1 -> Nat] /\ w[1] = y

(* A byte behind bytes is one more digit of their number. *)
LEMMA ByteBehind ==
  ASSUME NEW n \in Nat, NEW s, InBase(s, n, 256), NEW y, NEW w, IsByte(w, y),
         NEW g, g = s \o w
  PROVE  OneBehind(g, s, y, n)
<1>1. /\ y \in Nat /\ y < 256 /\ w \in [1 .. 1 -> Nat] /\ w[1] = y
  BY DEF IsByte
<1>2. s \in [1 .. n -> Nat] /\ \A i \in 1 .. n : s[i] < 256
  BY DEF InBase
<1>3. PICK k \in Nat : k = n + 1
  OBVIOUS
<1>4. PICK e \in Nat : e = 1
  OBVIOUS
<1>5. Joint(g, s, w, Nat, n, e, k)
  <2>1. Long(s, Nat, n)
    BY <1>2, LongFunction
  <2>2. Long(w, Nat, e) /\ k = n + e
    BY <1>1, <1>3, <1>4, LongFunction
  <2> QED
    BY <2>1, <2>2, Jointly
<1>6. g \in [1 .. k -> Nat] /\ (\A i \in 1 .. n : g[i] = s[i]) /\ g[k] = y
  <2>1. g \in Seq(Nat) /\ Len(g) = k
    BY <1>5 DEF Joint, Long
  <2>2. \A i \in 1 .. n : g[i] = s[i]
    BY <1>5 DEF Joint
  <2>3. g[n + e] = w[e]
    <3>1. e \in 1 .. e
      BY <1>4
    <3> QED
      BY <1>5, <3>1 DEF Joint
  <2>4. g \in [1 .. k -> Nat] /\ g[k] = y
    <3>1. g \in [1 .. k -> Nat]
      <4>1. g \in [1 .. Len(g) -> Nat]
        BY Zenon, <2>1, LenProperties
      <4> QED
        BY Zenon, <2>1, <4>1
    <3>2. g[k] = y
      BY Zenon, <1>1, <1>3, <1>4, <2>3
    <3> QED
      BY Zenon, <3>1, <3>2
  <2> QED
    BY Zenon, <2>2, <2>4
<1>7. InBase(g, k, 256)
  BY SMTT(60), <1>1, <1>2, <1>3, <1>6 DEF InBase
<1>8. PICK b \in Nat : b = 256
  OBVIOUS
<1>9. Number(g, b) = Then(Number(s, b), y, b)
  <2>1. Longer(s, g, y, n)
    BY <1>3, <1>6 DEF Longer
  <2> QED
    BY SMTT(60), <1>1, <1>2, <2>1, NumberOfLonger
<1> QED
  BY Zenon, <1>3, <1>7, <1>8, <1>9 DEF OneBehind

(* One value of five bits in convert_bits. *)
Regroup(a, x) ==
  LET val  == a.val * 2 ^ 5 + x
      bits == a.bits + 5
      n    == bits \div 8
  IN  [out  |-> a.out \o [k \in 1 .. n |-> (val \div 2 ^ (bits - k * 8)) % 2 ^ 8],
       val  |-> val % 2 ^ (bits % 8),
       bits |-> bits % 8]

(* a has k bytes and some bits more, and together they are the number m. *)
HoldsBits(a, k, bits, m) ==
  /\ InBase(a.out, k, 256) /\ a.bits = bits
  /\ \E v \in Nat : /\ a.val = v /\ v < Two(bits)
                    /\ m = Number(a.out, 256) * Two(bits) + v

(* A round when there is no byte yet. *)
LEMMA RegroupFew ==
  ASSUME NEW a, NEW k \in Nat, NEW bits \in 0 .. 2, NEW m \in Nat, HoldsBits(a, k, bits, m),
         NEW x \in Nat, x < 32
  PROVE  HoldsBits(Regroup(a, x), k, bits + 5, 32 * m + x)
<1>1. PICK v \in Nat : /\ a.val = v /\ v < Two(bits)
                       /\ m = Number(a.out, 256) * Two(bits) + v
  BY DEF HoldsBits
<1>2. InBase(a.out, k, 256) /\ a.bits = bits
  BY DEF HoldsBits
<1>3. PICK p \in Nat : p = Two(bits)
  BY DEF Two
<1>4. PICK u \in Nat : u = v * 32 + x /\ u < 32 * p
  BY <1>1, <1>3
<1>5. PICK t \in 5 .. 7 : t = bits + 5
  OBVIOUS
<1>6. Two(t) = 32 * p /\ u % Two(t) = u
  BY <1>3, <1>4, <1>5, FewBits
<1>7. 2 ^ t = Two(t) /\ 2 ^ 5 = 32
  <2>1. t \in 0 .. 8 /\ 2 ^ 5 = 32
    BY <1>5
  <2> QED
    BY Zenon, <2>1, TwoIs
<1>8. PICK o : o = a.out
  OBVIOUS
<1>9. Regroup(a, x) = [out |-> o, val |-> u, bits |-> t]
  <2>1. t \div 8 = 0 /\ t % 8 = t
    BY <1>5
  <2>2. Regroup(a, x) = [out |-> o \o [j \in 1 .. 0 |-> (u \div 2 ^ (t - j * 8)) % 2 ^ 8],
                         val |-> u % 2 ^ t, bits |-> t]
    BY Zenon, <1>1, <1>2, <1>4, <1>5, <1>7, <1>8, <2>1 DEF Regroup
  <2>3. PICK w : w = [j \in 1 .. 0 |-> (u \div 2 ^ (t - j * 8)) % 2 ^ 8]
    OBVIOUS
  <2>4. o \o w = o
    <3>1. o \in Seq(Nat)
      BY <1>2, <1>8 DEF InBase
    <3>2. w = <<>>
      BY <2>3
    <3> QED
      BY <3>1, <3>2
  <2> QED
    BY Zenon, <1>6, <1>7, <2>2, <2>3, <2>4
<1>10. PICK N \in Nat : N = Number(o, 256)
  <2>1. o \in [1 .. k -> Nat]
    BY <1>2, <1>8 DEF InBase
  <2>2. PICK b \in Nat : b = 256
    OBVIOUS
  <2>3. PICK r \in [0 .. k -> Nat] : Number(o, b) = r[k]
    BY <2>1, NumberRow
  <2> QED
    BY <2>2, <2>3
<1>11. 32 * m + x = N * Two(t) + u
  <2>1. m = N * p + v
    BY Zenon, <1>1, <1>3, <1>8, <1>10
  <2>2. PICK e \in Nat : e = N * p
    OBVIOUS
  <2>3. N * (32 * p) = 32 * e
    BY <2>2
  <2> QED
    BY <1>4, <1>6, <2>1, <2>2, <2>3
<1>12. /\ Regroup(a, x).out = o /\ Regroup(a, x).val = u /\ Regroup(a, x).bits = t
  BY <1>9
<1>13. u < Two(t)
  BY <1>4, <1>6
<1> QED
  BY ZenonT(60), <1>2, <1>5, <1>8, <1>10, <1>11, <1>12, <1>13 DEF HoldsBits

(* A round that makes a byte. *)
LEMMA RegroupMany ==
  ASSUME NEW a, NEW k \in Nat, NEW bits \in 3 .. 7, NEW m \in Nat, HoldsBits(a, k, bits, m),
         NEW x \in Nat, x < 32
  PROVE  HoldsBits(Regroup(a, x), k + 1, bits - 3, 32 * m + x)
<1>1. PICK v \in Nat : /\ a.val = v /\ v < Two(bits)
                       /\ m = Number(a.out, 256) * Two(bits) + v
  BY DEF HoldsBits
<1>2. InBase(a.out, k, 256) /\ a.bits = bits
  BY DEF HoldsBits
<1>3. PICK p \in Nat : p = Two(bits)
  BY DEF Two
<1>4. PICK u \in Nat : u = v * 32 + x /\ u < 32 * p
  BY <1>1, <1>3
<1>5. PICK t \in 0 .. 4 : t = bits - 3
  OBVIOUS
<1>6. PICK q \in Nat, y \in Nat, z \in Nat :
        q = Two(t) /\ 256 * q = 32 * p /\ EightFirst(u, q, y, z)
  <2>1. Splits(u, bits, p)
    BY <1>3, <1>4, ManyBits
  <2>2. PICK q \in Nat, y \in Nat, z \in Nat :
          q = Two(bits - 3) /\ 256 * q = 32 * p /\ EightFirst(u, q, y, z)
    BY Zenon, <2>1 DEF Splits
  <2> QED
    BY Zenon, <1>5, <2>2
<1>7. 2 ^ t = q /\ 2 ^ 5 = 32 /\ 2 ^ 8 = 256
  <2>1. t \in 0 .. 8 /\ 2 ^ 5 = 32 /\ 2 ^ 8 = 256
    BY <1>5
  <2> QED
    BY ZenonT(60), <1>6, <2>1, TwoIs
<1>8. PICK o : o = a.out
  OBVIOUS
<1>9. PICK w : w = [j \in 1 .. 1 |-> (u \div 2 ^ ((bits + 5) - j * 8)) % 2 ^ 8]
  OBVIOUS
<1>10. Regroup(a, x) = [out |-> o \o w, val |-> z, bits |-> t]
  <2>1. (bits + 5) \div 8 = 1 /\ (bits + 5) % 8 = t
    BY <1>5
  <2>2. Regroup(a, x) = [out |-> o \o w, val |-> u % 2 ^ t, bits |-> t]
    BY Zenon, <1>1, <1>2, <1>4, <1>7, <1>8, <1>9, <2>1 DEF Regroup
  <2> QED
    BY Zenon, <1>6, <1>7, <2>2 DEF EightFirst
<1>11. IsByte(w, y)
  <2>1. (bits + 5) - 1 * 8 = t
    BY <1>5
  <2>2. (u \div 2 ^ ((bits + 5) - 1 * 8)) % 2 ^ 8 = y /\ y < 256
    BY Zenon, <1>6, <1>7, <2>1 DEF EightFirst
  <2>3. \A j \in 1 .. 1 : j = 1
    OBVIOUS
  <2>4. w = [j \in 1 .. 1 |-> y]
    <3>1. \A j \in 1 .. 1 : (u \div 2 ^ ((bits + 5) - j * 8)) % 2 ^ 8 = y
      BY Zenon, <2>2, <2>3
    <3> QED
      BY Zenon, <1>9, <3>1
  <2>5. w \in [1 .. 1 -> Nat] /\ w[1] = y
    BY <2>4
  <2> QED
    BY <2>2, <2>5 DEF IsByte
<1>12. PICK g : g = o \o w /\ OneBehind(g, o, y, k)
  BY <1>2, <1>8, <1>11, ByteBehind
<1>13. PICK N \in Nat : N = Number(o, 256)
  <2>1. o \in [1 .. k -> Nat]
    BY <1>2, <1>8 DEF InBase
  <2>2. PICK b \in Nat : b = 256
    OBVIOUS
  <2>3. PICK r \in [0 .. k -> Nat] : Number(o, b) = r[k]
    BY <2>1, NumberRow
  <2> QED
    BY <2>2, <2>3
<1>14. PICK M : M = Number(g, 256) /\ M = N * 256 + y
  BY Zenon, <1>12, <1>13 DEF OneBehind, Then
<1>15. 32 * m + x = M * q + z
  <2>1. m = N * p + v
    BY Zenon, <1>1, <1>3, <1>8, <1>13
  <2>2. u = q * y + z
    BY Zenon, <1>6 DEF EightFirst
  <2>3. M * q = (N * 256 + y) * q
    BY Zenon, <1>14
  <2>4. (N * 256 + y) * q = N * (256 * q) + q * y
    OBVIOUS
  <2>5. N * (256 * q) = N * (32 * p)
    BY Zenon, <1>6
  <2>6. N * (32 * p) = 32 * (N * p)
    OBVIOUS
  <2>7. PICK e \in Nat, f \in Nat : e = N * p /\ f = q * y
    OBVIOUS
  <2>8. M * q = 32 * e + f
    BY <2>3, <2>4, <2>5, <2>6, <2>7
  <2>9. 32 * m + x = 32 * e + f + z
    BY <1>4, <2>1, <2>2, <2>7
  <2> QED
    BY <2>8, <2>9
<1>16. /\ Regroup(a, x).out = g /\ Regroup(a, x).val = z /\ Regroup(a, x).bits = t
  BY <1>10, <1>12
<1>17. z \in Nat /\ z < Two(t)
  BY Zenon, <1>6 DEF EightFirst
<1>18. 32 * m + x = Number(g, 256) * Two(t) + z
  BY Zenon, <1>6, <1>14, <1>15
<1>19. InBase(g, k + 1, 256)
  BY Zenon, <1>12 DEF OneBehind
<1>20. HoldsBits(Regroup(a, x), k + 1, t, 32 * m + x)
  <2>1. PICK b : b = Regroup(a, x)
    OBVIOUS
  <2>2. b.out = g /\ b.val = z /\ b.bits = t
    BY <1>16, <2>1
  <2>3. HoldsBits(b, k + 1, t, 32 * m + x)
    BY ZenonT(60), <1>17, <1>18, <1>19, <2>2 DEF HoldsBits
  <2> QED
    BY Zenon, <2>1, <2>3
<1> QED
  BY Zenon, <1>5, <1>20

(* The state in which convert_bits starts. *)
NoBits == [out |-> <<>>, val |-> 0, bits |-> 0]

(* a holds c bits, and they are the number m. *)
Gathered(a, c, m) == \E k \in Nat, bits \in 0 .. 7 : c = 8 * k + bits /\ HoldsBits(a, k, bits, m)

(* At first there are none. *)
LEMMA NothingGathered == Gathered(NoBits, 0, 0)
<1>1. PICK s : s = <<>> /\ s \in [1 .. 0 -> Nat]
  <2>1. PICK s : s = [j \in 1 .. 0 |-> 0]
    OBVIOUS
  <2>2. s = <<>>
    BY <2>1
  <2>3. s \in [1 .. 0 -> Nat]
    BY <2>1
  <2> QED
    BY Zenon, <2>2, <2>3
<1>2. PICK k \in Nat : k = 0
  OBVIOUS
<1>3. InBase(s, k, 256)
  BY <1>1, <1>2 DEF InBase
<1>4. PICK b \in Nat : b = 256
  OBVIOUS
<1>5. Number(s, b) = 0
  <2>1. PICK v \in [0 .. k -> Nat] : Counts(v, s, b, k) /\ Number(s, b) = v[k]
    BY <1>1, <1>2, NumberRow
  <2> QED
    BY <1>2, <2>1 DEF Counts
<1>6. PICK e : e = NoBits /\ e.out = s /\ e.val = 0 /\ e.bits = k
  <2>1. PICK e : e = [out |-> s, val |-> 0, bits |-> k]
    OBVIOUS
  <2>2. e = NoBits
    BY Zenon, <1>1, <1>2, <2>1 DEF NoBits
  <2>3. e.out = s /\ e.val = 0 /\ e.bits = k
    BY <2>1
  <2> QED
    BY Zenon, <2>2, <2>3
<1>7. PICK p \in Nat : p = Two(k) /\ 0 < p
  BY <1>2 DEF Two
<1>8. 0 = Number(e.out, 256) * Two(k) + 0
  BY <1>4, <1>5, <1>6, <1>7
<1>9. HoldsBits(e, k, k, 0)
  BY <1>3, <1>6, <1>7, <1>8 DEF HoldsBits
<1>10. k \in 0 .. 7 /\ 0 = 8 * k + k
  BY <1>2
<1>11. Gathered(e, 0, 0)
  BY Zenon, <1>9, <1>10 DEF Gathered
<1> QED
  BY Zenon, <1>6, <1>11

(* A round adds the five bits of its value. *)
LEMMA GatherMore ==
  ASSUME NEW a, NEW c \in Nat, NEW m \in Nat, Gathered(a, c, m), NEW x \in Nat, x < 32
  PROVE  Gathered(Regroup(a, x), c + 5, 32 * m + x)
<1>1. PICK k \in Nat, bits \in 0 .. 7 : c = 8 * k + bits /\ HoldsBits(a, k, bits, m)
  BY Zenon DEF Gathered
<1>2. CASE bits < 3
  <2>1. bits \in 0 .. 2
    BY <1>2
  <2>2. HoldsBits(Regroup(a, x), k, bits + 5, 32 * m + x)
    BY Zenon, <1>1, <2>1, RegroupFew
  <2>3. bits + 5 \in 0 .. 7 /\ c + 5 = 8 * k + (bits + 5)
    BY <1>1, <1>2
  <2> QED
    BY Zenon, <2>2, <2>3 DEF Gathered
<1>3. CASE bits >= 3
  <2>1. bits \in 3 .. 7
    BY <1>3
  <2>2. HoldsBits(Regroup(a, x), k + 1, bits - 3, 32 * m + x)
    BY Zenon, <1>1, <2>1, RegroupMany
  <2>3. bits - 3 \in 0 .. 7 /\ k + 1 \in Nat /\ c + 5 = 8 * (k + 1) + (bits - 3)
    BY <1>1, <1>3
  <2> QED
    BY Zenon, <2>2, <2>3 DEF Gathered
<1> QED
  BY <1>2, <1>3

(* What the state of convert_bits looks like. *)
BitState(a) ==
  a \in [out : Seq(Nat), val : Nat, bits : 0 .. 7] /\ \E c \in Nat, m \in Nat : Gathered(a, c, m)

(* A record that holds bits is such a state. *)
LEMMA RecordIn ==
  ASSUME NEW o, NEW v, NEW b, NEW a, a = [out |-> o, val |-> v, bits |-> b],
         NEW c \in Nat, NEW m \in Nat, Gathered(a, c, m)
  PROVE  BitState(a)
<1>1. PICK k \in Nat, bits \in 0 .. 7 : HoldsBits(a, k, bits, m)
  BY Zenon DEF Gathered
<1>2. a.out = o /\ a.val = v /\ a.bits = b
  OBVIOUS
<1>3. InBase(o, k, 256) /\ b = bits /\ v \in Nat
  BY <1>1, <1>2 DEF HoldsBits
<1>4. o \in Seq(Nat)
  BY <1>3 DEF InBase
<1>5. a \in [out : Seq(Nat), val : Nat, bits : 0 .. 7]
  BY <1>3, <1>4
<1> QED
  BY Zenon, <1>5 DEF BitState

(* ... and a round leaves one. *)
LEMMA RegroupState ==
  ASSUME NEW a, BitState(a), NEW x \in Nat, x < 32
  PROVE  BitState(Regroup(a, x))
<1>1. PICK c \in Nat, m \in Nat : Gathered(a, c, m)
  BY Zenon DEF BitState
<1>2. Gathered(Regroup(a, x), c + 5, 32 * m + x)
  BY Zenon, <1>1, GatherMore
<1>3. \E o, v, b : Regroup(a, x) = [out |-> o, val |-> v, bits |-> b]
  BY Zenon DEF Regroup
<1>4. c + 5 \in Nat /\ 32 * m + x \in Nat
  OBVIOUS
<1> QED
  BY Zenon, <1>2, <1>3, <1>4, RecordIn

(* The rounds of convert_bits over the values. *)
BitRounds(W, in, n) == W[0] = NoBits /\ \A i \in 1 .. n : W[i] = Regroup(W[i - 1], in[i])

(* What convert_bits makes of its last state. *)
BitsMade(a) == [ok  |-> (a.val * 2 ^ (8 - a.bits)) % 2 ^ 8 = 0 /\ a.bits < 5,
            out |-> a.out]

(* convert_bits goes through such rounds. *)
LEMMA RoundsRow ==
  ASSUME NEW n \in Nat, NEW in, InBase(in, n, 32)
  PROVE  \E W : BitRounds(W, in, n) /\ convert_bits(8, in, 5) = BitsMade(W[n])
<1> DEFINE S == {a \in [out : Seq(Nat), val : Nat, bits : 0 .. 7] : BitState(a)}
           step == [p \in (1 .. n) \X S |-> Regroup(p[2], in[p[1]])]
           Is(g) == g = [i \in 0 .. Len(in) |->
                          IF i = 0 THEN [out |-> <<>>, val |-> 0, bits |-> 0]
                          ELSE LET a == g[i - 1]
                                   val  == a.val * 2 ^ 5 + in[i]
                                   bits == a.bits + 5
                                   k    == bits \div 8
                               IN  [out  |-> a.out \o [j \in 1 .. k |->
                                               (val \div 2 ^ (bits - j * 8)) % 2 ^ 8],
                                    val  |-> val % 2 ^ (bits % 8),
                                    bits |-> bits % 8]]
           row == CHOOSE g : Is(g)
<1>1. in \in [1 .. n -> Nat] /\ (\A i \in 1 .. n : in[i] < 32) /\ Len(in) = n
  BY DEF InBase
<1>2. convert_bits(8, in, 5) = BitsMade(row[Len(in)])
  BY Zenon DEF convert_bits, BitsMade
<1>3. \A g : Is(g) <=> g = [i \in 0 .. Len(in) |->
                             IF i = 0 THEN NoBits ELSE Regroup(g[i - 1], in[i])]
  BY Zenon DEF NoBits, Regroup
<1>4. ASSUME NEW a \in S, NEW x \in Nat, x < 32 PROVE Regroup(a, x) \in S
  <2>1. BitState(Regroup(a, x))
    BY Zenon, <1>4, RegroupState
  <2> QED
    BY Zenon, <2>1 DEF BitState
<1>5. step \in [(1 .. n) \X S -> S]
  <2>1. \A i \in 1 .. n, a \in S : Regroup(a, in[i]) \in S
    <3> HIDE DEF S
    <3> TAKE i \in 1 .. n, a \in S
    <3>1. in[i] \in Nat /\ in[i] < 32
      BY <1>1
    <3> QED
      BY Zenon, <1>4, <3>1
  <2> HIDE DEF S
  <2> QED
    BY <2>1
<1>6. NoBits \in S
  <2>1. BitState(NoBits)
    <3>1. PICK c \in Nat : c = 0
      OBVIOUS
    <3>2. Gathered(NoBits, c, c)
      BY Zenon, <3>1, NothingGathered
    <3>3. \E o, v, b : NoBits = [out |-> o, val |-> v, bits |-> b]
      BY Zenon DEF NoBits
    <3> QED
      BY Zenon, <3>2, <3>3, RecordIn
  <2> QED
    BY Zenon, <2>1 DEF BitState
<1>7. PICK g \in [0 .. n -> S] : Recursive(g, NoBits, step, n)
  <2> HIDE DEF step, S
  <2> QED
    BY <1>5, <1>6, Recursion
<1>8. \A i \in 1 .. n : g[i] = Regroup(g[i - 1], in[i])
  <2> HIDE DEF S
  <2> TAKE i \in 1 .. n
  <2>1. g[i - 1] \in S
    OBVIOUS
  <2>2. step[<<i, g[i - 1]>>] = Regroup(g[i - 1], in[i])
    BY <2>1
  <2> HIDE DEF step
  <2> QED
    BY <1>7, <2>2 DEF Recursive
<1>9. g[0] = NoBits
  BY <1>7 DEF Recursive
<1> HIDE DEF S, step
<1>10. g = [i \in 0 .. Len(in) |-> IF i = 0 THEN NoBits ELSE Regroup(g[i - 1], in[i])]
  <2> HIDE DEF Is, row
  <2> QED
    BY <1>1, <1>8, <1>9
<1>11. Is(g)
  BY Zenon, <1>3, <1>10
<1>12. Is(row)
  <2> HIDE DEF Is
  <2> QED
    BY <1>11
<1> HIDE DEF row
<1>13. row = [i \in 0 .. Len(in) |-> IF i = 0 THEN NoBits ELSE Regroup(row[i - 1], in[i])]
  BY Zenon, <1>3, <1>12
<1> HIDE DEF Is
<1>14. BitRounds(row, in, n)
  BY SMTT(60), <1>1, <1>13 DEF BitRounds
<1> QED
  BY Zenon, <1>1, <1>2, <1>14

(* After all of them the bits are those of the values. *)
LEMMA RoundsGather ==
  ASSUME NEW n \in Nat, NEW in, InBase(in, n, 32), NEW W, BitRounds(W, in, n)
  PROVE  Gathered(W[n], 5 * n, Number(in, 32))
<1>1. in \in [1 .. n -> Nat] /\ \A i \in 1 .. n : in[i] < 32
  BY DEF InBase
<1>2. PICK b \in Nat : b = 32
  OBVIOUS
<1>3. PICK v \in [0 .. n -> Nat] : Counts(v, in, b, n) /\ Number(in, b) = v[n]
  BY <1>1, NumberRow
<1> DEFINE K == {i \in 0 .. n : Gathered(W[i], 5 * i, v[i])}
<1>4. 0 \in K
  <2>1. W[0] = NoBits /\ v[0] = 0 /\ 5 * 0 = 0 /\ 0 \in 0 .. n
    BY <1>3 DEF BitRounds, Counts
  <2> QED
    BY Zenon, <2>1, NothingGathered
<1>5. ASSUME NEW i \in 0 .. n, i \in K, i < n PROVE i + 1 \in K
  <2>1. i + 1 \in 1 .. n /\ (i + 1) - 1 = i /\ i + 1 \in 0 .. n /\ 5 * i \in Nat
        /\ 5 * (i + 1) = 5 * i + 5 /\ Gathered(W[i], 5 * i, v[i])
    BY <1>5
  <2>2. W[i + 1] = Regroup(W[i], in[i + 1])
    BY <2>1 DEF BitRounds
  <2>3. v[i + 1] = v[i] * b + in[i + 1]
    BY <1>3, <2>1 DEF Counts
  <2>4. PICK m \in Nat, x \in Nat : m = v[i] /\ x = in[i + 1] /\ x < 32
    BY <1>1, <2>1
  <2>5. v[i + 1] = 32 * m + x
    BY <1>2, <2>3, <2>4
  <2>6. PICK c \in Nat : c = 5 * i
    BY <2>1
  <2>7. Gathered(Regroup(W[i], x), c + 5, 32 * m + x)
    BY Zenon, <2>1, <2>4, <2>6, GatherMore
  <2> QED
    BY Zenon, <2>1, <2>2, <2>4, <2>5, <2>6, <2>7
<1>6. 0 .. n \subseteq K
  <2> HIDE DEF K
  <2> QED
    BY <1>4, <1>5, SetInduction
<1>7. n \in K
  <2> HIDE DEF K
  <2> QED
    BY <1>6
<1> QED
  BY Zenon, <1>2, <1>3, <1>7

(* What is left is padding when there is little of it and all of it is 0. *)
LEMMA Padding ==
  ASSUME NEW bits \in 0 .. 7, NEW v \in Nat, v < Two(bits)
  PROVE  (v * 2 ^ (8 - bits)) % 2 ^ 8 = 0 <=> v = 0
<1>1. PICK t \in 0 .. 8 : t = 8 - bits
  OBVIOUS
<1>2. PICK p \in Nat : p = Two(t) /\ p > 0 /\ v * p < 256
  BY <1>1 DEF Two
<1>3. 2 ^ t = p /\ 2 ^ 8 = 256
  <2>1. 2 ^ 8 = 256
    OBVIOUS
  <2> QED
    BY Zenon, <1>2, <2>1, TwoIs
<1>4. PICK u \in Nat : u = v * p
  OBVIOUS
<1>5. u % 256 = u
  BY <1>2, <1>4
<1>6. u = 0 <=> v = 0
  <2>1. CASE v > 0
    <3>1. PICK d \in Nat : v = d + 1
      <4>1. v - 1 \in Nat /\ v = (v - 1) + 1
        BY <2>1
      <4> QED
        BY <4>1
    <3>2. v * p = d * p + p /\ d * p \in Nat
      BY <3>1
    <3>3. PICK e \in Nat : e = d * p
      BY <3>2
    <3> QED
      BY <1>2, <1>4, <2>1, <3>2, <3>3
  <2>2. CASE v = 0
    BY <1>4, <2>2
  <2> QED
    BY <2>1, <2>2
<1> QED
  BY Zenon, <1>1, <1>3, <1>4, <1>5, <1>6

(* convert_bits regroups n values of five bits as k bytes and less than     *)
(* eight bits more, v: they spell the same number.  It accepts the bits     *)
(* left over exactly when they are less than one value and all of them 0,  *)
(* the padding of an address.                                              *)
THEOREM BitsRegrouped ==
  ASSUME NEW n \in Nat, NEW in, InBase(in, n, 32), NEW r, r = convert_bits(8, in, 5)
  PROVE  \E k \in Nat, bits \in 0 .. 7, v \in Nat :
           /\ 5 * n = 8 * k + bits /\ v < 2 ^ bits
           /\ InBase(r.out, k, 256) /\ Number(in, 32) = Number(r.out, 256) * 2 ^ bits + v
           /\ r.ok <=> bits < 5 /\ v = 0
<1>1. PICK W : BitRounds(W, in, n) /\ r = BitsMade(W[n])
  BY Zenon, RoundsRow
<1>2. PICK a : a = W[n]
  OBVIOUS
<1>3. PICK k \in Nat, bits \in 0 .. 7 : 5 * n = 8 * k + bits /\ HoldsBits(a, k, bits, Number(in, 32))
  <2>1. Gathered(a, 5 * n, Number(in, 32))
    BY Zenon, <1>1, <1>2, RoundsGather
  <2> QED
    BY Zenon, <2>1 DEF Gathered
<1>4. PICK v \in Nat : /\ InBase(a.out, k, 256) /\ a.bits = bits /\ a.val = v /\ v < Two(bits)
                       /\ Number(in, 32) = Number(a.out, 256) * Two(bits) + v
  BY Zenon, <1>3 DEF HoldsBits
<1>5. r.out = a.out /\ (r.ok <=> (a.val * 2 ^ (8 - a.bits)) % 2 ^ 8 = 0 /\ a.bits < 5)
  <2>1. PICK f \in BOOLEAN : f <=> (a.val * 2 ^ (8 - a.bits)) % 2 ^ 8 = 0 /\ a.bits < 5
    BY Zenon
  <2>2. f = ((a.val * 2 ^ (8 - a.bits)) % 2 ^ 8 = 0 /\ a.bits < 5)
    BY Zenon, <2>1
  <2>3. r = [ok |-> f, out |-> a.out]
    BY Zenon, <1>1, <1>2, <2>2 DEF BitsMade
  <2>4. r.ok = f /\ r.out = a.out
    BY <2>3
  <2> QED
    BY Zenon, <2>1, <2>4
<1>6. 2 ^ bits = Two(bits)
  <2>1. bits \in 0 .. 8
    OBVIOUS
  <2> QED
    BY Zenon, <2>1, TwoIs
<1>7. r.ok <=> bits < 5 /\ v = 0
  BY Zenon, <1>4, <1>5, Padding
<1>8. k \in Nat /\ bits \in 0 .. 7 /\ v \in Nat
  OBVIOUS
<1>9. /\ 5 * n = 8 * k + bits /\ v < 2 ^ bits
      /\ InBase(r.out, k, 256) /\ Number(in, 32) = Number(r.out, 256) * 2 ^ bits + v
      /\ r.ok <=> bits < 5 /\ v = 0
  <2>1. v < 2 ^ bits
    BY Zenon, <1>4, <1>6
  <2>2. InBase(r.out, k, 256)
    BY Zenon, <1>4, <1>5
  <2>3. Number(in, 32) = Number(r.out, 256) * 2 ^ bits + v
    BY ZenonT(60), <1>4, <1>5, <1>6
  <2> QED
    BY Zenon, <1>3, <1>7, <2>1, <2>2, <2>3
<1> QED
  BY Zenon, <1>8, <1>9
=============================================================================

----------------------------- MODULE Addresses -----------------------------
(***************************************************************************)
(* From the text of a payout address to the output script that pays it:    *)
(* address_to_script of util.c with its two decoders, base58 with a        *)
(* checksum and bech32.  A string is the sequence of its ASCII codes.      *)
(* The alphabets, lengths and constants are the program's; the words of    *)
(* the big number of b58dec have WordBytes bytes (4 in the program, but    *)
(* TLC's integers cannot multiply such a word by 58), and sha256d is       *)
(* whatever function of a payload a model takes for it.                    *)
(*                                                                         *)
(* The second half is the reference: the encoders of the two formats,      *)
(* written from their definitions and not from the decoders.               *)
(***************************************************************************)
EXTENDS Integers, Sequences, FiniteSets, SequencesExt

CONSTANTS WordBytes,    \* bytes of a word of b58dec's big number
          sha256d4(_)   \* the first four bytes of sha256d

ASSUME WordBytesAssumption == WordBytes \in {1, 2, 4}

\* 94 a0 09 11 for the real one: no address has nothing but zeros.
ASSUME HashAssumption == sha256d4([i \in 1 .. 21 |-> 0]) # <<0, 0, 0, 0>>

WordBase == 256 ^ WordBytes
One == 49               \* the character '1', digit 0 of base58
AddrSize == 25          \* version, 20 bytes of hash, 4 bytes of checksum

\* Bitwise exclusive or.
xor[a \in Nat, b \in Nat] ==
  IF a = 0 THEN b ELSE IF b = 0 THEN a
  ELSE 2 * xor[a \div 2, b \div 2] + ((a + b) % 2)

Codes(a, b) == [i \in 1 .. b - a + 1 |-> a + i - 1]
Lower(ch) == ch \in 97 .. 122
Upper(ch) == ch \in 65 .. 90

----------------------------------------------------------------------------
(* Base58                                                                  *)

b58digits ==
  Codes(49, 57) \o Codes(65, 72) \o Codes(74, 78) \o Codes(80, 90)
                \o Codes(97, 107) \o Codes(109, 122)

\* The big number times 58 plus c, from its last word to its first; .c is
\* what runs over.
times58(outi, c) ==
  LET n == Len(outi)
      over[k \in 0 .. n] ==
        IF k = 0 THEN c ELSE (outi[n - k + 1] * 58 + over[k - 1]) \div WordBase
  IN  [out |-> [j \in 1 .. n |-> (outi[j] * 58 + over[n - j]) % WordBase],
       c   |-> over[n]]

\* Big-endian bytes of a word.
WordToBytes(w) == [k \in 1 .. WordBytes |-> (w \div 256 ^ (WordBytes - k)) % 256]

\* <<>> when a character is no digit or the number has more than binsz
\* bytes, else its binsz bytes.
b58dec(binsz, b58) ==
  LET outisz == (binsz + WordBytes - 1) \div WordBytes
      rem    == binsz % WordBytes
      words[i \in 0 .. Len(b58)] ==
        IF i = 0 THEN [j \in 1 .. outisz |-> 0]
        ELSE LET outi == words[i - 1]
                 c == SelectInSeq(b58digits, LAMBDA d : d = b58[i])
                 n == times58(outi, c - 1)
             IN  IF outi = <<>> \/ c = 0 \/ n.c # 0
                    \/ (rem # 0 /\ n.out[1] \div 256 ^ rem # 0)
                 THEN <<>> ELSE n.out
      outi == words[Len(b58)]
      byte(p) == WordToBytes(outi[p \div WordBytes + 1])[(p % WordBytes) + 1]
  IN  IF outi = <<>> THEN <<>>
      ELSE [k \in 1 .. binsz |-> byte(outisz * WordBytes - binsz + k - 1)]

\* Mutant: the leading ones are not counted.
b58check_value_only(bin, b58) ==
  LET n == Len(bin)
  IN  IF SubSeq(bin, n - 3, n) # sha256d4(SubSeq(bin, 1, n - 4)) THEN -1 ELSE bin[1]

\* The version byte, or -1 for a wrong checksum and -3 for a wrong number
\* of leading ones.
b58check(bin, b58) ==
  LET n    == Len(bin)
      char(i) == IF i <= Len(b58) THEN b58[i] ELSE 0
      stop == CHOOSE i \in 1 .. n :
                /\ ~(bin[i] = 0 /\ char(i) = One)
                /\ \A k \in 1 .. i - 1 : bin[k] = 0 /\ char(k) = One
  IN  IF SubSeq(bin, n - 3, n) # sha256d4(SubSeq(bin, 1, n - 4)) THEN -1
      ELSE IF bin[stop] = 0 \/ char(stop) = One THEN -3
      ELSE bin[1]

----------------------------------------------------------------------------
(* Bech32                                                                  *)

bech32_polymod_step(pre) ==
  LET gen(i, g) == IF (pre \div 2 ^ (25 + i)) % 2 = 1 THEN g ELSE 0
      low  == xor[(pre % 2 ^ 25) * 32, xor[gen(0, 996825010), gen(1, 642813549)]]
      high == xor[gen(2, 513874426), xor[gen(3, 1027748829), gen(4, 705979059)]]
  IN  xor[low, high]

\* The table of the program: the digits, and the letters in either case.
bech32_charset_rev(ch) ==
  LET digits  == <<15, -1, 10, 17, 21, 20, 26, 30, 7, 5>>
      letters == <<29, -1, 24, 13, 25, 9, 8, 23, -1, 18, 22, 31, 27,
                   19, -1, 1, 0, 3, 16, 11, 28, 12, 14, 6, 4, 2>>
  IN  CASE ch \in 48 .. 57 -> digits[ch - 47]
        [] Upper(ch)       -> letters[ch - 64]
        [] Lower(ch)       -> letters[ch - 96]
        [] OTHER           -> -1

\* The checksum after the values vs.
polymod(vs) ==
  LET from[chk \in Nat, i \in 1 .. Len(vs) + 1] ==
        IF i > Len(vs) THEN chk ELSE from[xor[bech32_polymod_step(chk), vs[i]], i + 1]
  IN  from[1, 1]

\* The 5-bit values between the separator and the checksum, or [ok |-> FALSE].
bech32_decode(input) ==
  LET n    == Len(input)
      sep  == SelectLastInSeq(input, LAMBDA ch : ch = One)
      hrp  == SubSeq(input, 1, sep - 1)
      low(ch) == IF Upper(ch) THEN ch + 32 ELSE ch
      vals == [i \in 1 .. n - sep |-> bech32_charset_rev(input[sep + i])]
      chk  == polymod([i \in 1 .. sep - 1 |-> low(hrp[i]) \div 32] \o <<0>>
                        \o [i \in 1 .. sep - 1 |-> hrp[i] % 32] \o vals)
      ok   == /\ n \in 8 .. 90
              /\ sep > 1 /\ n - sep >= 6
              /\ \A i \in 1 .. sep - 1 : hrp[i] \in 33 .. 126
              /\ \A i \in 1 .. n - sep : vals[i] # -1
              /\ ~ \E i, j \in 1 .. n : Lower(input[i]) /\ Upper(input[j])
              /\ chk = 1
  IN  [ok |-> ok, data |-> IF ok THEN SubSeq(vals, 1, n - sep - 6) ELSE <<>>]

\* Regroup values of inbits bits as values of outbits bits, without padding.
\* val keeps only the bits not yet given out, of which the code's 32-bit word
\* is never short.
convert_bits(outbits, in, inbits) ==
  LET given[i \in 0 .. Len(in)] ==
        IF i = 0 THEN [out |-> <<>>, val |-> 0, bits |-> 0]
        ELSE LET a == given[i - 1]
                 val  == a.val * 2 ^ inbits + in[i]
                 bits == a.bits + inbits
                 n    == bits \div outbits
             IN  [out  |-> a.out \o [k \in 1 .. n |->
                             (val \div 2 ^ (bits - k * outbits)) % 2 ^ outbits],
                  val  |-> val % 2 ^ (bits % outbits),
                  bits |-> bits % outbits]
      end == given[Len(in)]
  IN  [ok  |-> (end.val * 2 ^ (outbits - end.bits)) % 2 ^ outbits = 0 /\ end.bits < inbits,
       out |-> end.out]

\* Whether values and the bytes of all but the first are a version and its
\* program.
segwit_addr_decode(values, bytes) ==
  /\ values.ok
  /\ Len(values.data) \in 1 .. 65
  /\ values.data[1] <= 16
  /\ bytes.ok
  /\ Len(bytes.out) \in 2 .. 40
  /\ values.data[1] = 0 => Len(bytes.out) \in {20, 32}

witness_script(outsz, values, bytes) ==
  IF ~segwit_addr_decode(values, bytes) \/ outsz < Len(bytes.out) + 2 THEN <<>>
  ELSE <<IF values.data[1] # 0 THEN 80 + values.data[1] ELSE 0, Len(bytes.out)>> \o bytes.out

script_of_values(outsz, values) ==
  witness_script(outsz, values, convert_bits(8, Tail(values.data), 5))

bech32_to_script(outsz, addr) == script_of_values(outsz, bech32_decode(addr))

\* The script of a number of AddrSize bytes with its version.
b58_script(bin, ver) ==
  LET hash == SubSeq(bin, 2, 21)
  IN  IF ver < 0 THEN <<>>
      ELSE IF ver \in {5, 196} THEN <<169, 20>> \o hash \o <<135>>
      ELSE <<118, 169, 20>> \o hash \o <<136, 172>>

script_of(outsz, addr, bin) ==
  IF bin = <<>> THEN bech32_to_script(outsz, addr)
  ELSE b58_script(bin, b58check(bin, addr))

\* The script, or <<>> for a string that is no address.
address_to_script(outsz, addr) == script_of(outsz, addr, b58dec(AddrSize, addr))

----------------------------------------------------------------------------
(* The reference: how addresses are made.                                  *)

\* The big-endian digits of a number, from one base to another.
Rebase(number, from, to) ==
  LET Div(acc, d) ==
        LET t == acc.r * from + d
            q == t \div to
        IN  [q |-> IF acc.q = <<>> /\ q = 0 THEN <<>> ELSE Append(acc.q, q),
             r |-> t % to]
      digits[ds \in Seq(Nat)] ==
        IF ds = <<>> THEN <<>>
        ELSE LET qr == FoldLeft(Div, [q |-> <<>>, r |-> 0], ds)
             IN  Append(digits[qr.q], qr.r)
  IN  digits[number]

Zeros(s) == Cardinality({i \in 1 .. Len(s) : \A k \in 1 .. i : s[k] = 0})

Base58Check(ver, hash) ==
  LET bin == <<ver>> \o hash \o sha256d4(<<ver>> \o hash)
      ds  == Rebase(SubSeq(bin, Zeros(bin) + 1, Len(bin)), 256, 58)
  IN  [i \in 1 .. Zeros(bin) |-> One] \o [i \in 1 .. Len(ds) |-> b58digits[ds[i] + 1]]

bech32_charset ==
  <<113, 112, 122, 114, 121, 57, 120, 56, 103, 102, 50, 116, 118, 100, 119, 48,
    115, 51, 106, 110, 53, 52, 107, 104, 99, 101, 54, 109, 117, 97, 55, 108>>

\* Multiplication in GF(32) = GF(2)[x] / (x^5 + x^3 + 1).
GF32Times[a \in 0 .. 31, b \in 0 .. 31] ==
  IF b = 0 THEN 0
  ELSE LET dbl == IF a >= 16 THEN xor[(a - 16) * 2, 9] ELSE a * 2
       IN  xor[GF32Times[dbl, b \div 2], IF b % 2 = 1 THEN a ELSE 0]

\* The checksum: what is left of the word, as a polynomial over GF(32), by
\* the generator of the code.
Bech32Checksum(word) ==
  LET Step(r, v) ==
        LET t(g, a) == xor[GF32Times[g, r[1]], a]
        IN  <<t(29, r[2]), t(22, r[3]), t(20, r[4]), t(21, r[5]), t(29, r[6]), t(18, v)>>
      w == word \o <<0, 0, 0, 0, 0, 0>>
      from[r \in Seq(0 .. 31), i \in 1 .. Len(w) + 1] ==
        IF i > Len(w) THEN r ELSE from[Step(r, w[i]), i + 1]
      r == from[<<0, 0, 0, 0, 0, 1>>, 1]
  IN  [r EXCEPT ![6] = xor[@, 1]]

\* hrp in lower case; data: 5-bit values.
Bech32(hrp, data) ==
  LET h == Len(hrp)
      expanded == [i \in 1 .. h |-> hrp[i] \div 32] \o <<0>> \o [i \in 1 .. h |-> hrp[i] % 32]
      all == data \o Bech32Checksum(expanded \o data)
  IN  hrp \o <<One>> \o [i \in 1 .. Len(all) |-> bech32_charset[all[i] + 1]]

\* The bits of the bytes in groups of five, the last one filled with zeros.
Fives(bytes) ==
  LET bit(p) == IF p > 8 * Len(bytes) THEN 0
                ELSE (bytes[(p - 1) \div 8 + 1] \div 2 ^ (7 - ((p - 1) % 8))) % 2
  IN  [i \in 1 .. (8 * Len(bytes) + 4) \div 5 |->
         16 * bit(5 * i - 4) + 8 * bit(5 * i - 3) + 4 * bit(5 * i - 2)
            + 2 * bit(5 * i - 1) + bit(5 * i)]

Segwit(hrp, ver, prog) == Bech32(hrp, <<ver>> \o Fives(prog))
============================================================================

--------------------------- MODULE BlockTemplate ---------------------------
(***************************************************************************)
(* gbt_work_decode of cpu-miner.c: from an answer to getblocktemplate to a *)
(* unit of work.  A template is a record:                                  *)
(*   bad        the members that are missing or ill-formed                 *)
(*   segwit, append, submitcb   what "rules" and "mutable" contain         *)
(*   height, curtime, epoch     integers                                   *)
(*   txs        the names of its transactions                              *)
(*   cbtxn      the length of the script signature of the "coinbasetxn"    *)
(*              it brings, 0 when the miner has to build the coinbase      *)
(*   aux        the lengths of the entries of "coinbaseaux", -1 for one    *)
(*              that is no hex                                             *)
(* sha256d is free: a hash is the term that was hashed.  The bytes of a    *)
(* member are <<name, 1>>, <<name, 2>> ... in the order of its hex text,   *)
(* and a 32-bit word is the sequence of its bytes, most significant first. *)
(***************************************************************************)
EXTENDS Integers, Sequences, FiniteSets, SequencesExt

Bytes(name, a, b) == [i \in 1 .. b - a + 1 |-> <<name, a + i - 1>>]

swab32(w) == Reverse(w)
le32dec(b) == Reverse(b)
be32dec(b) == b

\* Words 1..n of a member of 4*n bytes, through the given decoding.
Words(name, n, dec(_)) == [k \in 1 .. n |-> dec(Bytes(name, 4 * k - 3, 4 * k))]

Sha(x) == <<"sha256d", x>>
Pair(l, r) == <<"pair", l, r>>
Zero == <<"zero">>

\* The number n < 2^31 of a count, as the bytes of its encoding.
varint_encode(n) ==
  IF n < 253 THEN <<n>>
  ELSE IF n < 65536 THEN <<253, n % 256, n \div 256>>
  ELSE <<254, n % 256, (n \div 256) % 256, (n \div 65536) % 256, n \div 16777216>>

----------------------------------------------------------------------------
(* The coinbase                                                            *)

\* Mutant: the bytes of the height without a sign byte.
bip34_height_unsigned(height) ==
  LET le[n \in Nat] == IF n = 0 THEN <<>> ELSE <<n % 256>> \o le[n \div 256]
  IN  IF height \in 1 .. 16 THEN <<height + 80, 0>> ELSE <<Len(le[height])>> \o le[height]

\* The script signature of BIP 34: OP_1 .. OP_16 and a pad, or the push of
\* the little-endian bytes, with a zero byte when the top bit is set.
bip34_height(height) ==
  LET le[n \in Nat] ==
        IF n = 0 THEN <<>>
        ELSE <<n % 256>> \o (IF n \in 128 .. 255 THEN <<0>> ELSE <<>>) \o le[n \div 256]
      num == le[height]
  IN  IF height \in 1 .. 16 THEN <<height + 80, 0>> ELSE <<Len(num)>> \o num

\* One round over the n rows of a tree of hashes: row i becomes the hash of
\* rows 2i and 2i + 1, in place and in order of i.
hash_rows(tree, n) ==
  LET hashed[i \in 0 .. n] ==
        IF i = 0 THEN tree
        ELSE LET t == hashed[i - 1]
             IN  [t EXCEPT ![i - 1] = Pair(t[2 * (i - 1)], t[2 * (i - 1) + 1])]
  IN  hashed[n]

\* Mutant: an odd last row is paired with whatever lies behind it.
even_rows_not(tree, n) == tree

\* An odd last row is doubled.
even_rows(tree, n) == IF n % 2 = 1 THEN [tree EXCEPT ![n] = tree[n - 1]] ELSE tree

\* while (n > 1): the tree after all rounds, of which there are less than n.
hash_tree(tree, n) ==
  LET after[r \in 0 .. n] ==
        IF r = 0 THEN [t |-> tree, n |-> n]
        ELSE LET p == after[r - 1]
                 half == (p.n + 1) \div 2
             IN  IF p.n <= 1 THEN p
                 ELSE [t |-> hash_rows(even_rows(p.t, p.n), half), n |-> half]
  IN  after[n].t

\* The commitment to the witnesses: row 0 stands for the coinbase, and row
\* 1 becomes the reserved value.
witness_commitment(txs) ==
  LET n     == Len(txs) + 1
      wtree == [i \in 0 .. n |-> IF i \in 1 .. n - 1 THEN <<"hash", txs[i]>> ELSE Zero]
      root  == [hash_tree(wtree, n) EXCEPT ![1] = Zero]
  IN  Pair(root[0], root[1])

\* The coinbase built for the payout script: its script signature, the two
\* outputs and its size.
build_coinbase(t, script) ==
  LET ssig == bip34_height(t.height)
  IN  [ssig |-> ssig, script |-> script,
       commit |-> IF t.segwit THEN witness_commitment(t.txs) ELSE Zero,
       size |-> 42 + Len(ssig) + 4 + 1 + 8 + 1 + Len(script)
                  + (IF t.segwit THEN 8 + 7 + 32 ELSE 0) + 4]

\* The coinbase that came with the template; it pays whom the server says.
given_coinbase(t) ==
  [ssig |-> [i \in 1 .. t.cbtxn |-> 0], script |-> <<>>, commit |-> Zero, size |-> 100 + t.cbtxn]

\* What goes behind the script signature: the signature of the command line
\* and the auxiliary data, each only if it still fits, up to the first entry
\* that is no hex or longer than the buffer it is decoded into.
xsig(len, sig, aux) ==
  LET Fits(x, n) == len + Len(x) + n <= 100
      Take(x, n, what) == IF Fits(x, n) THEN x \o [i \in 1 .. n |-> what] ELSE x
      taken[i \in 0 .. Len(aux)] ==
        IF i = 0 THEN [x |-> Take(<<>>, sig, 253), good |-> TRUE]
        ELSE LET p == taken[i - 1]
             IN  IF p.good /\ aux[i] \in 0 .. 100 THEN [p EXCEPT !.x = Take(p.x, aux[i], 254)]
                 ELSE [p EXCEPT !.good = FALSE]
  IN  taken[Len(aux)].x

\* ... behind a push opcode of one or of two bytes, or none when there is no
\* room for one.
append_xsig(cb, sig, aux) ==
  LET len == Len(cb.ssig)
      x   == xsig(len, sig, aux)
      push_len == IF len + Len(x) < 76 THEN 1
                  ELSE IF len + 2 + Len(x) > 100 THEN 0 ELSE 2
      opcode == SubSeq(<<76, Len(x)>>, 3 - push_len, 2)
  IN  IF x = <<>> THEN cb
      ELSE [cb EXCEPT !.ssig = @ \o opcode \o x, !.size = @ + push_len + Len(x)]

----------------------------------------------------------------------------
(* The block                                                               *)

\* The merkle root over the coinbase and the transactions.
merkle_root(leaves) ==
  LET n == Len(leaves)
      merkle_tree == [i \in 0 .. 2 * ((n + 1) \div 2) - 1 |->
                        IF i < n THEN leaves[i + 1] ELSE Zero]
  IN  hash_tree(merkle_tree, n)[0]

tx_leaf(t, i) == IF t.segwit THEN <<"txid", t.txs[i]>> ELSE Sha(<<"data", t.txs[i]>>)

\* The first 19 words of the header; the root is the member "root".
assemble_header ==
  <<swab32(Bytes("version", 1, 4))>>
    \o Reverse(Words("previousblockhash", 8, le32dec))
    \o Words("root", 8, be32dec)
    \o <<swab32(Bytes("curtime", 1, 4)), le32dec(Bytes("bits", 1, 4))>>

\* Mutant: the words in the order of the text.
decode_target_forward == Words("target", 8, be32dec)

decode_target == Reverse(Words("target", 8, be32dec))

\* The members in the order in which they are looked at; what is wrong with
\* one that is not looked at does not matter.  "data" is bad when it is no
\* hex; a transaction without it makes "transactions" bad.
Looked(t) ==
  <<"height", "version", "previousblockhash", "rx_epoch_duration", "curtime",
    "bits", "transactions">>
   \o (IF t.cbtxn > 0 THEN <<"coinbasetxn">>
       ELSE <<"coinbasevalue">>
              \o (IF t.segwit /\ t.txs # <<>> THEN <<"hash">> ELSE <<>>))
   \o (IF t.txs = <<>> THEN <<>> ELSE IF t.segwit THEN <<"txid">> ELSE <<"data">>)
   \o <<"target", "workid">>

\* The unit of work made of template t for the payout script, or rc FALSE.
\* sig: length of the signature given on the command line.
gbt_work_decode(t, script, sig) ==
  LET cb0 == IF t.cbtxn > 0 THEN given_coinbase(t) ELSE build_coinbase(t, script)
      cb  == IF t.append \/ t.cbtxn = 0 THEN append_xsig(cb0, sig, t.aux) ELSE cb0
      ntx == Len(t.txs)
      leaf[i \in 1 .. ntx] == tx_leaf(t, i)
  IN  [rc     |-> /\ \A k \in 1 .. Len(Looked(t)) : Looked(t)[k] \notin t.bad
                  /\ t.cbtxn > 0 \/ script # <<>>,
       height |-> t.height,
       cb     |-> cb,
       count  |-> varint_encode(1 + ntx),
       txs    |-> IF t.submitcb THEN <<>> ELSE t.txs,
       root   |-> merkle_root(<<Sha(cb)>> \o leaf),
       data   |-> assemble_header,
       target |-> decode_target,
       seed   |-> t.curtime \div t.epoch]

----------------------------------------------------------------------------
(* The reference                                                           *)

\* Neighbours are joined, a last one without a neighbour with itself.
Joined(row) ==
  [i \in 1 .. (Len(row) + 1) \div 2 |->
     Pair(row[2 * i - 1], IF 2 * i <= Len(row) THEN row[2 * i] ELSE row[2 * i - 1])]

\* The root of the tree over a row of hashes: what is left once rows have
\* been joined until a single hash remains.
TreeRoot(row) ==
  LET rows[h \in 0 .. Len(row)] ==
        IF h = 0 THEN row
        ELSE LET below == rows[h - 1]
             IN  IF Len(below) <= 1 THEN below ELSE Joined(below)
  IN  rows[Len(row)][1]

\* The 80 bytes of a header without its nonce, as the consensus serialises
\* them: integers and hashes little-endian, the text of a hash big-endian.
ReferenceHeader ==
  Reverse(Bytes("version", 1, 4)) \o Reverse(Bytes("previousblockhash", 1, 32))
    \o Bytes("root", 1, 32) \o Reverse(Bytes("curtime", 1, 4)) \o Reverse(Bytes("bits", 1, 4))

\* The number of four bytes, the lowest first.
Value(a, b, c, d) == a + 256 * b + 65536 * c + 16777216 * d

\* What a script interpreter reads first: <<number pushed, bytes read>>, -1
\* for a number of more than the four bytes that a height has.
FirstPush(s) ==
  LET op == s[1]
      byte(i) == IF i <= op THEN s[1 + i] ELSE 0
  IN  IF op \in 81 .. 96 THEN <<op - 80, 1>>
      ELSE IF op <= 4 THEN <<Value(byte(1), byte(2), byte(3), byte(4)), 1 + op>> ELSE <<-1, 1 + op>>

\* What it reads when the rest of the script is one push.
PushedData(s) ==
  LET at == IF s[1] = 76 THEN 3 ELSE 2
  IN  [len |-> s[at - 1], data |-> SubSeq(s, at, Len(s))]

VarintValue(b) ==
  IF b[1] < 253 THEN b[1]
  ELSE IF b[1] = 253 THEN b[2] + 256 * b[3]
  ELSE Value(b[2], b[3], b[4], b[5])
============================================================================

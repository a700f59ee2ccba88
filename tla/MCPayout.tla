------------------------------ MODULE MCPayout ------------------------------
(* Address files and templates of the payout run. *)
EXTENDS Payout

\* Some function that differs on payloads that differ in one place.
MCsha256d4(bin) ==
  [k \in 1 .. 4 |->
     FoldLeftDomain(LAMBDA h, i : (h + (bin[i] + 1) * (i * k + k + 5)) % 256,
                    k, bin)]

H(k, n) == [i \in 1 .. n |-> (i * k * 37 + k) % 256]
alpha == <<97, 108, 112, 104, 97>>
P2PKH(h) == <<118, 169, 20>> \o h \o <<136, 172>>
P2SH(h) == <<169, 20>> \o h \o <<135>>
Wit(v, p) == <<IF v = 0 THEN 0 ELSE 80 + v, Len(p)>> \o p

\* Texts that are encoded: a version and a hash, or a prefix and 5-bit values.
B58(v, h) == [hrp |-> <<>>, ver |-> v, data |-> h, fives |-> FALSE]
Seg(v, p) == [hrp |-> alpha, ver |-> v, data |-> p, fives |-> FALSE]
Raw(d)    == [hrp |-> alpha, ver |-> 1, data |-> d, fives |-> TRUE]

Spelled == <<
  B58(0, H(1, 20)), B58(5, H(2, 20)), B58(196, H(5, 20)), B58(0, <<0, 0>> \o H(7, 18)),
  Seg(0, H(3, 20)), Seg(0, H(4, 32)), Seg(1, H(6, 40)), Seg(16, H(6, 2)),
  Seg(0, H(3, 21)), Seg(17, H(3, 20)), Seg(1, H(3, 41)), Seg(1, H(3, 1)),
  Raw(H(3, 32)), Raw(H(3, 20)) >>

\* The raw ones: a last value with a bit too many, and one value too many.
Values(e) ==
  LET fives == Fives(e.data)
      n == Len(fives)
  IN  <<e.ver>> \o (IF ~e.fives THEN fives
                    ELSE IF Len(e.data) = 32 THEN [fives EXCEPT ![n] = 17]
                    ELSE Append(fives, 0))

Texts == [i \in 1 .. Len(Spelled) |->
            LET e == Spelled[i]
            IN  IF e.hrp = <<>> THEN Base58Check(e.ver, e.data) ELSE Bech32(e.hrp, Values(e))]

UpCase(s) == [i \in 1 .. Len(s) |-> IF Lower(s[i]) THEN s[i] - 32 ELSE s[i]]
Change(s, i) == ReplaceAt(s, i, IF s[i] = 113 THEN 112 ELSE 113)

\* A line and the script it stands for, <<>> for none.
Good(t) == <<
  <<t[1], P2PKH(H(1, 20))>>,
  <<<<32, 9>> \o t[2] \o <<32, 13>>, P2SH(H(2, 20))>>,
  <<t[3] \o <<35, 120, 32>>, P2SH(H(5, 20))>>,
  <<t[4], P2PKH(<<0, 0>> \o H(7, 18))>>,
  <<t[5], Wit(0, H(3, 20))>>,
  <<UpCase(t[6]), Wit(0, H(4, 32))>>,
  <<t[7], Wit(1, H(6, 40))>>,
  <<t[8], Wit(16, H(6, 2))>> >>

Wrong(t) == <<
  <<>>, <<32, 32>>, <<35>> \o t[1],
  Change(t[1], 20), Change(t[1], 34), <<One>> \o t[1], Tail(t[1]), Tail(t[4]),
  SubSeq(t[1], 1, 33),
  Change(t[5], 2), Change(t[5], 10), Change(t[5], Len(t[5])), SubSeq(t[5], 1, Len(t[5]) - 1),
  UpCase(SubSeq(t[5], 1, 9)) \o SubSeq(t[5], 10, Len(t[5])),
  SubSeq(t[5], 6, Len(t[5])),
  t[9], t[10], t[11], t[12], t[13], t[14] >>

\* Good and wrong lines in turn.
Lines(gs, ws) ==
  LET n == Len(gs) + Len(ws)
      at(i) == IF i > 2 * Len(gs) THEN i - Len(gs) ELSE i \div 2
  IN  [i \in 1 .. n |-> IF i % 2 = 1 /\ i < 2 * Len(gs)
                        THEN gs[i \div 2 + 1] ELSE <<ws[at(i)], <<>>>>]

File(n, ls) ==
  [name |-> n,
   text |-> FlattenSeq([i \in 1 .. Len(ls) |-> ls[i][1] \o <<10>>]),
   scripts |-> SelectSeq([i \in 1 .. Len(ls) |-> ls[i][2]], LAMBDA s : s # <<>>)]

\* "long": a comment that outgrows the buffer, with an address in the rest.
FilesOf(t, good, wrong) == {
  File("all", Lines(good, wrong)),
  File("wrong", Lines(<<>>, wrong)),
  File("two", <<good[1], good[5]>>),
  [File("nonl", <<good[2], good[8]>>) EXCEPT !.text = SubSeq(@, 1, Len(@) - 1)],
  [name |-> "long", text |-> [i \in 1 .. 255 |-> 35] \o t[5], scripts |-> <<>>] }

FilesOfTexts(t) == FilesOf(t, Good(t), Wrong(t))
MCFiles == FilesOfTexts(Texts)

Plain == [bad |-> {}, segwit |-> FALSE, append |-> FALSE, submitcb |-> FALSE,
          height |-> 500000, curtime |-> 700, epoch |-> 100, txs |-> <<>>,
          cbtxn |-> 0, aux |-> <<>>]

Members == {"height", "version", "previousblockhash", "rx_epoch_duration", "curtime",
            "bits", "transactions", "coinbasetxn", "coinbasevalue", "hash", "txid",
            "data", "target", "workid"}
Heights == {1, 16, 17, 127, 128, 255, 256, 32767, 32768, 8388607, 8388608, 16777216, 2147483647}
Auxes == {<<5>>, <<69>>, <<70>>, <<71>>, <<72>>, <<93>>, <<94>>, <<95>>, <<96>>, <<97>>,
          <<100>>, <<60, 60>>, <<60, 30>>, <<5, -1, 7>>, <<101, 5>>}

MCTemplates ==
       {[Plain EXCEPT !.height = h] : h \in Heights}
  \cup {[Plain EXCEPT !.segwit = s, !.txs = [i \in 1 .. n |-> i], !.submitcb = n = 4] :
          s \in BOOLEAN, n \in 0 .. 7}
  \cup {[Plain EXCEPT !.aux = a, !.segwit = TRUE] : a \in Auxes}
  \cup {[Plain EXCEPT !.aux = a, !.cbtxn = c, !.append = p] :
          a \in {<<5>>, <<50>>}, c \in {4, 50, 97}, p \in BOOLEAN}
  \cup {[Plain EXCEPT !.bad = {m}, !.segwit = s, !.txs = <<1>>] : m \in Members, s \in BOOLEAN}

MCFew == {Plain, [Plain EXCEPT !.segwit = TRUE, !.txs = <<1, 2>>, !.height = 128]}

MCConfigKeys == <<"coinbase-sig", "afile", "url http">>
=============================================================================

------------------------ MODULE RetrievalToolsProofs ------------------------
(***************************************************************************)
(* Proofs about RetrievalTools: over any files, any budget and any calls,  *)
(* edits, index runs, crashes and resumptions, the budget is kept, what is *)
(* delivered is paid for, and what is delivered is exact.                  *)
(***************************************************************************)
EXTENDS RetrievalTools, PythonSourceProofs, SequenceTheorems

-----------------------------------------------------------------------------
(* The sum of a ledger: its recursive function exists, and what it gives   *)
(* depends on the tokens alone.                                            *)

Sums(s, entries, m) ==
    s[0] = 0 /\ \A n \in 1 .. m : s[n] = s[n - 1] + entries[n].tokens

LEMMA SumExists ==
  ASSUME NEW entries, NEW m \in Nat
  PROVE  \E s : s = [n \in 0 .. m |-> IF n = 0 THEN 0 ELSE s[n - 1] + entries[n].tokens]
  <1>. DEFINE Step(s, k) == [n \in 0 .. k |-> IF n = 0 THEN 0 ELSE s[n - 1] + entries[n].tokens]
              Bad == {k \in Nat : \A s : s # Step(s, k)}
  <1>1. ASSUME Bad # {} PROVE FALSE
    <2>1. PICK k \in Bad : \A j \in Bad : k <= j
      <3>. HIDE DEF Bad
      <3>1. Bad \subseteq Nat
        BY DEF Bad
      <3>. QED
        BY <1>1, <3>1, LeastOf
    <2>2. k \in Nat /\ \A s : s # Step(s, k)
      BY <2>1
    <2>. HIDE DEF Step
    <2>3. CASE k = 0
      <3>1. [n \in 0 .. 0 |-> 0] = Step([n \in 0 .. 0 |-> 0], 0)
        BY DEF Step
      <3>. QED
        BY <2>2, <2>3, <3>1
    <2>4. CASE k > 0
      <3>1. k - 1 \in Nat /\ k - 1 \notin Bad
        BY <2>1, <2>2, <2>4
      <3>2. PICK s : s = Step(s, k - 1)
        BY <3>1
      <3>. DEFINE t == [n \in 0 .. k |-> IF n = k THEN s[k - 1] + entries[k].tokens ELSE s[n]]
      <3>3. \A n \in 0 .. k - 1 : s[n] = IF n = 0 THEN 0 ELSE s[n - 1] + entries[n].tokens
        BY <3>2, Zenon DEF Step
      <3>4. \A n \in 0 .. k : t[n] = IF n = 0 THEN 0 ELSE t[n - 1] + entries[n].tokens
        BY <2>2, <2>4, <3>3
      <3>5. t = Step(t, k)
        <4>1. t = [n \in 0 .. k |-> t[n]]
          OBVIOUS
        <4>. HIDE DEF t
        <4>. QED
          BY <3>4, <4>1 DEF Step
      <3>. QED
        BY <2>2, <3>5
    <2>. QED
      BY <2>2, <2>3, <2>4
  <1>2. m \notin Bad
    BY <1>1
  <1>. QED
    BY <1>2

LEMMA SumIs ==
  ASSUME NEW entries, Len(entries) \in Nat
  PROVE  \E s : SumTokens(entries) = s[Len(entries)] /\ Sums(s, entries, Len(entries))
  <1>. DEFINE m == Len(entries)
              Step(g) == [n \in 0 .. m |-> IF n = 0 THEN 0 ELSE g[n - 1] + entries[n].tokens]
              s == CHOOSE g : g = Step(g)
  <1>1. SumTokens(entries) = s[m]
    BY Zenon DEF SumTokens
  <1>2. \E g : g = Step(g)
    BY SumExists
  <1>3. s = Step(s)
    <2>. HIDE DEF Step
    <2>. QED
      BY <1>2, Zenon
  <1>. HIDE DEF s, m
  <1>4. \A n \in 0 .. m : s[n] = IF n = 0 THEN 0 ELSE s[n - 1] + entries[n].tokens
    BY <1>3, Zenon
  <1>5. Sums(s, entries, m)
    BY <1>4 DEF Sums, m
  <1>. QED
    BY <1>1, <1>5 DEF m

LEMMA SumAgree ==
  ASSUME NEW s, NEW t, NEW entries, NEW others, NEW m \in Nat,
         Sums(s, entries, m), Sums(t, others, m),
         \A n \in 1 .. m : entries[n].tokens = others[n].tokens
  PROVE  s[m] = t[m]
  <1>. DEFINE D == {n \in 0 .. m : s[n] # t[n]}
  <1>1. ASSUME D # {} PROVE FALSE
    <2>1. PICK n \in D : \A j \in D : n <= j
      <3>1. D \subseteq Nat
        OBVIOUS
      <3>. HIDE DEF D
      <3>. QED
        BY <1>1, <3>1, LeastOf
    <2>2. n \in 1 .. m /\ n - 1 \in 0 .. m /\ n - 1 \notin D
      BY <2>1 DEF Sums
    <2>3. s[n - 1] = t[n - 1]
      BY <2>2
    <2>4. s[n] = t[n]
      BY <2>2, <2>3 DEF Sums
    <2>. QED
      BY <2>1, <2>4
  <1>. QED
    BY <1>1

LEMMA SumSame ==
  ASSUME NEW entries, NEW others, Len(entries) \in Nat, Len(others) = Len(entries),
         \A n \in 1 .. Len(entries) : entries[n].tokens = others[n].tokens
  PROVE  SumTokens(entries) = SumTokens(others)
  BY SumIs, SumAgree

(* One more entry adds its tokens. *)
LEMMA SumExtend ==
  ASSUME NEW entries, NEW longer, Len(entries) \in Nat, Len(longer) = Len(entries) + 1,
         \A n \in 1 .. Len(entries) : entries[n].tokens = longer[n].tokens
  PROVE  SumTokens(longer) = SumTokens(entries) + longer[Len(longer)].tokens
  <1>1. PICK s : SumTokens(entries) = s[Len(entries)] /\ Sums(s, entries, Len(entries))
    BY SumIs
  <1>2. PICK t : SumTokens(longer) = t[Len(longer)] /\ Sums(t, longer, Len(longer))
    BY SumIs
  <1>3. Sums(t, longer, Len(entries))
    BY <1>2 DEF Sums
  <1>4. s[Len(entries)] = t[Len(entries)]
    BY <1>1, <1>3, SumAgree
  <1>5. t[Len(longer)] = t[Len(entries)] + longer[Len(longer)].tokens
    BY <1>2 DEF Sums
  <1>. QED
    BY <1>1, <1>2, <1>4, <1>5

LEMMA SumEmpty ==
  ASSUME NEW entries, Len(entries) = 0
  PROVE  SumTokens(entries) = 0
  BY SumIs DEF Sums

LEMMA SumNat ==
  ASSUME NEW entries, Len(entries) \in Nat,
         \A n \in 1 .. Len(entries) : entries[n].tokens \in Nat
  PROVE  SumTokens(entries) \in Nat
  <1>1. PICK s : SumTokens(entries) = s[Len(entries)] /\ Sums(s, entries, Len(entries))
    BY SumIs
  <1>. DEFINE D == {n \in 0 .. Len(entries) : s[n] \notin Nat}
  <1>2. ASSUME D # {} PROVE FALSE
    <2>1. PICK n \in D : \A j \in D : n <= j
      <3>1. D \subseteq Nat
        OBVIOUS
      <3>. HIDE DEF D
      <3>. QED
        BY <1>2, <3>1, LeastOf
    <2>2. n \in 1 .. Len(entries) /\ n - 1 \in 0 .. Len(entries) /\ n - 1 \notin D
      BY <1>1, <2>1 DEF Sums
    <2>3. s[n - 1] \in Nat
      BY <2>2
    <2>4. s[n] \in Nat
      BY <1>1, <2>2, <2>3 DEF Sums
    <2>. QED
      BY <2>1, <2>4
  <1>. QED
    BY <1>1, <1>2

(* A sum of positive numbers is at least their number. *)
LEMMA SumAtLeast ==
  ASSUME NEW entries, Len(entries) \in Nat,
         \A n \in 1 .. Len(entries) : entries[n].tokens \in Nat \ {0}
  PROVE  Len(entries) <= SumTokens(entries)
  <1>1. PICK s : SumTokens(entries) = s[Len(entries)] /\ Sums(s, entries, Len(entries))
    BY SumIs
  <1>. DEFINE D == {n \in 0 .. Len(entries) : ~ (s[n] \in Nat /\ n <= s[n])}
  <1>2. ASSUME D # {} PROVE FALSE
    <2>1. PICK n \in D : \A j \in D : n <= j
      <3>1. D \subseteq Nat
        OBVIOUS
      <3>. HIDE DEF D
      <3>. QED
        BY <1>2, <3>1, LeastOf
    <2>2. n \in 1 .. Len(entries) /\ n - 1 \in 0 .. Len(entries) /\ n - 1 \notin D
      BY <1>1, <2>1 DEF Sums
    <2>3. s[n - 1] \in Nat /\ n - 1 <= s[n - 1]
      BY <2>2
    <2>4. s[n] = s[n - 1] + entries[n].tokens /\ entries[n].tokens \in Nat \ {0}
      BY <1>1, <2>2 DEF Sums
    <2>5. s[n] \in Nat /\ n <= s[n]
      BY <2>2, <2>3, <2>4
    <2>. QED
      BY <2>1, <2>5
  <1>. QED
    BY <1>1, <1>2
-----------------------------------------------------------------------------
(* Prices, and what a ledger has gained since some length of it. *)

ReadOf == [file : Files, source : Sources]

(* budget.estimate_tokens is never zero. *)
LEMMA EstimateIs ==
  ASSUME NEW n \in Nat
  PROVE  Estimate(n) \in Nat \ {0}
  <1>1. LineChars \in Nat
    BY SourceAssumption
  <1>2. LineChars * n \in Nat
    BY <1>1
  <1>. DEFINE x == LineChars * n
  <1>3. x \in Nat
    BY <1>2
  <1>4. Estimate(n) = IF x < 4 THEN 1 ELSE x \div 4
    BY DEF Estimate
  <1>. HIDE DEF x
  <1>. QED
    BY <1>3, <1>4

SpentSince(since, entries) == SumTokens(SubSeq(entries, since + 1, Len(entries)))

LEMMA NothingSpent ==
  ASSUME NEW entries \in Seq(Entry)
  PROVE  SpentSince(Len(entries), entries) = 0
  <1>1. Len(entries) \in Nat
    OBVIOUS
  <1>2. SubSeq(entries, Len(entries) + 1, Len(entries)) = << >>
    BY <1>1, SubSeqEmpty
  <1>3. Len(<< >>) = 0
    OBVIOUS
  <1>4. SumTokens(<< >>) = 0
    BY <1>3, SumEmpty
  <1>. QED
    BY <1>2, <1>4, Zenon DEF SpentSince

LEMMA AppendEntry ==
  ASSUME NEW entries \in Seq(Entry), NEW tool \in Tools, NEW tokens \in Nat \ {0}
  PROVE  LET longer == Append(entries, [tool |-> tool, tokens |-> tokens])
         IN  /\ longer \in Seq(Entry) /\ Len(entries) \in Nat /\ Len(longer) = Len(entries) + 1
             /\ \A n \in 1 .. Len(entries) : longer[n] = entries[n]
             /\ longer[Len(longer)] = [tool |-> tool, tokens |-> tokens]
  <1>. DEFINE e == [tool |-> tool, tokens |-> tokens]
  <1>1. entries \in Seq(Entry) /\ e \in Entry /\ Len(entries) \in Nat
    BY DEF Entry
  <1>. HIDE DEF e
  <1>2. /\ Append(entries, e) \in Seq(Entry) /\ Len(Append(entries, e)) = Len(entries) + 1
        /\ \A n \in 1 .. Len(entries) : Append(entries, e)[n] = entries[n]
        /\ Append(entries, e)[Len(entries) + 1] = e
    BY <1>1, AppendProperties
  <1>. QED
    BY <1>1, <1>2 DEF e

LEMMA LedgerSum ==
  ASSUME NEW entries \in Seq(Entry)
  PROVE  SumTokens(entries) \in Nat
  <1>1. Len(entries) \in Nat /\ \A n \in 1 .. Len(entries) : entries[n] \in Entry
    OBVIOUS
  <1>. QED
    BY <1>1, SumNat DEF Entry

LEMMA LedgerAtLeast ==
  ASSUME NEW entries \in Seq(Entry)
  PROVE  Len(entries) <= SumTokens(entries)
  <1>1. Len(entries) \in Nat /\ \A n \in 1 .. Len(entries) : entries[n] \in Entry
    OBVIOUS
  <1>. QED
    BY <1>1, SumAtLeast DEF Entry

(* A charge adds its tokens to the sum, and to what was spent since any    *)
(* point; what the ledger had stays its beginning (budget.charge).         *)
LEMMA ChargeAdds ==
  ASSUME NEW entries \in Seq(Entry), NEW tool \in Tools, NEW tokens \in Nat \ {0},
         NEW since \in Nat, since <= Len(entries)
  PROVE  LET longer == Append(entries, [tool |-> tool, tokens |-> tokens])
         IN  /\ longer \in Seq(Entry) /\ Len(longer) = Len(entries) + 1
             /\ SumTokens(longer) = SumTokens(entries) + tokens
             /\ SpentSince(since, longer) = SpentSince(since, entries) + tokens
             /\ SubSeq(longer, 1, since) = SubSeq(entries, 1, since)
  <1>. DEFINE longer == Append(entries, [tool |-> tool, tokens |-> tokens])
              new == SubSeq(longer, since + 1, Len(longer))
              old == SubSeq(entries, since + 1, Len(entries))
  <1>1. /\ longer \in Seq(Entry) /\ Len(entries) \in Nat /\ Len(longer) = Len(entries) + 1
        /\ \A n \in 1 .. Len(entries) : longer[n] = entries[n]
        /\ longer[Len(longer)] = [tool |-> tool, tokens |-> tokens]
    BY AppendEntry
  <1>. HIDE DEF longer
  <1>2. SumTokens(longer) = SumTokens(entries) + tokens
    BY <1>1, SumExtend
  <1>3. \A n \in 1 .. Len(entries) : entries[n] \in Entry /\ longer[n] \in Entry
    BY <1>1
  <1>4. \A n \in 1 .. Len(longer) : longer[n] \in Entry
    BY <1>1
  <1>5. SpentSince(since, longer) = SpentSince(since, entries) + tokens
    <2>1. /\ Len(old) = Len(entries) - since
          /\ \A i \in 1 .. Len(entries) - since : old[i] = entries[since + i]
      <3>1. \A i \in since + 1 .. Len(entries) : entries[i] \in Entry
        BY <1>1, <1>3
      <3>2. /\ Len(old) = IF since + 1 <= Len(entries) THEN Len(entries) - (since + 1) + 1 ELSE 0
            /\ \A i \in 1 .. Len(entries) - (since + 1) + 1 : old[i] = entries[(since + 1) + i - 1]
        BY <1>1, <3>1, SubSeqProperties
      <3>. HIDE DEF old
      <3>. QED
        BY <1>1, <3>2
    <2>2. /\ Len(new) = Len(longer) - since
          /\ \A i \in 1 .. Len(longer) - since : new[i] = longer[since + i]
      <3>1. \A i \in since + 1 .. Len(longer) : longer[i] \in Entry
        BY <1>1, <1>4
      <3>2. /\ Len(new) = IF since + 1 <= Len(longer) THEN Len(longer) - (since + 1) + 1 ELSE 0
            /\ \A i \in 1 .. Len(longer) - (since + 1) + 1 : new[i] = longer[(since + 1) + i - 1]
        BY <1>1, <3>1, SubSeqProperties
      <3>. HIDE DEF new
      <3>. QED
        BY <1>1, <3>2
    <2>. HIDE DEF old, new
    <2>3. Len(old) \in Nat /\ Len(new) = Len(old) + 1
      BY <1>1, <2>1, <2>2
    <2>4. \A i \in 1 .. Len(old) : old[i] = new[i]
      BY <1>1, <2>1, <2>2
    <2>5. new[Len(new)] = longer[Len(longer)]
      BY <1>1, <2>1, <2>2
    <2>6. SumTokens(new) = SumTokens(old) + new[Len(new)].tokens
      BY <2>3, <2>4, SumExtend
    <2>. QED
      BY <1>1, <2>5, <2>6 DEF SpentSince, old, new
  <1>6. SubSeq(longer, 1, since) = SubSeq(entries, 1, since)
    <2>1. \A i \in 1 .. since : longer[i] = entries[i] /\ longer[i] \in Entry /\ entries[i] \in Entry
      BY <1>1, <1>3
    <2>. DEFINE a == SubSeq(longer, 1, since)
                b == SubSeq(entries, 1, since)
    <2>2. /\ a \in Seq(Entry) /\ Len(a) = IF 1 <= since THEN since - 1 + 1 ELSE 0
          /\ \A i \in 1 .. since - 1 + 1 : a[i] = longer[1 + i - 1]
      BY <2>1, SubSeqProperties
    <2>3. /\ b \in Seq(Entry) /\ Len(b) = IF 1 <= since THEN since - 1 + 1 ELSE 0
          /\ \A i \in 1 .. since - 1 + 1 : b[i] = entries[1 + i - 1]
      BY <2>1, SubSeqProperties
    <2>. HIDE DEF a, b
    <2>4. /\ Len(a) = since /\ Len(b) = since
          /\ \A i \in 1 .. since : a[i] = b[i]
      BY <2>1, <2>2, <2>3
    <2>5. a = b
      BY <2>2, <2>3, <2>4
    <2>. QED
      BY <2>5 DEF a, b
  <1>. QED
    BY <1>1, <1>2, <1>5, <1>6 DEF longer

LEMMA CostEmpty == CostOf(<< >>) = 0
  <1>. DEFINE priced == [k \in 1 .. Len(<< >>) |->
                        [tokens |-> Estimate(Len(SplitLines(<< >>[k].source)))]]
  <1>1. Len(priced) = 0
    OBVIOUS
  <1>. QED
    BY <1>1, SumEmpty, Zenon DEF CostOf

(* One more file read costs what its text costs. *)
LEMMA CostAppend ==
  ASSUME NEW reads \in Seq(ReadOf), NEW r \in ReadOf
  PROVE  CostOf(Append(reads, r)) = CostOf(reads) + Estimate(Len(SplitLines(r.source)))
  <1>. DEFINE Price(rs, k) == Estimate(Len(SplitLines(rs[k].source)))
              Priced(rs) == [k \in 1 .. Len(rs) |-> [tokens |-> Price(rs, k)]]
              more == Append(reads, r)
  <1>1. /\ Len(reads) \in Nat /\ Len(more) = Len(reads) + 1
        /\ \A k \in 1 .. Len(reads) : more[k] = reads[k]
        /\ more[Len(reads) + 1] = r
    <2>. HIDE DEF ReadOf
    <2>. QED
      BY AppendProperties
  <1>2. ASSUME NEW rs, Len(rs) \in Nat
        PROVE  /\ Len(Priced(rs)) = Len(rs)
               /\ \A k \in 1 .. Len(rs) : Priced(rs)[k].tokens = Price(rs, k)
    BY <1>2
  <1>. HIDE DEF Priced, more
  <1>3. /\ Len(Priced(reads)) \in Nat /\ Len(Priced(more)) = Len(Priced(reads)) + 1
        /\ \A k \in 1 .. Len(Priced(reads)) : Priced(reads)[k].tokens = Priced(more)[k].tokens
        /\ Priced(more)[Len(Priced(more))].tokens = Estimate(Len(SplitLines(r.source)))
    <2>. HIDE DEF Price
    <2>1. \A k \in 1 .. Len(reads) : Price(reads, k) = Price(more, k)
      BY <1>1 DEF Price
    <2>2. Price(more, Len(more)) = Estimate(Len(SplitLines(r.source)))
      BY <1>1 DEF Price
    <2>. QED
      BY <1>1, <1>2, <2>1, <2>2
  <1>4. SumTokens(Priced(more)) = SumTokens(Priced(reads)) + Priced(more)[Len(Priced(more))].tokens
    BY <1>3, SumExtend
  <1>. QED
    BY <1>3, <1>4, Zenon DEF CostOf, Priced, more

(* No file is read for nothing, not even an empty one. *)
LEMMA CostAtLeast ==
  ASSUME NEW reads \in Seq(ReadOf)
  PROVE  Len(reads) <= CostOf(reads)
  <1>. DEFINE Price(k) == Estimate(Len(SplitLines(reads[k].source)))
              priced == [k \in 1 .. Len(reads) |-> [tokens |-> Price(k)]]
  <1>1. Len(reads) \in Nat /\ \A k \in 1 .. Len(reads) : reads[k].source \in Sources
    <2>1. Len(reads) \in Nat /\ \A k \in 1 .. Len(reads) : reads[k] \in ReadOf
      <3>. HIDE DEF ReadOf
      <3>. QED
        OBVIOUS
    <2>. QED
      BY <2>1 DEF ReadOf
  <1>2. \A k \in 1 .. Len(reads) : Price(k) \in Nat \ {0}
    BY <1>1, SplitIs, EstimateIs
  <1>. HIDE DEF Price
  <1>3. Len(priced) = Len(reads) /\ \A k \in 1 .. Len(reads) : priced[k].tokens = Price(k)
    BY <1>1
  <1>. HIDE DEF priced
  <1>4. Len(priced) <= SumTokens(priced)
    BY <1>1, <1>2, <1>3, SumAtLeast
  <1>. QED
    BY <1>3, <1>4, Zenon DEF CostOf, priced, Price
-----------------------------------------------------------------------------
(* Finite sets: what the tools count. *)

LEMMA FiniteImage ==
  ASSUME NEW S, IsFiniteSet(S), NEW f
  PROVE  IsFiniteSet({f[x] : x \in S})
  <1>. DEFINE T == {f[x] : x \in S}
              g == [x \in S |-> f[x]]
  <1>1. g \in Surjection(S, T)
    BY DEF Surjection
  <1>. HIDE DEF g, T
  <1>2. IsFiniteSet(T)
    BY <1>1, FS_Surjection
  <1>. QED
    BY <1>2 DEF T

LEMMA SymbolsFinite ==
  ASSUME NEW source \in Sources
  PROVE  IsFiniteSet(Symbols(source))
  <1>. DEFINE H == {m \in DOMAIN source : Header(source[m])}
              f == [n \in H |-> DefinitionAt(source, n)]
  <1>1. IsFiniteSet(H)
    <2>1. Len(source) \in Int /\ H \in SUBSET (1 .. Len(source))
      BY LineFacts
    <2>2. IsFiniteSet(1 .. Len(source))
      BY <2>1, FS_Interval
    <2>. QED
      BY <2>1, <2>2, FS_Subset
  <1>2. IsFiniteSet({f[n] : n \in H})
    <2>. HIDE DEF f, H
    <2>. QED
      BY <1>1, FiniteImage
  <1>3. Symbols(source) = {f[n] : n \in H}
    <2>1. Symbols(source) = {DefinitionAt(source, n) : n \in H}
      BY SymbolsAreDefinitions DEF Definitions
    <2>. QED
      BY <2>1
  <1>. QED
    BY <1>2, <1>3

(* A definition of a file is at lines of it. *)
LEMMA SymbolLines ==
  ASSUME NEW source \in Sources, NEW s \in Symbols(source)
  PROVE  /\ s.start \in Nat /\ s.end \in Nat /\ Len(source) \in Nat
         /\ 1 <= s.start /\ s.start <= s.end /\ s.end <= Len(source)
  <1>1. PICK n \in DOMAIN source : s = DefinitionAt(source, n)
    BY SymbolsAreDefinitions DEF Definitions
  <1>2. n \in 1 .. Len(source) /\ Len(source) \in Nat
    BY LineFacts
  <1>3. s.start = StartOf(source, n) /\ s.end = EndOf(source, n)
    BY <1>1 DEF DefinitionAt, Sym, StartOf, EndOf
  <1>4. StartOf(source, n) \in 1 .. n
    <2>. DEFINE S == {h \in 1 .. n : \A j \in h .. n - 1 : source[j].kind = "at"}
    <2>1. S \subseteq Nat /\ n \in S /\ S \subseteq 1 .. n
      BY <1>2
    <2>2. Least(S) \in S
      <3>. HIDE DEF S
      <3>. QED
        BY <2>1, LeastIs
    <2>. QED
      BY <2>1, <2>2 DEF StartOf
  <1>5. EndOf(source, n) \in n .. Len(source)
    <2>. DEFINE S == Region(source, n) \union {n}
    <2>1. S \subseteq 0 .. Len(source) /\ n \in S /\ S \subseteq n .. Len(source)
      BY <1>2 DEF Region
    <2>2. Greatest(S) \in S
      <3>. HIDE DEF S
      <3>. QED
        BY <1>2, <2>1, GreatestIs
    <2>. QED
      BY <2>1, <2>2 DEF EndOf
  <1>. QED
    BY <1>2, <1>3, <1>4, <1>5

(* Above the first form feed, the lines of a span are its rows. *)
LEMMA LinesAre ==
  ASSUME NEW source \in Sources, NEW first \in Nat, NEW last \in DOMAIN source,
         1 <= first, first <= last, last \notin Shifted(source)
  PROVE  Lines(source, first, last) = SubSeq(source, first, last)
  <1>. DEFINE Row == [kind : Kinds, depth : Nat, word : Words, feed : BOOLEAN]
              split == SplitLines(source)
  <1>1. last \in 1 .. Len(source) /\ Len(source) \in Nat /\ DOMAIN source = 1 .. Len(source)
    BY LineFacts
  <1>2. \A n \in 1 .. last : n \in DOMAIN source /\ n \notin Shifted(source)
    <2>. SUFFICES ASSUME NEW n \in 1 .. last, n \in Shifted(source) PROVE FALSE
      BY <1>1
    <2>1. PICK m \in 1 .. n : source[m].feed
      BY DEF Shifted
    <2>2. m \in 1 .. last
      BY <1>1, <2>1
    <2>. QED
      BY <2>1, <2>2 DEF Shifted
  <1>3. \A n \in 1 .. last : split[n] = source[n]
    BY <1>2, SplitAt
  <1>4. \A n \in 1 .. last : source[n] \in Row
    <2>1. source \in Seq(Row)
      BY DEF Sources
    <2>. HIDE DEF Row
    <2>. QED
      BY <1>1, <2>1
  <1>5. Lines(source, first, last) = SubSeq(split, first, last)
    <2>1. Len(split) \in Nat /\ last <= Len(split)
      BY <1>1, SplitIs
    <2>. HIDE DEF split
    <2>2. (IF last < Len(split) THEN last ELSE Len(split)) = last
      BY <1>1, <2>1
    <2>. QED
      BY <2>2, Zenon DEF Lines, split
  <1>. HIDE DEF split, Row
  <1>6. \A n \in first .. last : split[n] \in Row /\ source[n] \in Row /\ split[n] = source[n]
    BY <1>1, <1>3, <1>4
  <1>. DEFINE a == SubSeq(split, first, last)
              b == SubSeq(source, first, last)
              size == last - first + 1
  <1>7. /\ a \in Seq(Row) /\ Len(a) = size /\ \A i \in 1 .. size : a[i] = split[first + i - 1]
    BY <1>1, <1>6, SubSeqProperties
  <1>8. /\ b \in Seq(Row) /\ Len(b) = size /\ \A i \in 1 .. size : b[i] = source[first + i - 1]
    BY <1>1, <1>6, SubSeqProperties
  <1>9. \A i \in 1 .. size : first + i - 1 \in first .. last
    BY <1>1
  <1>. HIDE DEF a, b, size
  <1>10. a = b
    BY <1>6, <1>7, <1>8, <1>9
  <1>. QED
    BY <1>5, <1>10 DEF a, b

(* The table has rows of at most one parse of a file: its entries are      *)
(* finitely many, each a definition of the content it is of.               *)
OneParse(entries) ==
    entries = {} \/ \E source \in Sources, i \in Runs : entries = {[of |-> source, by |-> i]}

LEMMA TableIs ==
  ASSUME \A f \in Files : OneParse(rows[f])
  PROVE  /\ IsFiniteSet(SymbolTable)
         /\ \A x : x \in SymbolTable <=>
               \E f \in Files : \E r \in rows[f] : \E s \in Symbols(r.of) :
                  x = [sym |-> s, file |-> f, of |-> r.of]
         /\ \A f \in Files : \A r \in rows[f] : r.of \in Sources
  <1>. DEFINE OfRow(f, r) == {[sym |-> s, file |-> f, of |-> r.of] : s \in Symbols(r.of)}
              OfFile(f) == UNION {OfRow(f, r) : r \in rows[f]}
              Each == [f \in Files |-> OfFile(f)]
  <1>1. ASSUME NEW f \in Files, NEW r \in rows[f]
        PROVE  r.of \in Sources
    BY <1>1 DEF OneParse
  <1>2. ASSUME NEW f \in Files, NEW r \in rows[f]
        PROVE  IsFiniteSet(OfRow(f, r))
    <2>. DEFINE g == [s \in Symbols(r.of) |-> [sym |-> s, file |-> f, of |-> r.of]]
    <2>1. IsFiniteSet(Symbols(r.of))
      BY <1>1, <1>2, SymbolsFinite
    <2>2. IsFiniteSet({g[s] : s \in Symbols(r.of)})
      <3>. HIDE DEF g
      <3>. QED
        BY <2>1, FiniteImage
    <2>3. OfRow(f, r) = {g[s] : s \in Symbols(r.of)}
      OBVIOUS
    <2>. QED
      BY <2>2, <2>3
  <1>3. ASSUME NEW f \in Files
        PROVE  IsFiniteSet(OfFile(f))
    <2>1. CASE rows[f] = {}
      <3>1. OfFile(f) = {}
        BY <2>1
      <3>. QED
        BY <3>1, FS_EmptySet
    <2>2. CASE rows[f] # {}
      <3>1. PICK r \in rows[f] : rows[f] = {r}
        BY <1>3, <2>2 DEF OneParse
      <3>2. OfFile(f) = OfRow(f, r)
        <4>. HIDE DEF OfRow
        <4>. QED
          BY <3>1
      <3>. QED
        BY <1>2, <3>2
    <2>. QED
      BY <2>1, <2>2
  <1>4. IsFiniteSet({Each[f] : f \in Files})
    <2>1. IsFiniteSet(Files)
      BY RetrievalAssumption
    <2>. HIDE DEF Each
    <2>. QED
      BY <2>1, FiniteImage
  <1>5. IsFiniteSet(UNION {Each[f] : f \in Files})
    <2>1. \A T \in {Each[f] : f \in Files} : IsFiniteSet(T)
      <3>. HIDE DEF OfFile
      <3>. QED
        BY <1>3
    <2>. HIDE DEF Each
    <2>. QED
      BY <1>4, <2>1, FS_UNION
  <1>6. SymbolTable = UNION {Each[f] : f \in Files}
    <2>1. SymbolTable = UNION {OfFile(f) : f \in Files}
      BY Zenon DEF SymbolTable
    <2>. HIDE DEF OfFile
    <2>. QED
      BY <2>1
  <1>7. \A x : x \in SymbolTable <=>
               \E f \in Files : \E r \in rows[f] : \E s \in Symbols(r.of) :
                  x = [sym |-> s, file |-> f, of |-> r.of]
    BY DEF SymbolTable
  <1>. QED
    BY <1>1, <1>5, <1>6, <1>7

LEMMA ListingCost ==
  ASSUME NEW d
  PROVE  ListCost(Cardinality(Entries(d))) \in Nat \ {0}
  <1>. DEFINE A == {g \in {f \in Files : disk[f] # None} : Dir[g] = d}
              B == {g \in {f \in Files : disk[f] # None} : d = "." /\ Dir[g] # "."}
              a == [f \in A |-> <<d, f>>]
              b == [f \in B |-> <<Dir[f], None>>]
  <1>1. IsFiniteSet(A) /\ IsFiniteSet(B)
    <2>1. IsFiniteSet(Files) /\ A \in SUBSET Files /\ B \in SUBSET Files
      BY RetrievalAssumption
    <2>. QED
      BY <2>1, FS_Subset
  <1>2. Entries(d) = {a[f] : f \in A} \union {b[f] : f \in B}
    <2>1. Entries(d) = {<<d, f>> : f \in A} \union {<<Dir[f], None>> : f \in B}
      BY Zenon DEF Entries
    <2>. QED
      BY <2>1
  <1>. HIDE DEF A, B, a, b
  <1>3. IsFiniteSet({a[f] : f \in A}) /\ IsFiniteSet({b[f] : f \in B})
    BY <1>1, FiniteImage
  <1>4. IsFiniteSet(Entries(d))
    BY <1>2, <1>3, FS_Union
  <1>5. Cardinality(Entries(d)) \in Nat
    BY <1>4, FS_CardinalityType
  <1>. QED
    BY <1>5 DEF ListCost

(* What may be left of a file after an edit is a file that parses. *)
LEMMA NoteFirst ==
  ASSUME NEW source \in Sources, NEW w \in Words
  PROVE  <<[kind |-> "note", depth |-> 0, word |-> w, feed |-> FALSE]>> \o source \in Sources
  <1>. DEFINE Line == [kind : Kinds, depth : Nat, word : Words, feed : BOOLEAN]
              note == [kind |-> "note", depth |-> 0, word |-> w, feed |-> FALSE]
              new == <<note>> \o source
  <1>1. note \in Line /\ source \in Seq(Line)
    BY DEF Kinds, Sources
  <1>2. /\ new \in Seq(Line) /\ Len(new) = Len(source) + 1 /\ new[1] = note
        /\ \A n \in 1 .. Len(source) : new[n + 1] = source[n]
    <2>. HIDE DEF Line, note
    <2>. QED
      BY <1>1
  <1>3. \A n \in 2 .. Len(new) : Follows(new[n], new[n - 1])
    <2>. SUFFICES ASSUME NEW n \in 2 .. Len(new) PROVE Follows(new[n], new[n - 1])
      OBVIOUS
    <2>1. Len(source) \in Nat /\ n - 1 \in 1 .. Len(source) /\ new[n] = source[n - 1]
      <3>1. n - 1 \in 1 .. Len(source) /\ (n - 1) + 1 = n
        BY <1>1, <1>2
      <3>. HIDE DEF new
      <3>. QED
        BY <1>1, <1>2, <3>1
    <2>2. CASE n = 2
      <3>1. new[n - 1] = note /\ new[n].depth = 0
        BY <1>2, <2>1, <2>2, LineFacts
      <3>. QED
        BY <3>1 DEF Follows, Opens
    <2>3. CASE n > 2
      <3>1. n - 2 \in 1 .. Len(source) /\ (n - 2) + 1 = n - 1 /\ (n - 1) - 1 = n - 2
        BY <2>1, <2>3
      <3>2. new[n - 1] = source[n - 2]
        <4>. HIDE DEF new
        <4>. QED
          BY <1>2, <3>1
      <3>. QED
        BY <2>1, <2>3, <3>1, <3>2, LineFacts
    <2>. QED
      BY <2>2, <2>3
  <1>4. Complete(new)
    <2>1. Len(source) \in Nat
      BY <1>1
    <2>2. CASE Len(source) = 0
      BY <1>2, <2>2 DEF Complete, Opens
    <2>3. CASE Len(source) > 0
      <3>1. new[Len(new)] = source[Len(source)]
        BY <1>2, <2>1, <2>3
      <3>. QED
        BY <2>3, <3>1, LineFacts DEF Complete
    <2>. QED
      BY <2>1, <2>2, <2>3
  <1>5. new[1].depth = 0
    BY <1>2
  <1>. HIDE DEF new
  <1>6. new \in Sources
    BY <1>2, <1>3, <1>4, <1>5 DEF Sources
  <1>. QED
    BY <1>6 DEF new

LEMMA LastGone ==
  ASSUME NEW source \in Sources, Complete(SubSeq(source, 1, Len(source) - 1))
  PROVE  SubSeq(source, 1, Len(source) - 1) \in Sources
  <1>. DEFINE Line == [kind : Kinds, depth : Nat, word : Words, feed : BOOLEAN]
              new == SubSeq(source, 1, Len(source) - 1)
              m == Len(source) - 1
  <1>1. source \in Seq(Line) /\ Len(source) \in Nat
    BY DEF Sources
  <1>2. CASE Len(source) = 0
    <2>1. new = << >>
      BY <1>2, SubSeqEmpty
    <2>2. << >> \in Sources
      BY DEF Sources, Complete
    <2>. QED
      BY <2>1, <2>2
  <1>3. CASE Len(source) > 0
    <2>1. m \in Nat /\ \A i \in 1 .. m : source[i] \in Line
      <3>. HIDE DEF Line
      <3>. QED
        BY <1>1, <1>3
    <2>2. /\ new \in Seq(Line) /\ Len(new) = m
          /\ \A i \in 1 .. m : new[i] = source[i]
      <3>1. /\ new \in Seq(Line) /\ Len(new) = IF 1 <= m THEN m - 1 + 1 ELSE 0
            /\ \A i \in 1 .. m - 1 + 1 : new[i] = source[1 + i - 1]
        <4>. HIDE DEF Line
        <4>. QED
          BY <2>1, SubSeqProperties
      <3>. HIDE DEF new, Line, m
      <3>2. ASSUME NEW i \in 1 .. m PROVE new[i] = source[i]
        <4>1. i \in 1 .. m - 1 + 1 /\ 1 + i - 1 = i
          BY <2>1
        <4>. QED
          BY <3>1, <4>1
      <3>3. Len(new) = m
        BY <2>1, <3>1
      <3>. QED
        BY <3>1, <3>2, <3>3
    <2>. HIDE DEF new
    <2>3. \A n \in 2 .. Len(new) : Follows(new[n], new[n - 1])
      <3>. SUFFICES ASSUME NEW n \in 2 .. Len(new) PROVE Follows(new[n], new[n - 1])
        OBVIOUS
      <3>1. n \in 1 .. m /\ n - 1 \in 1 .. m /\ n \in 1 .. Len(source) /\ n > 1
        BY <1>1, <2>1, <2>2
      <3>. QED
        BY <2>2, <3>1, LineFacts
    <2>4. new # << >> => new[1].depth = 0
      <3>1. new # << >> => 1 \in 1 .. m
        BY <2>1, <2>2
      <3>. QED
        BY <1>3, <2>2, <3>1, LineFacts
    <2>. QED
      BY <2>2, <2>3, <2>4 DEF Sources, new
  <1>. QED
    BY <1>1, <1>2, <1>3
-----------------------------------------------------------------------------
(* The inductive invariant.  What the properties say of a call that has    *)
(* ended, its steps need of one in progress: what the ledger gained since  *)
(* it began, what it has read and found, and which row it was that it      *)
(* found.                                                                  *)

Statuses == {"none", "found", "scanning", "ok", "error", "ambiguous", "exhausted"}

IsCall(c) ==
    /\ c = [tool |-> c.tool, status |-> c.status, word |-> c.word, parent |-> c.parent,
            sym |-> c.sym, files |-> c.files, saw |-> c.saw, data |-> c.data,
            charged |-> c.charged, since |-> c.since]
    /\ c.tool \in Tools \union {"none"} /\ c.status \in Statuses
    /\ c.status = "found" => c.tool = "definition"
    /\ c.status = "scanning" => c.tool \in Scans
    /\ c.files \subseteq Files /\ c.saw \in Seq(ReadOf)
    /\ c.charged \in Nat /\ c.since \in Nat

FilesOf(c) == {c.saw[k].file : k \in DOMAIN c.saw}
RowsOf(tool, source, word) ==
    IF tool = "references" THEN Uses(source, word) ELSE Matches(source, word)
HitAt(r, n) == [file |-> r.file, line |-> n, text |-> SplitLines(r.source)[n]]
HitsIn(tool, r, word) == {HitAt(r, n) : n \in RowsOf(tool, r.source, word)}
HitsOf(c) ==
    UNION {HitsIn(c.tool, r, c.word) : r \in {c.saw[k] : k \in DOMAIN c.saw}}

(* what it has paid: the files read, or nothing before the result *)
PaidSoFar(c, entries) ==
    /\ c.since <= Len(entries)
    /\ c.tool \in Scans => SpentSince(c.since, entries) = CostOf(c.saw)
    /\ c.tool \notin Scans /\ c.status \notin {"none", "ok"} =>
          SpentSince(c.since, entries) = 0
    /\ c.status \in {"scanning", "ok"} => c.charged = SpentSince(c.since, entries)
    /\ c.tool \in {"read_span", "definition"} /\ c.status = "ok" =>
          SpentSince(c.since, entries) = Estimate(Len(c.data))
    /\ c.tool \notin Scans /\ c.status = "ok" => c.charged >= 1

(* a search has the hits of the files read, when it ends of all files *)
ScanSoFar(c) ==
    /\ c.tool \in Scans =>
          /\ FilesOf(c) \subseteq c.files
          /\ c.status \in {"scanning", "ok"} => c.word \in Words /\ c.data = HitsOf(c)
          /\ c.status = "ok" => c.files \subseteq FilesOf(c)
    /\ c.status \in {"error", "ambiguous", "exhausted"} => c.data = {}

(* a definition has the one symbol of that name in the file as indexed *)
FoundSoFar(c) ==
    c.tool = "definition" =>
        /\ c.status \in {"found", "ok"} =>
              /\ c.sym.file \in Files /\ c.sym.of \in Sources
              /\ {s \in Symbols(c.sym.of) : s.name = c.word /\ c.parent \in {None, s.parent}}
                    = {c.sym.sym}
        /\ c.status = "ok" =>
              /\ c.saw[1].source \in Sources
              /\ c.data = Lines(c.saw[1].source, c.sym.sym.start, c.sym.sym.end)

CallOK(c, entries) ==
    /\ IsCall(c) /\ (c.tool = "none" <=> c.status = "none")
    /\ PaidSoFar(c, entries) /\ ScanSoFar(c) /\ FoundSoFar(c)

WorldOK ==
    /\ disk \in [Files -> Sources \union {None, Huge}]
    /\ \A f \in Files : OneParse(rows[f])

BudgetOK ==
    /\ max_tokens \in Nat /\ ledger \in Seq(Entry)
    /\ used = SumTokens(ledger) /\ used <= max_tokens

CheckpointOK ==
    checkpoint # None =>
        /\ checkpoint.ledger \in Seq(Entry)
        /\ checkpoint.max_tokens = max_tokens
        /\ checkpoint.used_tokens = SumTokens(checkpoint.ledger)
        /\ checkpoint.used_tokens <= max_tokens
        /\ Len(checkpoint.ledger) <= Len(ledger)
        /\ checkpoint.ledger = SubSeq(ledger, 1, Len(checkpoint.ledger))

IInv == WorldOK /\ BudgetOK /\ CheckpointOK /\ CallOK(call, ledger)
-----------------------------------------------------------------------------
(* The ways in which a call goes on: Charge, Raise and Return. *)

LEMMA SameBudget ==
  ASSUME BudgetOK, CheckpointOK, UNCHANGED <<budget, checkpoint>>
  PROVE  BudgetOK' /\ CheckpointOK'
  BY DEF BudgetOK, CheckpointOK, budget

LEMMA ChargeKeeps ==
  ASSUME BudgetOK, CheckpointOK, NEW tool \in Tools, NEW tokens \in Nat \ {0},
         Affordable(tokens), Charge(tool, tokens), UNCHANGED checkpoint
  PROVE  /\ BudgetOK' /\ CheckpointOK'
         /\ \A since \in Nat : since <= Len(ledger) =>
               /\ since <= Len(ledger')
               /\ SpentSince(since, ledger') = SpentSince(since, ledger) + tokens
  <1>1. /\ ledger \in Seq(Entry) /\ Len(ledger) \in Nat /\ used = SumTokens(ledger)
        /\ used \in Nat /\ max_tokens \in Nat /\ used + tokens <= max_tokens
        /\ ledger' = Append(ledger, [tool |-> tool, tokens |-> tokens])
        /\ used' = used + tokens /\ max_tokens' = max_tokens
    BY LedgerSum DEF BudgetOK, Affordable, remaining, Charge
  <1>2. /\ ledger' \in Seq(Entry) /\ Len(ledger') = Len(ledger) + 1
        /\ SumTokens(ledger') = SumTokens(ledger) + tokens
    BY <1>1, ChargeAdds
  <1>3. \A since \in Nat : since <= Len(ledger) =>
           /\ SpentSince(since, ledger') = SpentSince(since, ledger) + tokens
           /\ SubSeq(ledger', 1, since) = SubSeq(ledger, 1, since)
    BY <1>1, ChargeAdds
  <1>4. BudgetOK'
    BY <1>1, <1>2 DEF BudgetOK
  <1>5. CheckpointOK'
    <2>. SUFFICES ASSUME checkpoint # None PROVE CheckpointOK'
      BY DEF CheckpointOK
    <2>. DEFINE k == Len(checkpoint.ledger)
    <2>1. k \in Nat /\ k <= Len(ledger)
      BY DEF CheckpointOK
    <2>2. SubSeq(ledger', 1, k) = SubSeq(ledger, 1, k)
      BY <1>3, <2>1
    <2>. HIDE DEF k
    <2>3. k <= Len(ledger')
      BY <1>1, <1>2, <2>1
    <2>. QED
      BY <1>1, <2>2, <2>3 DEF CheckpointOK, k
  <1>. QED
    BY <1>1, <1>2, <1>3, <1>4, <1>5

(* a call that may yet raise *)
Pending(c, entries) ==
    /\ IsCall(c) /\ c.tool \in Tools /\ c.since <= Len(entries)
    /\ c.tool \in Scans => /\ SpentSince(c.since, entries) = CostOf(c.saw)
                           /\ FilesOf(c) \subseteq c.files
    /\ c.tool \notin Scans => SpentSince(c.since, entries) = 0

LEMMA FreshPending ==
  ASSUME NEW tool \in Tools, ledger \in Seq(Entry)
  PROVE  /\ Pending(Fresh(tool), ledger) /\ Fresh(tool).tool = tool
         /\ Fresh(tool).saw = << >>
  <1>. DEFINE c == Fresh(tool)
  <1>1. c = [tool |-> tool, status |-> "none", word |-> None, parent |-> None,
             sym |-> None, files |-> {}, saw |-> <<>>, data |-> {}, charged |-> 0,
             since |-> Len(ledger)]
    BY DEF Fresh, NewCall
  <1>2. Len(ledger) \in Nat
    OBVIOUS
  <1>3. IsCall(c)
    BY <1>1, <1>2 DEF IsCall, Tools, Statuses
  <1>4. SpentSince(c.since, ledger) = 0 /\ CostOf(c.saw) = 0 /\ c.since <= Len(ledger)
    BY <1>1, <1>2, NothingSpent, CostEmpty
  <1>5. FilesOf(c) = {}
    <2>1. DOMAIN << >> = {}
      OBVIOUS
    <2>. QED
      BY <1>1, <2>1 DEF FilesOf
  <1>. HIDE DEF c
  <1>6. c.tool = tool /\ c.saw = << >> /\ c.tool \in Tools
    BY <1>1
  <1>7. Pending(c, ledger)
    BY <1>3, <1>4, <1>5, <1>6 DEF Pending
  <1>. QED
    BY <1>6, <1>7 DEF c

LEMMA RaiseKeeps ==
  ASSUME NEW rec, NEW error \in {"error", "ambiguous", "exhausted"},
         BudgetOK, CheckpointOK, Pending(rec, ledger), Raise(rec, error), UNCHANGED checkpoint
  PROVE  BudgetOK' /\ CheckpointOK' /\ CallOK(call', ledger')
  <1>. DEFINE c == call'
  <1>1. BudgetOK' /\ CheckpointOK' /\ ledger' = ledger
    BY SameBudget DEF Raise, budget
  <1>2. c = [rec EXCEPT !.status = error, !.data = {}, !.charged = 0]
    BY DEF Raise
  <1>. HIDE DEF c
  <1>3. /\ c.tool = rec.tool /\ c.status = error /\ c.files = rec.files /\ c.saw = rec.saw
        /\ c.since = rec.since /\ c.data = {}
        /\ IsCall(c)
    BY <1>2 DEF Pending, IsCall, Statuses
  <1>4. PaidSoFar(c, ledger)
    BY <1>3 DEF Pending, PaidSoFar
  <1>5. ScanSoFar(c)
    BY <1>3 DEF Pending, ScanSoFar, FilesOf
  <1>6. FoundSoFar(c)
    BY <1>3 DEF FoundSoFar
  <1>7. c.tool # "none" /\ c.status # "none"
    BY <1>3 DEF Pending, Tools
  <1>. QED
    BY <1>1, <1>3, <1>4, <1>5, <1>6, <1>7 DEF CallOK, c

LEMMA ReturnKeeps ==
  ASSUME NEW rec, NEW cost \in Nat \ {0}, NEW data,
         BudgetOK, CheckpointOK, Pending(rec, ledger), rec.tool \notin Scans,
         rec.tool \in {"read_span", "definition"} => cost = Estimate(Len(data)),
         FoundSoFar([rec EXCEPT !.status = "ok", !.data = data, !.charged = cost]),
         Return(rec, cost, data), UNCHANGED checkpoint
  PROVE  BudgetOK' /\ CheckpointOK' /\ CallOK(call', ledger')
  <1>1. CASE Affordable(cost)
    <2>. DEFINE c == call'
    <2>1. Charge(rec.tool, cost) /\ c = [rec EXCEPT !.status = "ok", !.data = data, !.charged = cost]
      BY <1>1 DEF Return
    <2>2. /\ rec.tool \in Tools /\ rec.since \in Nat /\ rec.since <= Len(ledger)
          /\ SpentSince(rec.since, ledger) = 0
      BY DEF Pending, IsCall
    <2>3. /\ BudgetOK' /\ CheckpointOK' /\ rec.since <= Len(ledger')
          /\ SpentSince(rec.since, ledger') = cost
      BY <1>1, <2>1, <2>2, ChargeKeeps
    <2>. HIDE DEF c
    <2>4. /\ c.tool = rec.tool /\ c.status = "ok" /\ c.data = data /\ c.charged = cost
          /\ c.since = rec.since /\ IsCall(c) /\ c.tool \in Tools
      BY <2>1 DEF Pending, IsCall, Statuses
    <2>5. PaidSoFar(c, ledger')
      BY <2>3, <2>4 DEF PaidSoFar
    <2>6. ScanSoFar(c)
      BY <2>4 DEF ScanSoFar
    <2>7. FoundSoFar(c)
      BY <2>1
    <2>8. c.tool # "none"
      BY <2>4 DEF Tools
    <2>. QED
      BY <2>3, <2>4, <2>5, <2>6, <2>7, <2>8 DEF CallOK, c
  <1>2. CASE ~ Affordable(cost)
    BY <1>2, RaiseKeeps DEF Return
  <1>. QED
    BY <1>1, <1>2

Row(c) ==
    /\ c.sym.file \in Files /\ c.sym.of \in Sources
    /\ {s \in Symbols(c.sym.of) : s.name = c.word /\ c.parent \in {None, s.parent}}
          = {c.sym.sym}

(* read_span, for its own sake and for definition *)
LEMMA SpanKeeps ==
  ASSUME NEW rec, NEW f \in Files, NEW first \in Nat, NEW last \in Nat,
         WorldOK, BudgetOK, CheckpointOK, Pending(rec, ledger),
         rec.tool \in {"read_span", "definition"},
         rec.tool = "definition" =>
            Row(rec) /\ first = rec.sym.sym.start /\ last = rec.sym.sym.end,
         ReturnSpan(rec, f, first, last), UNCHANGED checkpoint
  PROVE  BudgetOK' /\ CheckpointOK' /\ CallOK(call', ledger')
  <1>1. CASE Readable(f) /\ CanRead(disk[f], first, last)
    <2>. DEFINE data == Lines(disk[f], first, last)
                cost == SpanCost(disk[f], first, last)
                read == [rec EXCEPT !.saw = <<Read(f)>>]
                done == [read EXCEPT !.status = "ok", !.data = data, !.charged = cost]
    <2>1. disk[f] \in Sources
      BY <1>1 DEF WorldOK, Readable
    <2>2. Len(data) \in Nat
      <3>. DEFINE Line == [kind : Kinds, depth : Nat, word : Words, feed : BOOLEAN]
                             \union {PageBreak}
                  split == SplitLines(disk[f])
                  to == IF last < Len(split) THEN last ELSE Len(split)
      <3>1. Len(split) \in Nat /\ split \in Seq(Line) /\ 1 <= first
        BY <1>1, <2>1, SplitIs DEF CanRead
      <3>. HIDE DEF Line, split
      <3>2. \A i \in 1 .. Len(split) : split[i] \in Line
        BY <3>1
      <3>3. to \in Nat /\ to <= Len(split)
        BY <3>1
      <3>. HIDE DEF to
      <3>4. \A i \in first .. to : split[i] \in Line
        BY <3>1, <3>2, <3>3
      <3>5. Len(SubSeq(split, first, to)) = IF first <= to THEN to - first + 1 ELSE 0
        BY <3>3, <3>4, SubSeqProperties
      <3>6. Len(SubSeq(split, first, to)) \in Nat
        BY <3>3, <3>5
      <3>. QED
        BY <3>6 DEF Lines, to, split
    <2>3. cost = Estimate(Len(data)) /\ cost \in Nat \ {0}
      BY <2>2, EstimateIs DEF SpanCost
    <2>. HIDE DEF data, cost
    <2>4. <<Read(f)>> \in Seq(ReadOf) /\ <<Read(f)>>[1].source = disk[f]
      BY <2>1 DEF Read, ReadOf
    <2>5. Pending(read, ledger) /\ read.tool = rec.tool
      BY <2>4 DEF Pending, IsCall, Scans
    <2>6. FoundSoFar(done)
      <3>1. /\ done.tool = rec.tool /\ done.sym = rec.sym /\ done.word = rec.word
            /\ done.parent = rec.parent /\ done.saw = <<Read(f)>> /\ done.data = data
        BY DEF Pending, IsCall
      <3>. HIDE DEF done
      <3>. QED
        BY <2>1, <2>4, <3>1 DEF FoundSoFar, Row, data
    <2>7. Return(read, cost, data)
      BY <1>1 DEF ReturnSpan, cost, data
    <2>8. read.tool \notin Scans
      BY <2>5 DEF Scans
    <2>. HIDE DEF read
    <2>. QED
      BY <2>3, <2>5, <2>6, <2>7, <2>8, ReturnKeeps
  <1>2. CASE ~ (Readable(f) /\ CanRead(disk[f], first, last))
    BY <1>2, RaiseKeeps DEF ReturnSpan
  <1>. QED
    BY <1>1, <1>2

(* A call keeps the invariant if it leaves the world and the checkpoint. *)
LEMMA ByCall ==
  ASSUME IInv, UNCHANGED <<storevars, disk, checkpoint>>,
         BudgetOK' /\ CheckpointOK' /\ CallOK(call', ledger')
  PROVE  IInv'
  BY DEF IInv, WorldOK, storevars

LEMMA KeptByListDir ==
  ASSUME IInv, ListDir
  PROVE  IInv'
  <1>1. PICK d : Return(Fresh("list_dir"), ListCost(Cardinality(Entries(d))), Entries(d))
    BY DEF ListDir
  <1>. DEFINE rec == Fresh("list_dir")
              cost == ListCost(Cardinality(Entries(d)))
  <1>2. Pending(rec, ledger) /\ rec.tool = "list_dir"
    BY FreshPending DEF IInv, BudgetOK, Tools
  <1>3. cost \in Nat \ {0}
    BY ListingCost
  <1>. DEFINE done == [rec EXCEPT !.status = "ok", !.data = Entries(d), !.charged = cost]
  <1>4. done.tool = "list_dir"
    BY <1>2 DEF Pending, IsCall
  <1>5. FoundSoFar(done)
    BY <1>4 DEF FoundSoFar
  <1>6. UNCHANGED <<storevars, disk, checkpoint>>
    BY DEF ListDir, Begin
  <1>. HIDE DEF rec, cost
  <1>7. BudgetOK' /\ CheckpointOK' /\ CallOK(call', ledger')
    BY <1>1, <1>2, <1>3, <1>5, <1>6, ReturnKeeps DEF IInv, Scans, rec, cost
  <1>. QED
    BY <1>6, <1>7, ByCall

LEMMA KeptByReadSpan ==
  ASSUME IInv, ReadSpan
  PROVE  IInv'
  <1>1. PICK f \in Files, s \in Spans : ReturnSpan(Fresh("read_span"), f, s[1], s[2])
    BY DEF ReadSpan
  <1>2. s[1] \in Nat /\ s[2] \in Nat
    BY RetrievalAssumption
  <1>3. Pending(Fresh("read_span"), ledger) /\ Fresh("read_span").tool = "read_span"
    BY FreshPending DEF IInv, BudgetOK, Tools
  <1>4. UNCHANGED <<storevars, disk, checkpoint>>
    BY DEF ReadSpan, Begin
  <1>5. BudgetOK' /\ CheckpointOK' /\ CallOK(call', ledger')
    BY <1>1, <1>2, <1>3, <1>4, SpanKeeps DEF IInv
  <1>. QED
    BY <1>4, <1>5, ByCall

LEMMA KeptBySearchSymbols ==
  ASSUME IInv, SearchSymbols
  PROVE  IInv'
  <1>1. PICK found \in SUBSET SymbolTable :
           Return(Fresh("search_symbols"), 10 + 5 * Cardinality(found), found)
    BY DEF SearchSymbols
  <1>. DEFINE rec == Fresh("search_symbols")
              cost == 10 + 5 * Cardinality(found)
              done == [rec EXCEPT !.status = "ok", !.data = found, !.charged = cost]
  <1>2. Pending(rec, ledger) /\ rec.tool = "search_symbols"
    BY FreshPending DEF IInv, BudgetOK, Tools
  <1>3. cost \in Nat \ {0}
    <2>1. IsFiniteSet(SymbolTable)
      BY TableIs DEF IInv, WorldOK
    <2>2. IsFiniteSet(found)
      BY <2>1, FS_Subset
    <2>3. Cardinality(found) \in Nat
      BY <2>2, FS_CardinalityType
    <2>. QED
      BY <2>3
  <1>. HIDE DEF cost
  <1>4. done.tool = "search_symbols"
    BY <1>2 DEF Pending, IsCall
  <1>5. FoundSoFar(done)
    BY <1>4 DEF FoundSoFar
  <1>6. UNCHANGED <<storevars, disk, checkpoint>>
    BY DEF SearchSymbols, Begin
  <1>. HIDE DEF rec
  <1>7. BudgetOK' /\ CheckpointOK' /\ CallOK(call', ledger')
    BY <1>1, <1>2, <1>3, <1>5, <1>6, ReturnKeeps DEF IInv, Scans, rec, cost
  <1>. QED
    BY <1>6, <1>7, ByCall

LEMMA KeptByLookup ==
  ASSUME IInv, Lookup
  PROVE  IInv'
  <1>1. PICK n \in Words, p \in Words \union {None} :
           LET found == {s \in SymbolTable : s.sym.name = n /\ p \in {None, s.sym.parent}}
               asked == [Fresh("definition") EXCEPT !.word = n, !.parent = p]
           IN  \/ found = {} /\ Raise(asked, "error")
               \/ Cardinality(found) > 1 /\ Raise(asked, "ambiguous")
               \/ \E s \in found : /\ found = {s}
                                   /\ call' = [asked EXCEPT !.status = "found", !.sym = s]
    BY DEF Lookup
  <1>. DEFINE found == {s \in SymbolTable : s.sym.name = n /\ p \in {None, s.sym.parent}}
              rec == Fresh("definition")
              asked == [rec EXCEPT !.word = n, !.parent = p]
  <1>2. UNCHANGED <<storevars, disk, checkpoint, budget>>
    BY DEF Lookup, Begin
  <1>3. Pending(rec, ledger) /\ rec.tool = "definition"
    BY FreshPending DEF IInv, BudgetOK, Tools
  <1>. HIDE DEF rec
  <1>4. /\ Pending(asked, ledger) /\ asked.tool = "definition" /\ asked.word = n
        /\ asked.parent = p
    <2>1. asked = [rec EXCEPT !.word = n, !.parent = p]
      OBVIOUS
    <2>. HIDE DEF asked, found
    <2>2. /\ asked.tool = rec.tool /\ asked.word = n /\ asked.parent = p
          /\ asked.since = rec.since /\ IsCall(asked)
      BY <1>3, <2>1 DEF Pending, IsCall
    <2>. QED
      BY <1>3, <2>2 DEF Pending, Scans
  <1>. HIDE DEF asked
  <1>5. CASE Raise(asked, "error") \/ Raise(asked, "ambiguous")
    <2>1. BudgetOK' /\ CheckpointOK' /\ CallOK(call', ledger')
      BY <1>2, <1>4, <1>5, RaiseKeeps DEF IInv
    <2>. QED
      BY <1>2, <2>1, ByCall
  <1>6. CASE \E s \in found : /\ found = {s}
                             /\ call' = [asked EXCEPT !.status = "found", !.sym = s]
    <2>1. PICK e \in found : /\ found = {e}
                             /\ call' = [asked EXCEPT !.status = "found", !.sym = e]
      BY <1>6
    <2>. DEFINE c == call'
    <2>2. PICK f \in Files : \E r \in rows[f] : \E s \in Symbols(r.of) :
                 e = [sym |-> s, file |-> f, of |-> r.of] /\ r.of \in Sources
      <3>1. e \in SymbolTable
        OBVIOUS
      <3>. QED
        BY <3>1, TableIs DEF IInv, WorldOK
    <2>. PICK r \in rows[f] : \E s \in Symbols(r.of) :
                 e = [sym |-> s, file |-> f, of |-> r.of] /\ r.of \in Sources
      BY <2>2
    <2>12. PICK s \in Symbols(r.of) :
                 e = [sym |-> s, file |-> f, of |-> r.of] /\ r.of \in Sources
      OBVIOUS
    <2>3. c = [asked EXCEPT !.status = "found", !.sym = e]
      BY <2>1
    <2>. HIDE DEF c
    <2>4. /\ c.tool = "definition" /\ c.status = "found" /\ c.sym = e /\ c.word = n
          /\ c.parent = p /\ c.since = asked.since /\ IsCall(c)
      BY <1>4, <2>3 DEF Pending, IsCall, Statuses
    <2>5. ASSUME NEW t \in Symbols(r.of), t.name = n, p \in {None, t.parent}
          PROVE  t = s
      <3>. DEFINE u == [sym |-> t, file |-> f, of |-> r.of]
      <3>1. u \in SymbolTable /\ u.sym = t
        BY TableIs DEF IInv, WorldOK
      <3>2. u \in found
        BY <2>5, <3>1
      <3>3. u = e
        BY <2>1, <3>2
      <3>. QED
        BY <2>12, <3>3
    <2>6. s.name = n /\ p \in {None, s.parent}
      <3>1. e.sym = s
        BY <2>12
      <3>. QED
        BY <3>1
    <2>. HIDE DEF found
    <2>7. Row(c)
      <3>1. e.sym = s /\ e.file = f /\ e.of = r.of
        BY <2>12
      <3>2. {t \in Symbols(r.of) : t.name = n /\ p \in {None, t.parent}} = {s}
        BY <2>5, <2>6
      <3>. QED
        BY <2>12, <2>4, <3>1, <3>2 DEF Row
    <2>8. PaidSoFar(c, ledger)
      BY <1>4, <2>4 DEF Pending, PaidSoFar, Scans
    <2>9. ScanSoFar(c) /\ FoundSoFar(c)
      BY <2>4, <2>7 DEF ScanSoFar, FoundSoFar, Row, Scans
    <2>10. CallOK(call', ledger')
      BY <1>2, <2>4, <2>8, <2>9 DEF CallOK, c, budget
    <2>11. BudgetOK' /\ CheckpointOK'
      BY <1>2, SameBudget DEF IInv
    <2>. QED
      BY <1>2, <2>10, <2>11, ByCall
  <1>. QED
    BY <1>1, <1>5, <1>6, Zenon DEF found, asked, rec

LEMMA KeptByReadDefinition ==
  ASSUME IInv, ReadDefinition
  PROVE  IInv'
  <1>1. /\ call.status = "found" /\ IsCall(call) /\ call.tool = "definition"
        /\ ReturnSpan(call, call.sym.file, call.sym.sym.start, call.sym.sym.end)
        /\ UNCHANGED <<storevars, disk, checkpoint>>
    BY DEF ReadDefinition, Proceed, IInv, CallOK, IsCall
  <1>2. Row(call)
    BY <1>1 DEF IInv, CallOK, FoundSoFar, Row
  <1>3. call.sym.sym.start \in Nat /\ call.sym.sym.end \in Nat
    <2>1. call.sym.sym \in Symbols(call.sym.of) /\ call.sym.of \in Sources
      BY <1>2 DEF Row
    <2>. QED
      BY <2>1, SymbolLines
  <1>4. Pending(call, ledger)
    BY <1>1 DEF Pending, IInv, CallOK, PaidSoFar, Scans, Tools
  <1>5. call.sym.file \in Files
    BY <1>2 DEF Row
  <1>6. BudgetOK' /\ CheckpointOK' /\ CallOK(call', ledger')
    BY <1>1, <1>2, <1>3, <1>4, <1>5, SpanKeeps DEF IInv
  <1>. QED
    BY <1>1, <1>6, ByCall

LEMMA KeptByBeginScan ==
  ASSUME IInv, NEW tool \in Scans, NEW files \in SUBSET Files, BeginScan(tool, files)
  PROVE  IInv'
  <1>1. PICK word \in Words :
           call' = [Fresh(tool) EXCEPT !.status = "scanning", !.word = word,
                                       !.files = {f \in files : disk[f] # None}]
    BY DEF BeginScan
  <1>2. UNCHANGED <<storevars, disk, checkpoint, budget>>
    BY DEF BeginScan, Begin
  <1>. DEFINE rec == Fresh(tool)
              listed == {f \in files : disk[f] # None}
              c == call'
  <1>3. Pending(rec, ledger) /\ rec.tool = tool /\ rec.saw = << >> /\ rec.charged = 0
    BY FreshPending DEF IInv, BudgetOK, Tools, Scans, Fresh, NewCall
  <1>4. listed \subseteq Files /\ c = [rec EXCEPT !.status = "scanning", !.word = word,
                                                  !.files = listed]
    BY <1>1
  <1>. HIDE DEF rec, listed, c
  <1>5. /\ c.tool = tool /\ c.status = "scanning" /\ c.saw = << >> /\ c.word = word
        /\ c.since = rec.since /\ c.charged = 0 /\ c.data = rec.data /\ IsCall(c)
    BY <1>3, <1>4 DEF Pending, IsCall, Statuses
  <1>6. rec.data = {}
    BY DEF rec, Fresh, NewCall
  <1>7. HitsOf(c) = {} /\ FilesOf(c) = {}
    <2>1. DOMAIN << >> = {}
      OBVIOUS
    <2>. QED
      BY <1>5, <2>1 DEF HitsOf, FilesOf
  <1>8. PaidSoFar(c, ledger)
    BY <1>3, <1>5, CostEmpty DEF Pending, PaidSoFar, Scans
  <1>9. ScanSoFar(c) /\ FoundSoFar(c)
    BY <1>5, <1>6, <1>7 DEF ScanSoFar, FoundSoFar, Scans
  <1>10. CallOK(call', ledger')
    BY <1>2, <1>5, <1>8, <1>9 DEF CallOK, c, budget, Scans
  <1>11. BudgetOK' /\ CheckpointOK'
    BY <1>2, SameBudget DEF IInv
  <1>. QED
    BY <1>2, <1>10, <1>11, ByCall

LEMMA SawMore ==
  ASSUME NEW reads \in Seq(ReadOf), NEW r \in ReadOf
  PROVE  LET more == Append(reads, r)
         IN  /\ more \in Seq(ReadOf)
             /\ {more[k] : k \in DOMAIN more} = {reads[k] : k \in DOMAIN reads} \union {r}
             /\ {more[k].file : k \in DOMAIN more}
                  = {reads[k].file : k \in DOMAIN reads} \union {r.file}
  <1>. DEFINE more == Append(reads, r)
  <1>1. /\ more \in Seq(ReadOf) /\ Len(reads) \in Nat /\ Len(more) = Len(reads) + 1
        /\ \A k \in 1 .. Len(reads) : more[k] = reads[k]
        /\ more[Len(reads) + 1] = r
    <2>. HIDE DEF ReadOf
    <2>. QED
      BY AppendProperties
  <1>2. DOMAIN more = 1 .. Len(reads) + 1 /\ DOMAIN reads = 1 .. Len(reads)
    <2>. HIDE DEF more, ReadOf
    <2>. QED
      BY <1>1
  <1>. HIDE DEF more
  <1>3. \A k \in DOMAIN more : (k \in DOMAIN reads /\ more[k] = reads[k]) \/ more[k] = r
    BY <1>1, <1>2
  <1>4. \A k \in DOMAIN reads : k \in DOMAIN more /\ more[k] = reads[k]
    BY <1>1, <1>2
  <1>5. \E k \in DOMAIN more : more[k] = r
    BY <1>1, <1>2
  <1>6. {more[k] : k \in DOMAIN more} = {reads[k] : k \in DOMAIN reads} \union {r}
    BY <1>3, <1>4, <1>5
  <1>7. {more[k].file : k \in DOMAIN more}
           = {reads[k].file : k \in DOMAIN reads} \union {r.file}
    BY <1>3, <1>4, <1>5
  <1>. QED
    BY <1>1, <1>6, <1>7 DEF more

LEMMA KeptByScanFile ==
  ASSUME IInv, ScanFile
  PROVE  IInv'
  <1>. DEFINE f == Least(Unread)
              cost == Estimate(Len(SplitLines(disk[f])))
  <1>1. /\ call.status = "scanning" /\ Unread # {} /\ UNCHANGED <<storevars, disk, checkpoint>>
        /\ \/ ~Readable(f) /\ Raise(call, "error")
           \/ Readable(f) /\ ~Affordable(cost) /\ OutOfBudget(call)
           \/ /\ Readable(f) /\ Affordable(cost)
              /\ Charge(call.tool, cost)
              /\ call' = [call EXCEPT
                    !.saw = Append(@, Read(f)), !.charged = @ + cost,
                    !.data = @ \union Hits(call.tool, f, call.word)]
    BY Zenon DEF ScanFile, Proceed
  <1>2. call.tool \in Scans /\ call.tool \in Tools /\ IsCall(call)
    BY <1>1 DEF IInv, CallOK, IsCall, Scans, Tools
  <1>3. Pending(call, ledger)
    BY <1>1, <1>2 DEF Pending, IInv, CallOK, PaidSoFar, ScanSoFar
  <1>4. f \in call.files /\ f \in Files
    <2>1. Unread \subseteq call.files /\ call.files \subseteq Files /\ Files \subseteq Nat
      BY <1>2, RetrievalAssumption DEF Unread, IsCall
    <2>2. Least(Unread) \in Unread
      BY <1>1, <2>1, LeastIs
    <2>. QED
      BY <2>1, <2>2
  <1>. HIDE DEF f
  <1>5. CASE Raise(call, "error") \/ OutOfBudget(call)
    <2>1. BudgetOK' /\ CheckpointOK' /\ CallOK(call', ledger')
      BY <1>1, <1>3, <1>5, RaiseKeeps DEF IInv, OutOfBudget
    <2>. QED
      BY <1>1, <2>1, ByCall
  <1>6. CASE /\ Readable(f) /\ Affordable(cost) /\ Charge(call.tool, cost)
             /\ call' = [call EXCEPT
                   !.saw = Append(@, Read(f)), !.charged = @ + cost,
                   !.data = @ \union Hits(call.tool, f, call.word)]
    <2>. DEFINE c == call'
                hits == Hits(call.tool, f, call.word)
                saw == Append(call.saw, Read(f))
    <2>1. disk[f] \in Sources
      BY <1>4, <1>6 DEF IInv, WorldOK, Readable
    <2>2. cost \in Nat \ {0}
      <3>1. Len(SplitLines(disk[f])) \in Nat
        BY <2>1, SplitIs
      <3>. QED
        BY <3>1, EstimateIs
    <2>3. Read(f) \in ReadOf /\ Read(f).file = f /\ Read(f).source = disk[f]
      BY <1>4, <2>1 DEF Read, ReadOf
    <2>4. call.saw \in Seq(ReadOf) /\ call.since \in Nat /\ call.since <= Len(ledger)
      BY <1>2, <1>3 DEF IsCall, Pending
    <2>5. /\ BudgetOK' /\ CheckpointOK' /\ call.since <= Len(ledger')
          /\ SpentSince(call.since, ledger') = SpentSince(call.since, ledger) + cost
      BY <1>1, <1>2, <1>6, <2>2, <2>4, ChargeKeeps DEF IInv
    <2>6. CostOf(saw) = CostOf(call.saw) + cost
      BY <2>3, <2>4, CostAppend
    <2>7. /\ saw \in Seq(ReadOf)
          /\ {saw[k] : k \in DOMAIN saw} = {call.saw[k] : k \in DOMAIN call.saw} \union {Read(f)}
          /\ {saw[k].file : k \in DOMAIN saw} = {call.saw[k].file : k \in DOMAIN call.saw} \union {f}
      <3>1. /\ saw \in Seq(ReadOf)
            /\ {saw[k] : k \in DOMAIN saw} = {call.saw[k] : k \in DOMAIN call.saw} \union {Read(f)}
            /\ {saw[k].file : k \in DOMAIN saw}
                 = {call.saw[k].file : k \in DOMAIN call.saw} \union {Read(f).file}
        BY <2>3, <2>4, SawMore, Zenon
      <3>. QED
        BY <2>3, <3>1, Zenon
    <2>8. c = [call EXCEPT !.saw = saw, !.charged = call.charged + cost,
                           !.data = call.data \union hits]
      BY <1>6
    <2>. HIDE DEF c, hits, saw, cost
    <2>9. /\ c.tool = call.tool /\ c.status = "scanning" /\ c.word = call.word
          /\ c.files = call.files /\ c.saw = saw /\ c.charged = call.charged + cost
          /\ c.data = call.data \union hits /\ c.since = call.since
          /\ IsCall(c)
      <3>1. /\ c.tool = call.tool /\ c.status = call.status /\ c.word = call.word
            /\ c.files = call.files /\ c.saw = saw /\ c.charged = call.charged + cost
            /\ c.data = call.data \union hits /\ c.since = call.since
            /\ c = [tool |-> c.tool, status |-> c.status, word |-> c.word,
                    parent |-> c.parent, sym |-> c.sym, files |-> c.files,
                    saw |-> c.saw, data |-> c.data, charged |-> c.charged,
                    since |-> c.since]
        BY <1>2, <2>8 DEF IsCall
      <3>2. call.charged + cost \in Nat
        BY <1>2, <2>2 DEF IsCall
      <3>. QED
        BY <1>1, <1>2, <2>7, <3>1, <3>2 DEF IsCall
    <2>10. PaidSoFar(c, ledger')
      BY <1>1, <1>2, <2>5, <2>6, <2>9 DEF PaidSoFar, IInv, CallOK, Scans
    <2>11. HitsOf(c) = HitsOf(call) \union hits
      <3>1. HitsOf(c) = UNION {HitsIn(call.tool, r, call.word) :
                                  r \in {call.saw[k] : k \in DOMAIN call.saw} \union {Read(f)}}
        <4>1. {c.saw[k] : k \in DOMAIN c.saw}
                 = {call.saw[k] : k \in DOMAIN call.saw} \union {Read(f)}
          BY <2>7, <2>9
        <4>. QED
          BY <2>9, <4>1, Zenon DEF HitsOf
      <3>. DEFINE S == {call.saw[k] : k \in DOMAIN call.saw}
                  H(r) == HitsIn(call.tool, r, call.word)
      <3>2. H(Read(f)) = hits
        BY <2>3 DEF hits, Hits, Hit, HitsIn, HitAt, RowsOf
      <3>3. UNION {H(r) : r \in S \union {Read(f)}} = (UNION {H(r) : r \in S}) \union H(Read(f))
        <4>. HIDE DEF S, H
        <4>. QED
          OBVIOUS
      <3>4. HitsOf(call) = UNION {H(r) : r \in S}
        BY Zenon DEF HitsOf
      <3>. QED
        BY <3>1, <3>2, <3>3, <3>4
    <2>12. FilesOf(c) = FilesOf(call) \union {f}
      BY <2>7, <2>9 DEF FilesOf
    <2>13. ScanSoFar(c)
      BY <1>1, <1>2, <1>4, <2>9, <2>11, <2>12 DEF ScanSoFar, IInv, CallOK
    <2>14. FoundSoFar(c) /\ c.tool # "none"
      BY <1>2, <2>9 DEF FoundSoFar, Scans
    <2>15. CallOK(call', ledger')
      BY <2>9, <2>10, <2>13, <2>14 DEF CallOK, c
    <2>. QED
      BY <1>1, <2>5, <2>15, ByCall
  <1>. QED
    BY <1>1, <1>5, <1>6 DEF f

LEMMA KeptByEndScan ==
  ASSUME IInv, EndScan
  PROVE  IInv'
  <1>1. /\ call.status = "scanning" /\ Unread = {} /\ call' = [call EXCEPT !.status = "ok"]
        /\ UNCHANGED <<storevars, disk, checkpoint, budget>>
    BY DEF EndScan, Proceed
  <1>2. call.tool \in Scans /\ IsCall(call)
    BY <1>1 DEF IInv, CallOK, IsCall
  <1>. DEFINE c == call'
  <1>3. c = [call EXCEPT !.status = "ok"]
    BY <1>1
  <1>. HIDE DEF c
  <1>4. /\ c.tool = call.tool /\ c.status = "ok" /\ c.word = call.word /\ c.files = call.files
        /\ c.saw = call.saw /\ c.charged = call.charged /\ c.data = call.data
        /\ c.since = call.since /\ IsCall(c)
    BY <1>2, <1>3 DEF IsCall, Statuses
  <1>5. PaidSoFar(c, ledger)
    BY <1>1, <1>2, <1>4 DEF PaidSoFar, IInv, CallOK, Scans
  <1>6. call.files \subseteq FilesOf(call)
    BY <1>1 DEF Unread, FilesRead, FilesOf
  <1>7. ScanSoFar(c)
    BY <1>1, <1>2, <1>4, <1>6 DEF ScanSoFar, IInv, CallOK, FilesOf, HitsOf
  <1>8. FoundSoFar(c) /\ c.tool # "none"
    BY <1>2, <1>4 DEF FoundSoFar, Scans
  <1>9. CallOK(call', ledger')
    BY <1>1, <1>4, <1>5, <1>7, <1>8 DEF CallOK, c, budget
  <1>10. BudgetOK' /\ CheckpointOK'
    BY <1>1, SameBudget DEF IInv
  <1>. QED
    BY <1>1, <1>9, <1>10, ByCall

LEMMA KeptByReject ==
  ASSUME IInv, Reject
  PROVE  IInv'
  <1>1. PICK tool \in Tools : Raise(Fresh(tool), "error")
    BY DEF Reject, Tools
  <1>2. Pending(Fresh(tool), ledger)
    BY FreshPending DEF IInv, BudgetOK
  <1>3. UNCHANGED <<storevars, disk, checkpoint>>
    BY DEF Reject, Begin
  <1>4. BudgetOK' /\ CheckpointOK' /\ CallOK(call', ledger')
    BY <1>1, <1>2, <1>3, RaiseKeeps DEF IInv
  <1>. QED
    BY <1>3, <1>4, ByCall

LEMMA NoCallOK ==
  ASSUME NEW entries \in Seq(Entry)
  PROVE  CallOK(NoCall, entries)
  <1>. DEFINE c == NoCall
  <1>1. c = [tool |-> "none", status |-> "none", word |-> None, parent |-> None,
             sym |-> None, files |-> {}, saw |-> <<>>, data |-> {}, charged |-> 0,
             since |-> 0]
    BY DEF NoCall, NewCall
  <1>2. IsCall(c)
    BY <1>1 DEF IsCall, Statuses
  <1>. HIDE DEF c
  <1>3. c.tool = "none" /\ c.status = "none" /\ c.since = 0
    BY <1>1
  <1>4. PaidSoFar(c, entries)
    BY <1>3 DEF PaidSoFar, Scans
  <1>5. ScanSoFar(c) /\ FoundSoFar(c)
    BY <1>3 DEF ScanSoFar, FoundSoFar, Scans
  <1>. QED
    BY <1>2, <1>3, <1>4, <1>5 DEF CallOK, c

LEMMA KeptByWriteCheckpoint ==
  ASSUME IInv, WriteCheckpoint
  PROVE  IInv'
  <1>1. /\ checkpoint' = [max_tokens |-> max_tokens, used_tokens |-> used, ledger |-> ledger]
        /\ UNCHANGED <<storevars, disk, budget, call>>
    BY DEF WriteCheckpoint
  <1>2. SubSeq(ledger, 1, Len(ledger)) = ledger /\ Len(ledger) \in Nat
    BY SubSeqFull DEF IInv, BudgetOK
  <1>3. CheckpointOK'
    BY <1>1, <1>2 DEF IInv, BudgetOK, CheckpointOK, budget
  <1>4. WorldOK' /\ BudgetOK' /\ CallOK(call, ledger)'
    BY <1>1 DEF IInv, WorldOK, BudgetOK, budget, storevars
  <1>. QED
    BY <1>3, <1>4 DEF IInv

LEMMA KeptByCrashAndResume ==
  ASSUME IInv, CrashAndResume
  PROVE  IInv'
  <1>1. /\ IF checkpoint = None
           THEN used' = 0 /\ ledger' = <<>> /\ UNCHANGED max_tokens
           ELSE Restore(checkpoint)
        /\ call' = NoCall /\ UNCHANGED <<storevars, disk, checkpoint>>
    BY DEF CrashAndResume
  <1>2. BudgetOK' /\ CheckpointOK'
    <2>1. CASE checkpoint = None
      <3>1. << >> \in Seq(Entry) /\ Len(<< >>) = 0
        OBVIOUS
      <3>2. SumTokens(<< >>) = 0
        BY <3>1, SumEmpty
      <3>3. ledger' \in Seq(Entry) /\ used' = SumTokens(ledger') /\ used' = 0
        BY <1>1, <2>1, <3>1, <3>2
      <3>. QED
        BY <1>1, <2>1, <3>3 DEF IInv, BudgetOK, CheckpointOK
    <2>2. CASE checkpoint # None
      <3>1. /\ used' = SumTokens(checkpoint.ledger) /\ ledger' = checkpoint.ledger
            /\ max_tokens' = checkpoint.max_tokens
        BY <1>1, <2>2 DEF Restore
      <3>2. /\ checkpoint.ledger \in Seq(Entry) /\ Len(checkpoint.ledger) \in Nat
            /\ SubSeq(checkpoint.ledger, 1, Len(checkpoint.ledger)) = checkpoint.ledger
        BY <2>2, SubSeqFull DEF IInv, CheckpointOK
      <3>. QED
        BY <1>1, <2>2, <3>1, <3>2 DEF IInv, BudgetOK, CheckpointOK
    <2>. QED
      BY <2>1, <2>2
  <1>3. CallOK(call', ledger')
    <2>1. ledger' \in Seq(Entry)
      BY <1>2 DEF BudgetOK
    <2>. QED
      BY <1>1, <2>1, NoCallOK
  <1>4. WorldOK'
    BY <1>1 DEF IInv, WorldOK, storevars
  <1>. QED
    BY <1>2, <1>3, <1>4 DEF IInv

LEMMA KeptByIndexRun ==
  ASSUME IInv, NEW i \in Runs, IndexRun(i)
  PROVE  IInv'
  <1>1. PICK tree \in {disk} \union ForeignTrees :
           /\ \A f \in Files : Listed(f) => tree[f] # Huge
           /\ rows' = [f \in Files |->
                          IF tree[f] = None \/ ~Listed(f) THEN {}
                          ELSE IF \E r \in rows[f] : r.of = tree[f] THEN rows[f]
                          ELSE Store!Parse(tree[f], i)]
    BY DEF IndexRun
  <1>2. UNCHANGED <<disk, budget, checkpoint, call>>
    BY DEF IndexRun
  <1>3. \A f \in Files : tree[f] \in Sources \union {None, Huge}
    <2>1. disk \in [Files -> Sources \union {None, Huge}]
      BY DEF IInv, WorldOK
    <2>2. ForeignTrees \subseteq [Files -> Sources]
      BY RetrievalAssumption
    <2>3. CASE tree = disk
      BY <2>1, <2>3
    <2>4. CASE tree \in ForeignTrees
      BY <2>2, <2>4
    <2>. QED
      BY <2>3, <2>4
  <1>4. ASSUME NEW f \in Files PROVE OneParse(rows'[f])
    <2>1. rows'[f] = IF tree[f] = None \/ ~Listed(f) THEN {}
                     ELSE IF \E r \in rows[f] : r.of = tree[f] THEN rows[f]
                     ELSE Store!Parse(tree[f], i)
      BY <1>1
    <2>2. OneParse({}) /\ OneParse(rows[f])
      BY DEF OneParse, IInv, WorldOK
    <2>3. tree[f] \in Sources => OneParse(Store!Parse(tree[f], i))
      BY DEF OneParse, Store!Parse
    <2>. QED
      BY <1>1, <1>3, <2>1, <2>2, <2>3
  <1>5. WorldOK' /\ BudgetOK' /\ CheckpointOK' /\ CallOK(call, ledger)'
    BY <1>2, <1>4 DEF IInv, WorldOK, BudgetOK, CheckpointOK, budget
  <1>. QED
    BY <1>5 DEF IInv

LEMMA KeptByEdit ==
  ASSUME IInv, NEW f \in Files, Edit(f)
  PROVE  IInv'
  <1>1. PICK new : /\ new \in {<<[kind |-> "note", depth |-> 0, word |-> w, feed |-> FALSE]>> \o disk[f] : w \in Words}
                             \union {s \in {SubSeq(disk[f], 1, Len(disk[f]) - 1)} : Complete(s)}
                             \union {None, Huge}
                   /\ disk' = [disk EXCEPT ![f] = new]
    BY DEF Edit
  <1>2. Readable(f) /\ UNCHANGED <<storevars, budget, checkpoint, call>>
    BY DEF Edit
  <1>3. disk[f] \in Sources
    BY <1>2 DEF IInv, WorldOK, Readable
  <1>4. new \in Sources \union {None, Huge}
    <2>1. \A w \in Words : <<[kind |-> "note", depth |-> 0, word |-> w, feed |-> FALSE]>> \o disk[f] \in Sources
      BY <1>3, NoteFirst
    <2>2. Complete(SubSeq(disk[f], 1, Len(disk[f]) - 1)) =>
             SubSeq(disk[f], 1, Len(disk[f]) - 1) \in Sources
      BY <1>3, LastGone
    <2>. QED
      BY <1>1, <2>1, <2>2, Zenon
  <1>5. WorldOK'
    BY <1>1, <1>2, <1>4 DEF IInv, WorldOK, storevars
  <1>6. BudgetOK' /\ CheckpointOK' /\ CallOK(call, ledger)'
    BY <1>2 DEF IInv, BudgetOK, CheckpointOK, budget
  <1>. QED
    BY <1>5, <1>6 DEF IInv
-----------------------------------------------------------------------------
LEMMA InitIInv == Init => IInv
  <1>. SUFFICES ASSUME Init PROVE IInv
    OBVIOUS
  <1>1. /\ rows = [f \in Files |-> {}] /\ used = 0 /\ ledger = <<>>
        /\ checkpoint = None /\ call = NoCall
        /\ \E s \in Scenarios : disk = s.disk /\ max_tokens = s.max
    BY DEF Init, Store!StoreInit
  <1>2. WorldOK
    BY <1>1, RetrievalAssumption DEF WorldOK, OneParse
  <1>3. << >> \in Seq(Entry) /\ Len(<< >>) = 0
    OBVIOUS
  <1>4. SumTokens(<< >>) = 0
    BY <1>3, SumEmpty
  <1>5. max_tokens \in Nat
    BY <1>1, RetrievalAssumption
  <1>6. BudgetOK
    <2>1. ledger \in Seq(Entry) /\ used = SumTokens(ledger)
      BY <1>1, <1>3, <1>4
    <2>2. used <= max_tokens
      BY <1>1, <1>5
    <2>. QED
      BY <1>5, <2>1, <2>2 DEF BudgetOK
  <1>7. CallOK(call, ledger)
    BY <1>1, <1>3, NoCallOK
  <1>. QED
    BY <1>1, <1>2, <1>6, <1>7 DEF IInv, CheckpointOK

LEMMA NextIInv == IInv /\ [Next]_vars => IInv'
  <1>. SUFFICES ASSUME IInv, [Next]_vars PROVE IInv'
    OBVIOUS
  <1>1. CASE ListDir
    BY <1>1, KeptByListDir
  <1>2. CASE ReadSpan
    BY <1>2, KeptByReadSpan
  <1>3. CASE SearchSymbols
    BY <1>3, KeptBySearchSymbols
  <1>4. CASE Lookup
    BY <1>4, KeptByLookup
  <1>5. CASE ReadDefinition
    BY <1>5, KeptByReadDefinition
  <1>6. CASE BeginReferences
    <2>1. BeginScan("references", {f \in Files : Listed(f)})
      BY <1>6 DEF BeginReferences
    <2>2. "references" \in Scans /\ {f \in Files : Listed(f)} \in SUBSET Files
      BY DEF Scans
    <2>. QED
      BY <2>1, <2>2, KeptByBeginScan
  <1>7. CASE BeginGrep
    <2>1. BeginScan("structural_grep", {f \in Files : Globbed(f)})
      BY <1>7 DEF BeginGrep
    <2>2. "structural_grep" \in Scans /\ {f \in Files : Globbed(f)} \in SUBSET Files
      BY DEF Scans
    <2>. QED
      BY <2>1, <2>2, KeptByBeginScan
  <1>8. CASE ScanFile
    BY <1>8, KeptByScanFile
  <1>9. CASE EndScan
    BY <1>9, KeptByEndScan
  <1>10. CASE Reject
    BY <1>10, KeptByReject
  <1>11. CASE WriteCheckpoint
    BY <1>11, KeptByWriteCheckpoint
  <1>12. CASE CrashAndResume
    BY <1>12, KeptByCrashAndResume
  <1>13. CASE \E i \in Runs : IndexRun(i)
    BY <1>13, KeptByIndexRun
  <1>14. CASE \E f \in Files : Edit(f)
    BY <1>14, KeptByEdit
  <1>15. CASE UNCHANGED vars
    BY <1>15 DEF vars, storevars, budget, IInv, WorldOK, BudgetOK, CheckpointOK
  <1>. QED
    BY <1>1, <1>2, <1>3, <1>4, <1>5, <1>6, <1>7, <1>8, <1>9, <1>10, <1>11, <1>12,
       <1>13, <1>14, <1>15 DEF Next

(* The invariant holds in every reachable state. *)
THEOREM Inductive == Spec => []IInv
  BY InitIInv, NextIInv, PTL DEF Spec

(* Types; and no entry of the ledger is of zero tokens, whatever is listed, *)
(* read or searched (budget.estimate_tokens, tools.list_dir).               *)
THEOREM TypeCorrect == Spec => []TypeOK
  <1>1. IInv => TypeOK
    <2>. SUFFICES ASSUME IInv PROVE TypeOK
      OBVIOUS
    <2>1. ASSUME NEW f \in Files
          PROVE  rows[f] \subseteq Store!SymbolRow /\ disk[f] \in Sources \union {None, Huge}
      BY DEF IInv, WorldOK, OneParse, Store!SymbolRow
    <2>2. max_tokens \in Nat /\ ledger \in Seq(Entry) /\ used \in Nat
      BY LedgerSum DEF IInv, BudgetOK
    <2>3. /\ call.saw \in Seq(ReadOf) /\ call.charged \in Nat /\ call.since \in Nat
          /\ call.status \in Statuses
      BY DEF IInv, CallOK, IsCall
    <2>. QED
      BY <2>1, <2>2, <2>3, Zenon DEF TypeOK, ReadOf, Statuses
  <1>. QED
    BY <1>1, Inductive, PTL

(* The balance of the budget over any calls, checkpoints, crashes and      *)
(* resumptions: used_tokens is the sum of the ledger, never more than the  *)
(* budget, and what a checkpoint has stays spent (budget.charge,           *)
(* from_snapshot).                                                         *)
THEOREM BudgetIsKept == Spec => []BudgetKept
  <1>1. IInv => BudgetKept
    BY DEF IInv, BudgetOK, CheckpointOK, BudgetKept
  <1>. QED
    BY <1>1, Inductive, PTL

(* What a call charged is what the ledger gained since it began, and the   *)
(* price of what it returned or read; a call that raises has paid for the  *)
(* files it read before and for nothing else (tools.py, rule 3).           *)
THEOREM EachDeliveryIsPaid == Spec => []DeliveredIsPaid
  <1>1. IInv => DeliveredIsPaid
    <2>. SUFFICES ASSUME IInv PROVE DeliveredIsPaid
      OBVIOUS
    <2>1. PaidSoFar(call, ledger)
      BY DEF IInv, CallOK
    <2>2. Paid = SpentSince(call.since, ledger)
      BY DEF Paid, SpentSince
    <2>. HIDE DEF Paid
    <2>. QED
      BY <2>1, <2>2 DEF PaidSoFar, DeliveredIsPaid, Scans
  <1>. QED
    BY <1>1, Inductive, PTL

(* However little there is to read or to list, every charge takes a token  *)
(* off the balance, so that no run is charged more than max_tokens times;  *)
(* a call that returns was charged, a scan for each file that it read      *)
(* (budget.estimate_tokens, tools.list_dir).                               *)
THEOREM ChargesAreNotFree == Spec => []NothingIsFree
  <1>1. IInv => NothingIsFree
    <2>. SUFFICES ASSUME IInv PROVE NothingIsFree
      OBVIOUS
    <2>1. Len(ledger) <= used
      BY LedgerAtLeast DEF IInv, BudgetOK
    <2>2. PaidSoFar(call, ledger) /\ call.saw \in Seq(ReadOf)
      BY DEF IInv, CallOK, IsCall
    <2>3. ASSUME call.status = "ok", call.tool \in Scans
          PROVE  call.charged >= Len(call.saw)
      <3>1. call.charged = CostOf(call.saw)
        BY <2>2, <2>3 DEF PaidSoFar
      <3>2. Len(call.saw) <= CostOf(call.saw)
        BY <2>2, CostAtLeast
      <3>. QED
        BY <3>1, <3>2
    <2>4. call.status = "ok" /\ call.tool \notin Scans => call.charged >= 1
      BY <2>2 DEF PaidSoFar
    <2>. QED
      BY <2>1, <2>3, <2>4 DEF NothingIsFree
  <1>. QED
    BY <1>1, Inductive, PTL

(* Whatever edits have made of the files, the walk finds their definitions *)
(* (indexer._walk).                                                        *)
THEOREM WalksStayExact == Spec => []WalkIsExact
  <1>1. IInv => WalkIsExact
    <2>. SUFFICES ASSUME IInv, NEW f \in Files, Readable(f)
                  PROVE  Symbols(disk[f]) = Definitions(disk[f])
      BY DEF WalkIsExact
    <2>1. disk[f] \in Sources
      BY DEF IInv, WorldOK, Readable
    <2>. QED
      BY <2>1, SymbolsAreDefinitions
  <1>. QED
    BY <1>1, Inductive, PTL

(* Whatever edits have made of the files, above the first form feed of a   *)
(* file the grep finds all code in the bodies of its functions and classes *)
(* but for that which shares its line with a comment directly in an        *)
(* outermost body, and nothing but code, except for strings and comments   *)
(* that stand deeper (tools._grep_bodies).                                 *)
THEOREM GrepsFindCode == Spec => []GrepFindsCode
  <1>1. IInv => GrepFindsCode
    <2>. SUFFICES ASSUME IInv, NEW f \in Files, Readable(f), NEW w \in Words
                  PROVE  GrepIsRight(disk[f], w)
      BY DEF GrepFindsCode
    <2>1. disk[f] \in Sources
      BY DEF IInv, WorldOK, Readable
    <2>. QED
      BY <2>1, MatchesAreCode
  <1>. QED
    BY <1>1, Inductive, PTL

(* A definition that is returned from a file as it was indexed is the only *)
(* one of that name in the file, and, with no form feed above its end, all *)
(* of it and nothing else, whatever happened between the SELECT and the    *)
(* read (tools.definition).                                                *)
THEOREM DefinitionsAreExact == Spec => []DefinitionIsExact
  <1>1. IInv => DefinitionIsExact
    <2>. DEFINE source == call.saw[1].source
                sym == call.sym.sym
    <2>. SUFFICES ASSUME IInv, call.tool = "definition", call.status = "ok",
                         source = call.sym.of
                  PROVE  \E d \in Named(source) :
                            /\ Named(source) = {d}
                            /\ d.end \notin Shifted(source) =>
                                  call.data = SubSeq(source, d.start, d.end)
      BY Zenon DEF DefinitionIsExact
    <2>1. FoundSoFar(call)
      BY DEF IInv, CallOK
    <2>2. /\ source \in Sources
          /\ {s \in Symbols(source) : s.name = call.word /\ call.parent \in {None, s.parent}}
               = {sym}
          /\ call.data = Lines(source, sym.start, sym.end)
      BY <2>1 DEF FoundSoFar
    <2>. HIDE DEF source, sym
    <2>3. Symbols(source) = Definitions(source)
      BY <2>2, SymbolsAreDefinitions
    <2>4. Named(source) = {sym}
      BY <2>2, <2>3 DEF Named
    <2>5. /\ sym.start \in Nat /\ sym.end \in Nat /\ Len(source) \in Nat
          /\ 1 <= sym.start /\ sym.start <= sym.end /\ sym.end <= Len(source)
      BY <2>2, SymbolLines
    <2>6. sym.end \in DOMAIN source
      BY <2>2, <2>5, LineFacts
    <2>7. sym.end \notin Shifted(source) => call.data = SubSeq(source, sym.start, sym.end)
      BY <2>2, <2>5, <2>6, LinesAre
    <2>. QED
      BY <2>4, <2>7
  <1>. QED
    BY <1>1, Inductive, PTL

(* The rows of a file that a search takes: all that it should find but     *)
(* what it may lose, no others but what it may take, and above the first   *)
(* form feed the text of each is that of its row.                          *)
LEMMA RowsAre ==
  ASSUME NEW source \in Sources, call.tool \in Scans, call.word \in Words
  PROVE  LET found == RowsOf(call.tool, source, call.word)
         IN  /\ Wanted(source) \ MayLose(source) \subseteq found
             /\ found \subseteq Wanted(source) \union MayTake(source)
             /\ \A n \in found : n \notin Shifted(source) =>
                   /\ SplitLines(source)[n] = source[n]
                   /\ source[n].word = call.word
  <1>. DEFINE word == call.word
  <1>1. CASE call.tool = "references"
    <2>1. \A n \in DOMAIN source :
             source[n].kind \in {"at", "if", "code", "noted"}
               <=> source[n].kind \notin {"class", "def", "text", "note"}
      BY LineFacts DEF Kinds
    <2>2. RowsOf(call.tool, source, word) = Wanted(source)
      BY <1>1, <2>1 DEF RowsOf, Uses, Wanted
    <2>3. \A n \in Wanted(source) : n \in DOMAIN source /\ source[n].word = word
      BY <1>1 DEF Wanted
    <2>. QED
      BY <2>2, <2>3, SplitAt
  <1>2. CASE call.tool # "references"
    <2>1. RowsOf(call.tool, source, word) = Matches(source, word)
      BY <1>2 DEF RowsOf
    <2>2. /\ Wanted(source) = Meant(source, word)
          /\ MayLose(source) = Overlooked(source) \union Shifted(source)
          /\ MayTake(source) = Mistaken(source) \union Shifted(source)
      BY <1>2 DEF Wanted, MayLose, MayTake
    <2>3. /\ Meant(source, word) \ (Overlooked(source) \union Shifted(source))
                \subseteq Matches(source, word)
          /\ \A n \in Matches(source, word) \ Shifted(source) :
                source[n].word = word /\ n \in CodeLines(source) \union Mistaken(source)
      BY MatchesAreCode DEF GrepIsRight
    <2>4. \A n \in CodeLines(source) \union Mistaken(source) : n \in DOMAIN source
      BY DEF CodeLines, Mistaken
    <2>5. \A n \in Matches(source, word) :
             n \in Meant(source, word) \union (Mistaken(source) \union Shifted(source))
      BY <2>3 DEF Meant
    <2>. QED
      BY <2>1, <2>2, <2>3, <2>4, <2>5, SplitAt
  <1>. QED
    BY <1>1, <1>2

(* A search that returns has read every file of its list, has all hits in  *)
(* them but what the grep overlooks, and no others but what it mistakes    *)
(* for code, each with its own text above the first form feed; one that    *)
(* raises returns nothing (tools.references, structural_grep).             *)
THEOREM SearchesAreComplete == Spec => []SearchIsComplete
  <1>1. IInv => SearchIsComplete
    <2>. SUFFICES ASSUME IInv, call.tool \in Scans PROVE SearchIsComplete
      BY DEF SearchIsComplete
    <2>. DEFINE Found(r) == RowsOf(call.tool, r.source, call.word)
                reads == {call.saw[k] : k \in DOMAIN call.saw}
    <2>1. ScanSoFar(call) /\ IsCall(call)
      BY DEF IInv, CallOK
    <2>2. ASSUME NEW k \in DOMAIN call.saw PROVE call.saw[k].source \in Sources
      <3>1. call.saw \in Seq(ReadOf)
        BY <2>1 DEF IsCall
      <3>2. call.saw[k] \in ReadOf
        <4>. HIDE DEF ReadOf
        <4>. QED
          BY <3>1
      <3>. QED
        BY <3>2 DEF ReadOf
    <2>3. call.status = "ok" => call.word \in Words /\ call.data = HitsOf(call)
      BY <2>1 DEF ScanSoFar
    <2>4. ASSUME call.status = "ok", NEW k \in DOMAIN call.saw,
                 NEW n \in Wanted(call.saw[k].source) \ MayLose(call.saw[k].source)
          PROVE  \E h \in call.data : h.file = call.saw[k].file /\ h.line = n
      <3>. DEFINE r == call.saw[k]
      <3>1. r.source \in Sources /\ r \in reads
        BY <2>2
      <3>. HIDE DEF r, reads
      <3>2. n \in Wanted(r.source) \ MayLose(r.source)
        BY <2>4 DEF r
      <3>3. n \in Found(r)
        BY <2>3, <2>4, <3>1, <3>2, RowsAre
      <3>4. HitAt(r, n) \in HitsIn(call.tool, r, call.word)
        BY <3>3 DEF HitsIn
      <3>5. HitAt(r, n) \in call.data
        BY <2>3, <2>4, <3>1, <3>4 DEF HitsOf, reads
      <3>6. HitAt(r, n).file = r.file /\ HitAt(r, n).line = n
        BY DEF HitAt
      <3>. QED
        BY <3>5, <3>6 DEF r
    <2>5. ASSUME call.status = "ok", NEW h \in call.data
          PROVE  \E k \in DOMAIN call.saw :
                    LET r == call.saw[k] IN
                    /\ h.file = r.file
                    /\ h.line \in Wanted(r.source) \union MayTake(r.source)
                    /\ h.line \notin Shifted(r.source) =>
                          h.text = r.source[h.line] /\ h.text.word = call.word
      <3>1. PICK k \in DOMAIN call.saw : h \in HitsIn(call.tool, call.saw[k], call.word)
        BY <2>3, <2>5 DEF HitsOf
      <3>. DEFINE r == call.saw[k]
      <3>2. r.source \in Sources
        BY <2>2
      <3>3. h \in HitsIn(call.tool, r, call.word)
        BY <3>1
      <3>. HIDE DEF r
      <3>4. PICK n \in Found(r) : h = HitAt(r, n)
        BY <3>3 DEF HitsIn
      <3>5. h.file = r.file /\ h.line = n /\ h.text = SplitLines(r.source)[n]
        BY <3>4 DEF HitAt
      <3>6. /\ n \in Wanted(r.source) \union MayTake(r.source)
            /\ n \notin Shifted(r.source) =>
                  SplitLines(r.source)[n] = r.source[n] /\ r.source[n].word = call.word
        BY <2>3, <2>5, <3>2, <3>4, RowsAre
      <3>. QED
        BY <3>5, <3>6 DEF r
    <2>6. call.status = "ok" => FilesRead = call.files
      BY <2>1 DEF ScanSoFar, FilesRead, FilesOf
    <2>7. call.status \in {"error", "exhausted"} => call.data = {}
      BY <2>1 DEF ScanSoFar
    <2>. QED
      BY <2>4, <2>5, <2>6, <2>7, Zenon DEF SearchIsComplete
  <1>. QED
    BY <1>1, Inductive, PTL
=============================================================================

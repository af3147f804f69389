------------------------- MODULE PythonSourceProofs -------------------------
(***************************************************************************)
(* Proofs about PythonSource: in every file that parses, the walk of the   *)
(* indexer finds the definitions that the indentation tells, and the grep  *)
(* the code in their bodies, but for the deviations named.  A walk is a recursion from a node to its   *)
(* children; its result is given in closed form (Below, GrepBelow), which  *)
(* is shown to satisfy the equation of the recursion (WalkStep, GrepStep)  *)
(* and to be the only one that does (WalkIs, GrepIs).                      *)
(***************************************************************************)
EXTENDS PythonSource, Integers, FiniteSetTheorems, WellFoundedInduction, TLAPS

(* A set of naturals has a least element: the induction of all that        *)
(* follows.                                                                *)
LEMMA LeastOf ==
  ASSUME NEW S, S \subseteq Nat, S # {}
  PROVE  \E n \in S : \A m \in S : n <= m
  <1>1. \E R : IsWellFoundedOn(R, Nat) /\ \A x, y \in Nat : <<x, y>> \in R <=> x < y
    <2>1. \A x, y \in Nat : <<x, y>> \in OpToRel(<, Nat) <=> x < y
      BY DEF OpToRel
    <2>. QED
      BY <2>1, NatLessThanWellFounded, Zenon
  <1>2. PICK R : IsWellFoundedOn(R, Nat) /\ \A x, y \in Nat : <<x, y>> \in R <=> x < y
    BY <1>1
  <1>3. PICK n \in S : \A m \in S : <<m, n>> \notin R
    <2>1. IsWellFoundedOn(R, Nat) /\ S \subseteq Nat
      BY <1>2
    <2>. QED
      BY <2>1, WFMin, Zenon
  <1>4. \A m \in S : ~ (m < n)
    BY <1>2, <1>3
  <1>. QED
    BY <1>4

LEMMA GreatestOf ==
  ASSUME NEW b \in Nat, NEW S, S \subseteq 0 .. b, S # {}
  PROVE  \E n \in S : \A m \in S : n >= m
  <1>. DEFINE T == {b - m : m \in S}
  <1>1. T \subseteq Nat /\ T # {}
    <2>1. \A m \in S : m \in 0 .. b /\ b - m \in Nat
      OBVIOUS
    <2>. QED
      BY <2>1
  <1>2. PICK k \in T : \A j \in T : k <= j
    <2>. HIDE DEF T
    <2>. QED
      BY <1>1, LeastOf
  <1>3. PICK n \in S : k = b - n
    BY <1>2
  <1>4. \A m \in S : b - m \in T
    OBVIOUS
  <1>5. \A m \in S : b - n <= b - m /\ m \in 0 .. b /\ n \in 0 .. b
    BY <1>2, <1>3, <1>4
  <1>. QED
    BY <1>5

LEMMA LeastIs ==
  ASSUME NEW S, S \subseteq Nat, S # {}
  PROVE  Least(S) \in S /\ \A m \in S : Least(S) <= m
  <1>1. \E n \in S : \A m \in S : n <= m
    BY LeastOf
  <1>. QED
    BY <1>1, Zenon DEF Least

LEMMA GreatestIs ==
  ASSUME NEW b \in Nat, NEW S, S \subseteq 0 .. b, S # {}
  PROVE  Greatest(S) \in S /\ \A m \in S : Greatest(S) >= m
  <1>1. \E n \in S : \A m \in S : n >= m
    BY GreatestOf
  <1>. QED
    BY <1>1, Zenon DEF Greatest

LEMMA LeastUnique ==
  ASSUME NEW S, S \subseteq Nat, NEW n \in S, \A m \in S : n <= m
  PROVE  Least(S) = n
  <1>1. Least(S) \in S /\ Least(S) <= n
    BY LeastIs
  <1>2. n <= Least(S) /\ n \in Nat /\ Least(S) \in Nat
    BY <1>1
  <1>. QED
    BY <1>1, <1>2

LEMMA GreatestUnique ==
  ASSUME NEW S, S \subseteq Nat, NEW n \in S, \A m \in S : n >= m
  PROVE  Greatest(S) = n
  <1>1. S \subseteq 0 .. n /\ n \in Nat
    OBVIOUS
  <1>2. Greatest(S) \in S /\ Greatest(S) >= n
    BY <1>1, GreatestIs
  <1>3. n >= Greatest(S) /\ n \in Nat /\ Greatest(S) \in Nat
    BY <1>2
  <1>. QED
    BY <1>2, <1>3
-----------------------------------------------------------------------------
(* Lines and statements. *)

LEMMA LineFacts ==
  ASSUME NEW source \in Sources
  PROVE  /\ Len(source) \in Nat /\ DOMAIN source = 1 .. Len(source)
         /\ \A n \in 1 .. Len(source) :
               /\ source[n].kind \in Kinds /\ source[n].depth \in Nat
               /\ source[n].word \in Words /\ source[n].feed \in BOOLEAN
         /\ \A n \in 1 .. Len(source) : n > 1 => Follows(source[n], source[n - 1])
         /\ Len(source) > 0 => /\ source[1].depth = 0
                               /\ source[Len(source)].kind \notin Opens \union {"at"}
  <1>. DEFINE Line == [kind : Kinds, depth : Nat, word : Words, feed : BOOLEAN]
  <1>1. /\ source \in Seq(Line)
        /\ source # <<>> => source[1].depth = 0
        /\ \A n \in 2 .. Len(source) : Follows(source[n], source[n - 1])
        /\ Complete(source)
    BY DEF Sources
  <1>2. Len(source) \in Nat /\ DOMAIN source = 1 .. Len(source)
    BY <1>1
  <1>3. \A n \in 1 .. Len(source) : source[n] \in Line
    <2>. HIDE DEF Line
    <2>. QED
      BY <1>1
  <1>4. Len(source) > 0 => source # <<>>
    BY <1>1
  <1>5. \A n \in 1 .. Len(source) : n > 1 => n \in 2 .. Len(source)
    BY <1>2
  <1>. QED
    BY <1>1, <1>2, <1>3, <1>4, <1>5 DEF Complete

LEMMA StatementIs ==
  ASSUME NEW source \in Sources, NEW n
  PROVE  n \in Statements(source) <=>
            n \in 1 .. Len(source) /\ (n = 1 \/ source[n - 1].kind # "at")
  BY LineFacts DEF Statements

(* A line that opens no block is followed by none that is deeper, a        *)
(* decorator by one at its own depth.                                      *)
LEMMA NextLine ==
  ASSUME NEW source \in Sources, NEW n \in 1 .. Len(source), n < Len(source)
  PROVE  /\ n + 1 \in 1 .. Len(source)
         /\ source[n].kind \in Opens => source[n + 1].depth = source[n].depth + 1
         /\ source[n].kind \notin Opens => source[n + 1].depth <= source[n].depth
         /\ source[n].kind = "at" =>
               /\ source[n + 1].depth = source[n].depth
               /\ Header(source[n + 1]) \/ source[n + 1].kind = "at"
  <1>1. n + 1 \in 1 .. Len(source) /\ n + 1 > 1 /\ n + 1 - 1 = n
    BY LineFacts
  <1>2. Follows(source[n + 1], source[n])
    BY <1>1, LineFacts
  <1>. QED
    BY <1>1, <1>2 DEF Follows

At(source, h) == Node(source, h).at
End(source, h) == Node(source, h).end

(* Decorators stand at the depth of what they decorate. *)
LEMMA DecoratorDepth ==
  ASSUME NEW source \in Sources, NEW h \in 1 .. Len(source), NEW at \in h .. Len(source),
         \A j \in h .. at - 1 : source[j].kind = "at"
  PROVE  \A j \in h .. at : source[j].depth = source[h].depth
  <1>. DEFINE S == {j \in h .. at : source[j].depth # source[h].depth}
  <1>1. Len(source) \in Nat /\ S \subseteq Nat
    BY LineFacts
  <1>2. ASSUME S # {} PROVE FALSE
    <2>1. PICK j \in S : \A i \in S : j <= i
      BY <1>1, <1>2, LeastOf
    <2>2. j - 1 \in h .. at - 1 /\ j - 1 \notin S /\ j > h
      BY <1>1, <2>1
    <2>3. source[j - 1].kind = "at" /\ source[j - 1].depth = source[h].depth
      BY <1>1, <2>2
    <2>4. source[(j - 1) + 1].depth = source[j - 1].depth
      <3>1. j - 1 \in 1 .. Len(source) /\ j - 1 < Len(source)
        BY <1>1, <2>1, <2>2
      <3>. QED
        BY <2>3, <3>1, NextLine
    <2>5. (j - 1) + 1 = j
      BY <1>1, <2>1
    <2>. QED
      BY <2>1, <2>3, <2>4, <2>5
  <1>. QED
    BY <1>2

LEMMA NodeAt ==
  ASSUME NEW source \in Sources, NEW h \in Statements(source)
  PROVE  /\ At(source, h) \in h .. Len(source)
         /\ source[At(source, h)].kind # "at"
         /\ \A j \in h .. At(source, h) - 1 : source[j].kind = "at"
         /\ \A j \in h .. At(source, h) : source[j].depth = source[h].depth
         /\ h < At(source, h) => Header(source[At(source, h)])
         /\ Node(source, h).type = source[At(source, h)].kind
         /\ Node(source, h).name = source[At(source, h)].word
         /\ Node(source, h).start = h
  <1>. DEFINE S == {n \in h .. Len(source) : source[n].kind # "at"}
              at == Least(S)
  <1>1. h \in 1 .. Len(source) /\ Len(source) \in Nat
    BY StatementIs, LineFacts
  <1>2. S \subseteq Nat /\ Len(source) \in S
    BY <1>1, LineFacts
  <1>3. at \in S /\ \A m \in S : at <= m
    <2>. HIDE DEF S
    <2>. QED
      BY <1>2, LeastIs
  <1>4. /\ At(source, h) = at
        /\ Node(source, h).type = source[at].kind
        /\ Node(source, h).name = source[at].word
        /\ Node(source, h).start = h
    BY DEF At, Node
  <1>5. \A j \in h .. at - 1 : source[j].kind = "at"
    <2>. SUFFICES ASSUME NEW j \in h .. at - 1, source[j].kind # "at" PROVE FALSE
      OBVIOUS
    <2>1. at \in h .. Len(source)
      BY <1>3
    <2>2. j \in S /\ j < at
      BY <1>1, <2>1
    <2>. QED
      BY <1>1, <1>3, <2>2
  <1>6. at \in h .. Len(source) /\ source[at].kind # "at"
    BY <1>3
  <1>. HIDE DEF at
  <1>7. \A j \in h .. at : source[j].depth = source[h].depth
    BY <1>1, <1>5, <1>6, DecoratorDepth
  <1>8. h < at => Header(source[at])
    <2>. SUFFICES ASSUME h < at PROVE Header(source[at])
      OBVIOUS
    <2>1. at - 1 \in h .. at - 1 /\ at - 1 \in 1 .. Len(source) /\ at - 1 < Len(source)
          /\ (at - 1) + 1 = at
      BY <1>1, <1>6
    <2>2. source[at - 1].kind = "at"
      BY <1>5, <2>1
    <2>3. Header(source[(at - 1) + 1]) \/ source[(at - 1) + 1].kind = "at"
      BY <2>1, <2>2, NextLine
    <2>. QED
      BY <1>6, <2>1, <2>3
  <1>. QED
    BY <1>4, <1>5, <1>6, <1>7, <1>8

(* A node ends where the next statement that is not deeper begins; all the *)
(* lines in between are deeper.                                            *)
LEMMA NodeEnd ==
  ASSUME NEW source \in Sources, NEW h \in Statements(source)
  PROVE  /\ End(source, h) \in At(source, h) .. Len(source)
         /\ \A j \in At(source, h) + 1 .. End(source, h) : source[j].depth > source[h].depth
         /\ End(source, h) < Len(source) =>
               /\ End(source, h) + 1 \in Statements(source)
               /\ source[End(source, h) + 1].depth <= source[h].depth
  <1>. DEFINE at == At(source, h)
              next == {n \in Statements(source) :
                          n > at /\ source[n].depth <= source[h].depth}
              end == End(source, h)
  <1>1. /\ h \in 1 .. Len(source) /\ Len(source) \in Nat
        /\ at \in h .. Len(source) /\ source[at].kind # "at"
    BY StatementIs, LineFacts, NodeAt
  <1>2. end = IF next = {} THEN Len(source) ELSE Least(next) - 1
    BY DEF End, Node, At
  <1>3. next \subseteq Nat /\ \A n \in next : n \in 1 .. Len(source) /\ n > at
    BY <1>1, StatementIs
  <1>4. next # {} => Least(next) \in next /\ \A n \in next : Least(next) <= n
    <2>. HIDE DEF next
    <2>. QED
      BY <1>3, LeastIs
  <1>5. end \in at .. Len(source) /\ \A n \in next : end < n
    <2>1. CASE next = {}
      BY <1>1, <1>2, <2>1
    <2>2. CASE next # {}
      <3>. DEFINE m == Least(next)
      <3>1. m \in 1 .. Len(source) /\ m > at /\ \A n \in next : m <= n
        BY <1>3, <1>4, <2>2
      <3>2. end = m - 1
        BY <1>2, <2>2
      <3>. HIDE DEF m, end, next
      <3>. QED
        BY <1>1, <1>3, <3>1, <3>2
    <2>. QED
      BY <2>1, <2>2
  <1>6. end < Len(source) => end + 1 \in next
    <2>. SUFFICES ASSUME end < Len(source) PROVE end + 1 \in next
      OBVIOUS
    <2>1. next # {} /\ end = Least(next) - 1
      BY <1>2
    <2>2. Least(next) \in next /\ Least(next) \in Nat
      BY <1>3, <1>4, <2>1
    <2>. QED
      BY <2>1, <2>2
  <1>7. \A j \in at + 1 .. end : source[j].depth > source[h].depth
    <2>. DEFINE S == {j \in at + 1 .. end : ~ (source[j].depth > source[h].depth)}
    <2>. SUFFICES ASSUME S # {} PROVE FALSE
      OBVIOUS
    <2>1. S \subseteq Nat
      BY <1>1, <1>5
    <2>2. PICK j \in S : \A i \in S : j <= i
      <3>. HIDE DEF S
      <3>. QED
        BY <2>1, LeastOf
    <2>3. /\ j \in at + 1 .. end /\ j \in 1 .. Len(source)
          /\ source[j].depth \in Nat /\ source[h].depth \in Nat
          /\ source[j].depth <= source[h].depth
      BY <1>1, <1>5, <2>2, LineFacts
    <2>4. source[j - 1].kind # "at"
      <3>. SUFFICES ASSUME source[j - 1].kind = "at" PROVE FALSE
        OBVIOUS
      <3>1. j - 1 # at /\ j - 1 \in at + 1 .. end
        BY <1>1, <1>5, <2>3
      <3>2. j - 1 \in 1 .. Len(source) /\ j - 1 < Len(source) /\ (j - 1) + 1 = j
        BY <1>1, <1>5, <2>3, <3>1
      <3>3. source[j].depth = source[j - 1].depth
        BY <3>2, NextLine
      <3>4. j - 1 \in S
        BY <2>3, <3>1, <3>3
      <3>. QED
        BY <2>2, <2>3, <3>4
    <2>5. j \in next
      BY <1>1, <2>3, <2>4, StatementIs
    <2>. QED
      BY <1>1, <1>5, <2>3, <2>5
  <1>8. end + 1 \in next => end + 1 \in Statements(source)
                            /\ source[end + 1].depth <= source[h].depth
    OBVIOUS
  <1>. HIDE DEF end, next
  <1>. QED
    BY <1>5, <1>6, <1>7, <1>8 DEF end
-----------------------------------------------------------------------------
(* Blocks: lines a .. b of which none is less deep than the first, up to a *)
(* statement that is.                                                      *)
IsBlock(source, a, b) ==
    /\ a \in Statements(source) /\ b \in a .. Len(source)
    /\ \A j \in a .. b : source[j].depth >= source[a].depth
    /\ b < Len(source) =>
          b + 1 \in Statements(source) /\ source[b + 1].depth < source[a].depth

LEMMA ChildInside ==
  ASSUME NEW source \in Sources, NEW a, NEW b, IsBlock(source, a, b),
         NEW c \in Block(source, a, b)
  PROVE  /\ c \in Statements(source) /\ c \in a .. b /\ source[c].depth = source[a].depth
         /\ At(source, c) \in c .. b /\ End(source, c) \in At(source, c) .. b
  <1>1. c \in Statements(source) /\ c \in a .. b /\ source[c].depth = source[a].depth
    BY DEF Block
  <1>2. /\ a \in 1 .. Len(source) /\ b \in a .. Len(source) /\ Len(source) \in Nat
        /\ source[a].depth \in Nat
        /\ b < Len(source) => source[b].kind # "at" /\ source[b + 1].depth < source[a].depth
                              /\ source[b + 1].depth \in Nat
    <2>1. a \in 1 .. Len(source) /\ b \in a .. Len(source) /\ Len(source) \in Nat
          /\ source[a].depth \in Nat
      BY StatementIs, LineFacts DEF IsBlock
    <2>2. ASSUME b < Len(source)
          PROVE  source[b].kind # "at" /\ source[b + 1].depth < source[a].depth
                 /\ source[b + 1].depth \in Nat
      <3>1. b + 1 \in Statements(source) /\ source[b + 1].depth < source[a].depth
        BY <2>2 DEF IsBlock
      <3>2. b + 1 # 1 /\ (b + 1) - 1 = b
        BY <2>1
      <3>. QED
        BY <3>1, <3>2, StatementIs, LineFacts
    <2>. QED
      BY <2>1, <2>2
  <1>3. /\ At(source, c) \in c .. Len(source)
        /\ \A j \in c .. At(source, c) - 1 : source[j].kind = "at"
    BY <1>1, NodeAt
  <1>4. At(source, c) <= b
    BY <1>1, <1>2, <1>3
  <1>5. /\ End(source, c) \in At(source, c) .. Len(source)
        /\ \A j \in At(source, c) + 1 .. End(source, c) : source[j].depth > source[c].depth
    BY <1>1, NodeEnd
  <1>6. End(source, c) <= b
    <2>. SUFFICES ASSUME End(source, c) > b PROVE FALSE
      BY <1>1, <1>2, <1>3, <1>5
    <2>1. b + 1 \in At(source, c) + 1 .. End(source, c) /\ b < Len(source)
      BY <1>1, <1>2, <1>3, <1>4, <1>5
    <2>. QED
      BY <1>1, <1>2, <1>5, <2>1
  <1>. QED
    BY <1>1, <1>2, <1>3, <1>4, <1>5, <1>6

(* Every line of a block is in one of its statements. *)
LEMMA BlockCovers ==
  ASSUME NEW source \in Sources, NEW a, NEW b, IsBlock(source, a, b), NEW k \in a .. b
  PROVE  \E c \in Block(source, a, b) : k \in c .. End(source, c)
  <1>. DEFINE S == {c \in Block(source, a, b) : c <= k}
  <1>1. a \in 1 .. Len(source) /\ b \in a .. Len(source) /\ Len(source) \in Nat
        /\ a \in Statements(source)
    BY StatementIs, LineFacts DEF IsBlock
  <1>2. a \in S /\ S \subseteq 0 .. k /\ k \in Nat
    <2>1. a \in Block(source, a, b) /\ a <= k /\ k \in Nat
      BY <1>1 DEF Block
    <2>2. \A c \in Block(source, a, b) : c \in a .. b
      BY DEF Block
    <2>. QED
      BY <1>1, <2>1, <2>2
  <1>3. PICK c \in S : \A d \in S : c >= d
    <2>. HIDE DEF S
    <2>. QED
      BY <1>2, GreatestOf
  <1>4. c \in Block(source, a, b) /\ c <= k /\ c \in a .. b
    BY <1>3 DEF Block
  <1>5. /\ End(source, c) \in c .. b /\ source[c].depth = source[a].depth
        /\ c \in Statements(source)
    BY <1>1, <1>4, ChildInside
  <1>6. k <= End(source, c)
    <2>. SUFFICES ASSUME ~ (k <= End(source, c)) PROVE FALSE
      OBVIOUS
    <2>. DEFINE e == End(source, c) + 1
    <2>1. e \in a .. b /\ e <= k /\ e > c /\ End(source, c) < Len(source)
      BY <1>1, <1>4, <1>5
    <2>2. e \in Statements(source) /\ source[e].depth <= source[c].depth
      BY <1>5, <2>1, NodeEnd
    <2>3. source[e].depth >= source[a].depth
      BY <2>1 DEF IsBlock
    <2>4. source[e].depth \in Nat /\ source[a].depth \in Nat
      BY <1>1, <2>1, LineFacts
    <2>5. e \in S
      BY <1>5, <2>1, <2>2, <2>3, <2>4 DEF Block
    <2>. QED
      BY <1>1, <1>3, <1>4, <2>1, <2>5
  <1>. QED
    BY <1>1, <1>4, <1>5, <1>6

LEMMA RegionIs ==
  ASSUME NEW source \in Sources, NEW x \in 1 .. Len(source), NEW n
  PROVE  n \in Region(source, x) <=>
            /\ n \in x + 1 .. Len(source)
            /\ \A j \in x + 1 .. n : source[j].depth > source[x].depth
  BY DEF Region

(* What stands before a statement of a block is not around it. *)
LEMMA NotAround ==
  ASSUME NEW source \in Sources, NEW a, NEW b, IsBlock(source, a, b),
         NEW c \in Block(source, a, b), NEW x \in a .. c - 1, NEW n \in Nat, n >= c
  PROVE  n \notin Region(source, x)
  <1>1. /\ a \in 1 .. Len(source) /\ b \in a .. Len(source) /\ Len(source) \in Nat
        /\ c \in a .. b /\ source[c].depth = source[a].depth
    BY StatementIs, LineFacts DEF IsBlock, Block
  <1>2. x \in 1 .. Len(source) /\ x \in a .. b /\ c \in x + 1 .. n
    BY <1>1
  <1>3. source[x].depth >= source[a].depth /\ source[x].depth \in Nat
        /\ source[a].depth \in Nat
    BY <1>1, <1>2, LineFacts DEF IsBlock
  <1>. QED
    BY <1>1, <1>2, <1>3, RegionIs

LEMMA NodeBlock ==
  ASSUME NEW source \in Sources, NEW h \in Statements(source)
  PROVE  IF At(source, h) < End(source, h)
         THEN /\ IsBlock(source, At(source, h) + 1, End(source, h))
              /\ Node(source, h).body = Block(source, At(source, h) + 1, End(source, h))
              /\ source[At(source, h)].kind \in Opens
              /\ source[At(source, h) + 1].depth = source[h].depth + 1
         ELSE Node(source, h).body = {}
  <1>. DEFINE at == At(source, h)
              end == End(source, h)
  <1>1. Node(source, h).body = IF at < end THEN Block(source, at + 1, end) ELSE {}
    BY DEF Node, At, End
  <1>2. /\ h \in 1 .. Len(source) /\ at \in h .. Len(source) /\ Len(source) \in Nat
        /\ end \in at .. Len(source) /\ source[at].kind # "at"
        /\ source[at].depth = source[h].depth /\ source[h].depth \in Nat
        /\ \A j \in at + 1 .. end : source[j].depth > source[h].depth
        /\ end < Len(source) => end + 1 \in Statements(source)
                                /\ source[end + 1].depth <= source[h].depth
    <2>1. h \in 1 .. Len(source) /\ Len(source) \in Nat /\ source[h].depth \in Nat
      BY StatementIs, LineFacts
    <2>2. at \in h .. Len(source) /\ source[at].kind # "at"
          /\ \A j \in h .. at : source[j].depth = source[h].depth
      BY NodeAt
    <2>3. source[at].depth = source[h].depth
      BY <2>1, <2>2
    <2>. QED
      BY <2>1, <2>2, <2>3, NodeEnd
  <1>3. ASSUME at < end
        PROVE  /\ source[at].kind \in Opens
               /\ source[at + 1].depth = source[h].depth + 1
               /\ IsBlock(source, at + 1, end)
    <2>. HIDE DEF at, end
    <2>1. /\ at + 1 \in at + 1 .. end /\ at \in 1 .. Len(source) /\ at < Len(source)
          /\ at + 1 \in 1 .. Len(source)
      BY <1>2, <1>3
    <2>2. source[at + 1].depth > source[at].depth /\ source[at + 1].depth \in Nat
      BY <1>2, <2>1, LineFacts
    <2>3. source[at].kind \in Opens /\ source[at + 1].depth = source[h].depth + 1
      BY <1>2, <2>1, <2>2, NextLine
    <2>4. at + 1 \in Statements(source)
      BY <1>2, <2>1, StatementIs
    <2>5. \A j \in at + 1 .. end : j \in 1 .. Len(source) /\ source[j].depth \in Nat
      BY <1>2, LineFacts
    <2>6. \A j \in at + 1 .. end : source[j].depth >= source[at + 1].depth
      BY <1>2, <2>3, <2>5
    <2>7. end < Len(source) => source[end + 1].depth < source[at + 1].depth
      <3>1. end < Len(source) => source[end + 1].depth \in Nat
        BY <1>2, LineFacts
      <3>. QED
        BY <1>2, <2>3, <3>1
    <2>. QED
      BY <1>2, <1>3, <2>1, <2>3, <2>4, <2>6, <2>7 DEF IsBlock
  <1>. QED
    BY <1>1, <1>3

(* The lines below a definition are those of its node. *)
LEMMA NodeRegion ==
  ASSUME NEW source \in Sources, NEW h \in Statements(source)
  PROVE  Region(source, At(source, h)) = At(source, h) + 1 .. End(source, h)
  <1>. DEFINE at == At(source, h)
              end == End(source, h)
  <1>1. /\ h \in 1 .. Len(source) /\ at \in h .. Len(source) /\ Len(source) \in Nat
        /\ end \in at .. Len(source)
        /\ source[at].depth = source[h].depth /\ source[h].depth \in Nat
        /\ \A j \in at + 1 .. end : source[j].depth > source[h].depth
        /\ end < Len(source) => end + 1 \in 1 .. Len(source) /\ source[end + 1].depth \in Nat
                                /\ source[end + 1].depth <= source[h].depth
    BY StatementIs, LineFacts, NodeAt, NodeEnd
  <1>. HIDE DEF at, end
  <1>2. ASSUME NEW n \in at + 1 .. end PROVE n \in Region(source, at)
    BY <1>1, <1>2, RegionIs
  <1>3. ASSUME NEW n \in Region(source, at) PROVE n \in at + 1 .. end
    <2>1. n \in at + 1 .. Len(source) /\ \A j \in at + 1 .. n : source[j].depth > source[at].depth
      BY <1>1, <1>3, RegionIs
    <2>2. ASSUME n > end PROVE FALSE
      <3>1. end < Len(source) /\ end + 1 \in at + 1 .. n
        BY <1>1, <2>1, <2>2
      <3>. QED
        BY <1>1, <2>1, <3>1
    <2>. QED
      BY <1>1, <2>1, <2>2
  <1>. QED
    BY <1>2, <1>3 DEF at, end
-----------------------------------------------------------------------------
(* The symbols of a node, told by the layout of its lines. *)

StartOf(source, n) == Least({h \in 1 .. n : \A j \in h .. n - 1 : source[j].kind = "at"})
EndOf(source, n) == Greatest(Region(source, n) \union {n})

(* the definition in line n, as a member of class *)
As(source, n, class) ==
    IF source[n].kind = "class"
    THEN Sym(source[n].word, "class", StartOf(source, n), EndOf(source, n), Nobody)
    ELSE Sym(source[n].word, IF class = Nobody THEN "function" ELSE "method",
             StartOf(source, n), EndOf(source, n), class)

Inside(source, h, n) == ClassesAround(source, n) \intersect (h .. End(source, h))

(* the class around line n, as far as it is in node h *)
ClassBelow(source, h, parent, n) ==
    IF Inside(source, h, n) = {} THEN parent
    ELSE source[Greatest(Inside(source, h, n))].word

Below(source, h, parent) ==
    {As(source, n, ClassBelow(source, h, parent, n)) :
        n \in {m \in h .. End(source, h) : Header(source[m])}}

LEMMA NodeSpan ==
  ASSUME NEW source \in Sources, NEW h \in Statements(source)
  PROVE  StartOf(source, At(source, h)) = h /\ EndOf(source, At(source, h)) = End(source, h)
  <1>. DEFINE at == At(source, h)
              end == End(source, h)
              S == {x \in 1 .. at : \A j \in x .. at - 1 : source[j].kind = "at"}
  <1>1. /\ h \in 1 .. Len(source) /\ at \in h .. Len(source) /\ Len(source) \in Nat
        /\ h = 1 \/ source[h - 1].kind # "at"
        /\ \A j \in h .. at - 1 : source[j].kind = "at"
        /\ end \in at .. Len(source)
    BY StatementIs, LineFacts, NodeAt, NodeEnd
  <1>2. h \in S /\ S \subseteq Nat
    BY <1>1
  <1>3. \A m \in S : h <= m
    <2>. SUFFICES ASSUME NEW m \in S, m < h PROVE FALSE
      BY <1>1
    <2>1. h - 1 \in m .. at - 1 /\ h # 1
      BY <1>1
    <2>. QED
      BY <1>1, <2>1
  <1>4. Least(S) = h
    <2>. HIDE DEF S
    <2>. QED
      BY <1>2, <1>3, LeastUnique
  <1>5. Region(source, at) \union {at} = at .. end
    <2>1. Region(source, at) = at + 1 .. end
      BY NodeRegion
    <2>. QED
      BY <1>1, <2>1
  <1>6. Greatest(at .. end) = end
    <2>. HIDE DEF at, end
    <2>1. at .. end \subseteq Nat /\ end \in at .. end /\ \A m \in at .. end : end >= m
      BY <1>1
    <2>. QED
      BY <2>1, GreatestUnique
  <1>. QED
    BY <1>4, <1>5, <1>6 DEF StartOf, EndOf

LEMMA OwnIs ==
  ASSUME NEW source \in Sources, NEW h \in Statements(source), NEW p
  PROVE  Own(Node(source, h), p) =
            IF Header(source[At(source, h)]) THEN {As(source, At(source, h), p)} ELSE {}
  <1>. DEFINE line == source[At(source, h)]
  <1>1. /\ Node(source, h).type = line.kind /\ Node(source, h).name = line.word
        /\ Node(source, h).start = h /\ Node(source, h).end = End(source, h)
    BY NodeAt DEF End
  <1>2. Span(Node(source, h))[1] = h /\ Span(Node(source, h))[2] = End(source, h)
    BY <1>1 DEF Span
  <1>3. StartOf(source, At(source, h)) = h /\ EndOf(source, At(source, h)) = End(source, h)
    BY NodeSpan
  <1>4. CASE line.kind = "class"
    BY <1>1, <1>2, <1>3, <1>4 DEF Own, As, Header
  <1>5. CASE line.kind = "def"
    BY <1>1, <1>2, <1>3, <1>5 DEF Own, As, Header
  <1>6. CASE line.kind \notin {"class", "def"}
    BY <1>1, <1>6 DEF Own, Header
  <1>. QED
    BY <1>4, <1>5, <1>6

LEMMA AroundIs ==
  ASSUME NEW source \in Sources, NEW n \in 1 .. Len(source), NEW x
  PROVE  x \in Around(source, n) <=>
            x \in 1 .. n - 1 /\ Header(source[x]) /\ n \in Region(source, x)
  BY DEF Around

(* What is around a line of a child and in the node is around it in the    *)
(* child, or is the node itself.                                           *)
LEMMA AroundInChild ==
  ASSUME NEW source \in Sources, NEW h \in Statements(source),
         NEW c \in Node(source, h).body, NEW n \in c .. End(source, c), NEW x
  PROVE  /\ x \in Around(source, n) /\ x \in h .. End(source, h) <=>
               \/ x \in Around(source, n) /\ x \in c .. End(source, c)
               \/ x = At(source, h) /\ Header(source[At(source, h)])
         /\ c \in Statements(source) /\ At(source, h) < c /\ c <= n
         /\ n \in At(source, h) + 1 .. End(source, h)
  <1>. DEFINE at == At(source, h)
              end == End(source, h)
  <1>1. at < end /\ IsBlock(source, at + 1, end) /\ c \in Block(source, at + 1, end)
    BY NodeBlock
  <1>2. /\ h \in 1 .. Len(source) /\ at \in h .. Len(source) /\ Len(source) \in Nat
        /\ \A j \in h .. at - 1 : source[j].kind = "at"
        /\ end \in at .. Len(source)
    BY StatementIs, LineFacts, NodeAt, NodeEnd
  <1>3. c \in Statements(source) /\ c \in at + 1 .. end /\ At(source, c) \in c .. end
        /\ End(source, c) \in At(source, c) .. end
    BY <1>1, ChildInside
  <1>. HIDE DEF at, end
  <1>4. n \in at + 1 .. end /\ n \in 1 .. Len(source) /\ at < c /\ c <= n
    BY <1>2, <1>3
  <1>5. ASSUME x \in Around(source, n), x \in h .. end, x # at
        PROVE  x \in c .. End(source, c)
    <2>1. x \in 1 .. n - 1 /\ Header(source[x]) /\ n \in Region(source, x)
      BY <1>4, <1>5, AroundIs
    <2>2. x > at
      <3>1. source[x].kind # "at"
        BY <2>1 DEF Header
      <3>. QED
        BY <1>2, <1>5, <2>1, <3>1
    <2>3. ASSUME x < c PROVE FALSE
      <3>1. x \in at + 1 .. c - 1 /\ n \in Nat /\ n >= c
        BY <1>2, <1>3, <1>4, <2>1, <2>2, <2>3
      <3>. QED
        BY <1>1, <2>1, <3>1, NotAround
    <2>. QED
      BY <1>2, <1>3, <1>4, <2>1, <2>3
  <1>6. ASSUME x = at, Header(source[at])
        PROVE  x \in Around(source, n) /\ x \in h .. end
    <2>1. n \in Region(source, at)
      BY <1>4, NodeRegion DEF at, end
    <2>. QED
      BY <1>2, <1>4, <1>6, <2>1, AroundIs
  <1>7. ASSUME x \in c .. End(source, c)
        PROVE  x \in h .. end
    BY <1>2, <1>3, <1>7
  <1>8. x \in Around(source, n) => Header(source[x])
    BY <1>4, AroundIs
  <1>. QED
    BY <1>3, <1>4, <1>5, <1>6, <1>7, <1>8 DEF at, end

LEMMA ClassStep ==
  ASSUME NEW source \in Sources, NEW h \in Statements(source), NEW p,
         NEW c \in Node(source, h).body, NEW n \in c .. End(source, c)
  PROVE  ClassBelow(source, h, p, n)
            = ClassBelow(source, c, Context(Node(source, h), p), n)
  <1>. DEFINE at == At(source, h)
              I == Inside(source, h, n)
              J == Inside(source, c, n)
              own == IF source[at].kind = "class" THEN {at} ELSE {}
  <1>1. /\ c \in Statements(source) /\ at < c /\ c <= n
        /\ n \in at + 1 .. End(source, h)
    BY AroundInChild
  <1>2. /\ h \in 1 .. Len(source) /\ at \in h .. Len(source) /\ Len(source) \in Nat
        /\ c \in 1 .. Len(source) /\ End(source, h) \in at .. Len(source)
    BY <1>1, StatementIs, LineFacts, NodeAt, NodeEnd
  <1>3. I = J \union own
    <2>1. \A x : x \in I <=> x \in J \/ x \in own
      <3>. SUFFICES ASSUME NEW x PROVE x \in I <=> x \in J \/ x \in own
        OBVIOUS
      <3>1. x \in I <=> /\ x \in Around(source, n) /\ x \in h .. End(source, h)
                        /\ source[x].kind = "class"
        BY DEF Inside, ClassesAround
      <3>2. x \in J <=> /\ x \in Around(source, n) /\ x \in c .. End(source, c)
                        /\ source[x].kind = "class"
        BY DEF Inside, ClassesAround
      <3>3. x \in own <=> x = at /\ source[at].kind = "class"
        OBVIOUS
      <3>4. source[at].kind = "class" => Header(source[at])
        BY DEF Header
      <3>5. x \in Around(source, n) /\ x \in h .. End(source, h) <=>
               \/ x \in Around(source, n) /\ x \in c .. End(source, c)
               \/ x = at /\ Header(source[at])
        BY AroundInChild
      <3>. HIDE DEF I, J, own, at
      <3>. QED
        BY <3>1, <3>2, <3>3, <3>4, <3>5
    <2>. HIDE DEF I, J, own
    <2>. QED
      BY <2>1
  <1>4. Node(source, h).type = source[at].kind /\ Node(source, h).name = source[at].word
    BY NodeAt
  <1>5. J \subseteq c .. n
    BY <1>1, <1>2, AroundIs DEF Inside, ClassesAround, Around
  <1>6. CASE J # {}
    <2>. DEFINE g == Greatest(J)
    <2>1. J \subseteq 0 .. n /\ n \in Nat
      BY <1>1, <1>2, <1>5
    <2>2. g \in J /\ \A m \in J : g >= m
      <3>. HIDE DEF J
      <3>. QED
        BY <1>6, <2>1, GreatestIs
    <2>3. g \in c .. n
      BY <1>5, <2>2
    <2>. HIDE DEF g
    <2>4. I \subseteq Nat /\ g \in I /\ \A m \in I : g >= m
      <3>. HIDE DEF I, J, at
      <3>. QED
        BY <1>1, <1>2, <1>3, <1>5, <2>2, <2>3
    <2>5. Greatest(I) = g
      <3>. HIDE DEF I
      <3>. QED
        BY <2>4, GreatestUnique
    <2>. QED
      BY <1>6, <2>4, <2>5 DEF ClassBelow, g
  <1>7. CASE J = {} /\ source[at].kind = "class"
    <2>1. I = {at} /\ at \in Nat
      BY <1>2, <1>3, <1>7
    <2>2. {at} \subseteq Nat /\ at \in {at} /\ \A m \in {at} : at >= m
      BY <2>1
    <2>3. Greatest({at}) = at
      BY <2>2, GreatestUnique
    <2>. QED
      BY <1>4, <1>7, <2>1, <2>3 DEF ClassBelow, Context
  <1>8. CASE J = {} /\ source[at].kind # "class"
    BY <1>3, <1>4, <1>8 DEF ClassBelow, Context
  <1>. QED
    BY <1>6, <1>7, <1>8

LEMMA BelowIs ==
  ASSUME NEW source, NEW h, NEW p, NEW x
  PROVE  x \in Below(source, h, p) <=>
            \E n \in h .. End(source, h) :
               Header(source[n]) /\ x = As(source, n, ClassBelow(source, h, p, n))
  BY Zenon DEF Below

LEMMA Children ==
  ASSUME NEW source \in Sources, NEW h \in Statements(source),
         NEW c \in Node(source, h).body
  PROVE  /\ c \in Statements(source) /\ At(source, h) < c /\ h < c
         /\ c <= At(source, c) /\ At(source, c) <= End(source, c)
         /\ End(source, c) <= End(source, h)
         /\ source[c].depth = source[h].depth + 1
  <1>1. /\ At(source, h) < End(source, h)
        /\ IsBlock(source, At(source, h) + 1, End(source, h))
        /\ c \in Block(source, At(source, h) + 1, End(source, h))
        /\ source[At(source, h) + 1].depth = source[h].depth + 1
    BY NodeBlock
  <1>2. At(source, h) \in h .. Len(source) /\ h \in 1 .. Len(source) /\ Len(source) \in Nat
        /\ End(source, h) \in At(source, h) .. Len(source)
    BY NodeAt, NodeEnd, StatementIs, LineFacts
  <1>3. /\ c \in Statements(source) /\ c \in At(source, h) + 1 .. End(source, h)
        /\ At(source, c) \in c .. End(source, h)
        /\ End(source, c) \in At(source, c) .. End(source, h)
        /\ source[c].depth = source[At(source, h) + 1].depth
    BY <1>1, ChildInside
  <1>. QED
    BY <1>1, <1>2, <1>3

(* What the header of a node, and what its children have below them, is    *)
(* what the node has: the equation that _walk computes by.                 *)
LEMMA WalkStep ==
  ASSUME NEW source \in Sources, NEW h \in Statements(source), NEW p
  PROVE  Below(source, h, p) =
            Own(Node(source, h), p)
            \union UNION {Below(source, c, Context(Node(source, h), p)) :
                             c \in Node(source, h).body}
  <1>. DEFINE at == At(source, h)
              end == End(source, h)
              q == Context(Node(source, h), p)
              body == Node(source, h).body
  <1>1. /\ h \in 1 .. Len(source) /\ at \in h .. Len(source) /\ Len(source) \in Nat
        /\ \A j \in h .. at - 1 : source[j].kind = "at"
        /\ end \in at .. Len(source)
    BY StatementIs, LineFacts, NodeAt, NodeEnd
  <1>2. Own(Node(source, h), p) = IF Header(source[at]) THEN {As(source, at, p)} ELSE {}
    BY OwnIs
  <1>3. ClassBelow(source, h, p, at) = p
    <2>1. ASSUME NEW x \in Inside(source, h, at) PROVE FALSE
      <3>1. x \in Around(source, at) /\ x \in h .. end
        BY <2>1 DEF Inside, ClassesAround
      <3>2. x \in 1 .. at - 1 /\ Header(source[x])
        BY <1>1, <3>1, AroundIs
      <3>. QED
        BY <1>1, <3>1, <3>2 DEF Header
    <2>. QED
      BY <2>1 DEF ClassBelow
  <1>4. ASSUME NEW x \in Below(source, h, p)
        PROVE  x \in Own(Node(source, h), p) \/ \E c \in body : x \in Below(source, c, q)
    <2>1. PICK n \in h .. end : Header(source[n]) /\ x = As(source, n, ClassBelow(source, h, p, n))
      BY <1>4, BelowIs
    <2>2. n >= at
      BY <1>1, <2>1 DEF Header
    <2>3. CASE n = at
      BY <1>2, <1>3, <2>1, <2>3
    <2>4. CASE n > at
      <3>1. at < end /\ n \in at + 1 .. end
        BY <1>1, <2>4
      <3>2. IsBlock(source, at + 1, end) /\ body = Block(source, at + 1, end)
        BY <3>1, NodeBlock
      <3>3. PICK c \in body : n \in c .. End(source, c)
        BY <3>1, <3>2, BlockCovers
      <3>4. ClassBelow(source, h, p, n) = ClassBelow(source, c, q, n)
        BY <3>3, ClassStep
      <3>. QED
        BY <2>1, <3>3, <3>4, BelowIs, Zenon
    <2>. QED
      BY <1>1, <2>2, <2>3, <2>4
  <1>5. ASSUME NEW x \in Own(Node(source, h), p) PROVE x \in Below(source, h, p)
    <2>1. Header(source[at]) /\ x = As(source, at, p) /\ at \in h .. end
      BY <1>1, <1>2, <1>5
    <2>. QED
      BY <1>3, <2>1, BelowIs, Zenon
  <1>6. ASSUME NEW c \in body, NEW x \in Below(source, c, q)
        PROVE  x \in Below(source, h, p)
    <2>1. PICK n \in c .. End(source, c) :
                  Header(source[n]) /\ x = As(source, n, ClassBelow(source, c, q, n))
      BY <1>6, BelowIs
    <2>2. n \in h .. end
      BY <1>1, AroundInChild
    <2>3. ClassBelow(source, h, p, n) = ClassBelow(source, c, q, n)
      BY ClassStep
    <2>. QED
      BY <2>1, <2>2, <2>3, BelowIs, Zenon
  <1>. HIDE DEF at, end, q, body
  <1>. QED
    BY <1>4, <1>5, <1>6 DEF q, body

(* The recursion of _walk ends in the closed form: every statement, under  *)
(* every parent, has the symbols of the definitions in its lines.          *)
LEMMA WalkIs ==
  ASSUME NEW source \in Sources
  PROVE  \A h \in Statements(source), p \in Words \union {Nobody} :
            Walk(source)[h][p] = Below(source, h, p)
  <1>. DEFINE S == Statements(source)
              P == Words \union {Nobody}
              Step(g) == [h \in S |->
                 [p \in P |->
                    Own(Node(source, h), p)
                    \union UNION {g[c][Context(Node(source, h), p)] : c \in Node(source, h).body}]]
              W == [h \in S |-> [p \in P |-> Below(source, h, p)]]
  <1>1. Walk(source) = CHOOSE g : g = Step(g)
    BY Zenon DEF Walk
  <1>2. \A h \in S, p \in P : Context(Node(source, h), p) \in P
    <2>. SUFFICES ASSUME NEW h \in S, NEW p \in P PROVE Context(Node(source, h), p) \in P
      OBVIOUS
    <2>1. Node(source, h).name = source[At(source, h)].word
          /\ At(source, h) \in 1 .. Len(source)
      BY NodeAt, StatementIs, LineFacts
    <2>2. source[At(source, h)].word \in Words
      BY <2>1, LineFacts
    <2>. QED
      BY <2>1, <2>2 DEF Context
  <1>3. \A h \in S : Node(source, h).body \subseteq S
    BY Children
  <1>4. W = Step(W)
    <2>1. ASSUME NEW h \in S, NEW p \in P
          PROVE  Below(source, h, p) =
                    Own(Node(source, h), p)
                    \union UNION {W[c][Context(Node(source, h), p)] : c \in Node(source, h).body}
      <3>1. \A c \in Node(source, h).body :
               W[c][Context(Node(source, h), p)] = Below(source, c, Context(Node(source, h), p))
        BY <1>2, <1>3
      <3>2. UNION {W[c][Context(Node(source, h), p)] : c \in Node(source, h).body}
              = UNION {Below(source, c, Context(Node(source, h), p)) : c \in Node(source, h).body}
        <4>. HIDE DEF W
        <4>. QED
          BY <3>1
      <3>. HIDE DEF W, S, P
      <3>. QED
        BY <3>2, WalkStep DEF S
    <2>. QED
      BY <2>1, Zenon
  <1>5. ASSUME NEW g, g = Step(g) PROVE g = W
    <2>. DEFINE T == {h \in S : g[h] # W[h]}
    <2>1. T \subseteq 0 .. Len(source) /\ Len(source) \in Nat
      BY StatementIs, LineFacts
    <2>2. ASSUME T # {} PROVE FALSE
      <3>1. PICK h \in T : \A m \in T : h >= m
        <4>. HIDE DEF T
        <4>. QED
          BY <2>1, <2>2, GreatestOf
      <3>2. h \in S /\ g[h] # W[h] /\ h \in Nat
        <4>. HIDE DEF W
        <4>1. h \in S /\ g[h] # W[h]
          BY <3>1
        <4>. QED
          BY <4>1, StatementIs
      <3>3. \A c \in Node(source, h).body : g[c] = W[c]
        <4>. SUFFICES ASSUME NEW c \in Node(source, h).body PROVE g[c] = W[c]
          OBVIOUS
        <4>1. c \in S /\ h < c /\ c \in 1 .. Len(source)
          BY <3>2, Children, StatementIs
        <4>2. c \notin T
          <5>. HIDE DEF T
          <5>. QED
            BY <2>1, <3>1, <3>2, <4>1
        <4>. QED
          BY <4>1, <4>2
      <3>4. Step(g)[h] = Step(W)[h]
        <4>. HIDE DEF W
        <4>1. \A p \in P : UNION {g[c][Context(Node(source, h), p)] : c \in Node(source, h).body}
                  = UNION {W[c][Context(Node(source, h), p)] : c \in Node(source, h).body}
          BY <3>3
        <4>. QED
          BY <3>2, <4>1, Zenon
      <3>. HIDE DEF Step, W
      <3>. QED
        BY <1>4, <1>5, <3>2, <3>4
    <2>3. g = [h \in S |-> g[h]]
      <3>1. \E f : g = [h \in S |-> f[h]]
        BY <1>5, Zenon
      <3>. QED
        BY <3>1
    <2>4. \A h \in S : g[h] = W[h]
      BY <2>2
    <2>5. W = [h \in S |-> W[h]]
      OBVIOUS
    <2>. HIDE DEF W, T
    <2>. QED
      BY <2>3, <2>4, <2>5
  <1>6. Walk(source) = W
    <2>. HIDE DEF Step, W
    <2>1. Walk(source) = Step(Walk(source))
      BY <1>1, <1>4, Zenon
    <2>. QED
      BY <1>5, <2>1, Zenon
  <1>. QED
    BY <1>6
-----------------------------------------------------------------------------
(* A file is a block of its own: what is around a line of a statement at   *)
(* the top is in that statement.                                           *)

LEMMA TreeIsBlock ==
  ASSUME NEW source \in Sources, NEW n \in 1 .. Len(source)
  PROVE  IsBlock(source, 1, Len(source)) /\ Tree(source) = Block(source, 1, Len(source))
  <1>1. Len(source) \in Nat /\ 1 \in 1 .. Len(source) /\ source[1].depth = 0
        /\ \A j \in 1 .. Len(source) : source[j].depth \in Nat
    BY LineFacts
  <1>2. 1 \in Statements(source)
    BY <1>1, StatementIs
  <1>3. source # <<>>
    BY <1>1
  <1>. QED
    BY <1>1, <1>2, <1>3 DEF IsBlock, Tree

LEMMA TopCovers ==
  ASSUME NEW source \in Sources, NEW n \in 1 .. Len(source)
  PROVE  \E h \in Tree(source) : n \in h .. End(source, h)
  BY TreeIsBlock, BlockCovers

LEMMA TopAround ==
  ASSUME NEW source \in Sources, NEW h \in Tree(source), NEW n \in h .. End(source, h)
  PROVE  /\ h \in Statements(source) /\ n \in 1 .. Len(source)
         /\ Around(source, n) \subseteq h .. End(source, h)
  <1>1. /\ source # <<>> /\ Len(source) \in Nat
        /\ source \in Seq([kind : Kinds, depth : Nat, word : Words, feed : BOOLEAN])
    BY LineFacts DEF Tree, Sources
  <1>2. 1 \in 1 .. Len(source)
    BY <1>1
  <1>3. IsBlock(source, 1, Len(source)) /\ h \in Block(source, 1, Len(source))
    BY <1>2, TreeIsBlock
  <1>4. h \in Statements(source) /\ h \in 1 .. Len(source)
        /\ End(source, h) \in h .. Len(source)
    BY <1>1, <1>3, ChildInside
  <1>5. n \in 1 .. Len(source)
    BY <1>1, <1>4
  <1>6. ASSUME NEW x \in Around(source, n) PROVE x \in h .. End(source, h)
    <2>1. x \in 1 .. n - 1 /\ n \in Region(source, x)
      BY <1>5, AroundIs
    <2>2. ~ (x < h)
      <3>. SUFFICES ASSUME x < h PROVE FALSE
        OBVIOUS
      <3>1. x \in 1 .. h - 1 /\ n \in Nat /\ n >= h
        BY <1>1, <1>4, <1>5, <2>1
      <3>. QED
        BY <1>3, <2>1, <3>1, NotAround
    <2>. QED
      BY <1>1, <1>4, <1>5, <2>1, <2>2
  <1>. QED
    BY <1>4, <1>5, <1>6

(* The indexer's walk finds the definitions of every file that parses,     *)
(* each with its decorators, its last line and the class around it         *)
(* (indexer._walk).                                                        *)
THEOREM SymbolsAreDefinitions ==
  \A source \in Sources : Symbols(source) = Definitions(source)
  <1>. SUFFICES ASSUME NEW source \in Sources PROVE Symbols(source) = Definitions(source)
    OBVIOUS
  <1>1. DOMAIN source = 1 .. Len(source)
    BY LineFacts
  <1>2. ASSUME NEW h \in Tree(source), NEW n \in h .. End(source, h)
        PROVE  DefinitionAt(source, n) = As(source, n, ClassBelow(source, h, Nobody, n))
    <2>1. Inside(source, h, n) = ClassesAround(source, n)
      BY TopAround DEF Inside, ClassesAround
    <2>2. EnclosingClass(source, n) = ClassBelow(source, h, Nobody, n)
      BY <2>1 DEF EnclosingClass, ClassBelow
    <2>. QED
      BY <2>2 DEF DefinitionAt, As, StartOf, EndOf
  <1>3. \A h \in Tree(source) :
           h \in Statements(source) /\ Walk(source)[h][Nobody] = Below(source, h, Nobody)
    BY WalkIs DEF Tree, Block
  <1>4. ASSUME NEW x \in Symbols(source) PROVE x \in Definitions(source)
    <2>1. PICK h \in Tree(source) : x \in Below(source, h, Nobody)
      BY <1>3, <1>4 DEF Symbols
    <2>2. PICK n \in h .. End(source, h) :
             Header(source[n]) /\ x = As(source, n, ClassBelow(source, h, Nobody, n))
      BY <2>1, BelowIs
    <2>3. x = DefinitionAt(source, n) /\ n \in DOMAIN source
      BY <1>1, <1>2, <2>2, TopAround
    <2>. QED
      BY <2>2, <2>3 DEF Definitions
  <1>5. ASSUME NEW x \in Definitions(source) PROVE x \in Symbols(source)
    <2>1. PICK n \in DOMAIN source : Header(source[n]) /\ x = DefinitionAt(source, n)
      BY <1>5 DEF Definitions
    <2>2. PICK h \in Tree(source) : n \in h .. End(source, h)
      BY <1>1, TopCovers
    <2>3. x = As(source, n, ClassBelow(source, h, Nobody, n))
      BY <1>2, <2>1, <2>2
    <2>4. x \in Below(source, h, Nobody)
      BY <2>1, <2>2, <2>3, BelowIs, Zenon
    <2>. QED
      BY <1>3, <2>4 DEF Symbols
  <1>. QED
    BY <1>4, <1>5
-----------------------------------------------------------------------------
(* The bodies that structural_grep searches. *)

Prose == {"text", "note", "noted"}

LEMMA SkipIs ==
  ASSUME NEW source \in Sources, NEW h \in Statements(source), NEW n
  PROVE  n \in Skip(source, Node(source, h)) <=>
            /\ n \in At(source, h) + 1 .. End(source, h)
            /\ source[n].kind \in Prose /\ source[n].depth = source[h].depth + 1
  <1>. DEFINE at == At(source, h)
              end == End(source, h)
              body == Node(source, h).body
  <1>1. /\ h \in 1 .. Len(source) /\ at \in h .. Len(source) /\ Len(source) \in Nat
        /\ end \in at .. Len(source)
    BY StatementIs, LineFacts, NodeAt, NodeEnd
  <1>2. ASSUME NEW c \in Statements(source), source[c].kind \in Prose
        PROVE  At(source, c) = c /\ End(source, c) = c /\ Node(source, c).type = source[c].kind
    <2>1. /\ c \in 1 .. Len(source) /\ At(source, c) \in c .. Len(source)
          /\ \A j \in c .. At(source, c) - 1 : source[j].kind = "at"
          /\ End(source, c) \in At(source, c) .. Len(source)
          /\ Node(source, c).type = source[At(source, c)].kind
      BY StatementIs, NodeAt, NodeEnd
    <2>2. At(source, c) = c
      <3>1. source[c].kind # "at"
        BY <1>2 DEF Prose
      <3>. QED
        BY <1>1, <2>1, <3>1
    <2>3. ~ (At(source, c) < End(source, c))
      <3>1. source[c].kind \notin Opens
        BY <1>2 DEF Prose, Opens
      <3>. QED
        BY <2>2, <3>1, NodeBlock
    <2>. QED
      BY <1>1, <2>1, <2>2, <2>3
  <1>3. ASSUME NEW c \in body, Node(source, c).type \in Prose
        PROVE  source[c].kind \in Prose
    <2>1. c \in Statements(source)
      BY Children
    <2>2. /\ c \in 1 .. Len(source) /\ At(source, c) \in c .. Len(source)
          /\ c < At(source, c) => Header(source[At(source, c)])
          /\ Node(source, c).type = source[At(source, c)].kind
      BY <2>1, StatementIs, NodeAt
    <2>3. ~ Header(source[At(source, c)])
      BY <1>3, <2>2 DEF Header, Prose
    <2>4. At(source, c) = c
      BY <1>1, <2>2, <2>3
    <2>. QED
      BY <1>3, <2>2, <2>4
  <1>4. ASSUME n \in Skip(source, Node(source, h))
        PROVE  /\ n \in at + 1 .. end
               /\ source[n].kind \in Prose /\ source[n].depth = source[h].depth + 1
    <2>1. PICK c \in body : Node(source, c).type \in Prose /\ n \in c .. End(source, c)
      BY <1>4, Zenon DEF Skip, Prose, End
    <2>2. c \in Statements(source) /\ at < c /\ End(source, c) <= end
          /\ source[c].depth = source[h].depth + 1
      BY Children
    <2>3. source[c].kind \in Prose
      BY <1>3, <2>1
    <2>4. End(source, c) = c
      BY <1>2, <2>2, <2>3
    <2>5. c \in 1 .. Len(source)
      BY <2>2, StatementIs
    <2>6. n = c
      BY <2>1, <2>4, <2>5
    <2>. QED
      BY <1>1, <2>2, <2>3, <2>4, <2>5, <2>6
  <1>5. ASSUME n \in at + 1 .. end, source[n].kind \in Prose,
               source[n].depth = source[h].depth + 1
        PROVE  n \in Skip(source, Node(source, h))
    <2>1. n \in 1 .. Len(source) /\ n > 1 /\ at < end
      BY <1>1, <1>5
    <2>2. source[n - 1].kind # "at"
      <3>1. n - 1 \in 1 .. Len(source) /\ n - 1 < Len(source) /\ (n - 1) + 1 = n
        BY <1>1, <2>1
      <3>2. source[n - 1].kind = "at" => Header(source[n]) \/ source[n].kind = "at"
        BY <3>1, NextLine
      <3>. QED
        BY <1>5, <3>2 DEF Header, Prose
    <2>3. n \in Statements(source)
      BY <2>1, <2>2, StatementIs
    <2>4. n \in body
      <3>1. body = Block(source, at + 1, end) /\ source[at + 1].depth = source[h].depth + 1
        BY <2>1, NodeBlock
      <3>. QED
        BY <1>5, <2>3, <3>1 DEF Block
    <2>5. Node(source, n).type \in Prose /\ Node(source, n).end = n
      BY <1>2, <1>5, <2>3 DEF End
    <2>6. n \in n .. Node(source, n).end
      BY <2>1, <2>5
    <2>. QED
      BY <2>4, <2>5, <2>6, Zenon DEF Skip, Prose
  <1>. QED
    BY <1>4, <1>5

(* The lines with the word that a node contributes: in an outermost        *)
(* definition of the node, but not the prose directly in it.               *)
Outermost(source, h, o) ==
    \A x \in Around(source, o) : x \notin h .. End(source, h)
InBody(source, h, n) ==
    \E o \in Around(source, n) :
       /\ o \in h .. End(source, h) /\ Outermost(source, h, o)
       /\ source[n].kind \notin Prose \/ source[n].depth # source[o].depth + 1
(* the word that is looked at for row n *)
WordAt(source, n) == SplitLines(source)[n].word
GrepBelow(source, h, word) ==
    {n \in h .. End(source, h) : WordAt(source, n) = word /\ InBody(source, h, n)}

LEMMA GrepStep ==
  ASSUME NEW source \in Sources, NEW h \in Statements(source), NEW word
  PROVE  GrepBelow(source, h, word) =
            IF Node(source, h).type \in {"class", "def"}
            THEN {n \in (Node(source, h).at + 1 .. Node(source, h).end)
                          \ Skip(source, Node(source, h)) : WordAt(source, n) = word}
            ELSE UNION {GrepBelow(source, c, word) : c \in Node(source, h).body}
  <1>. DEFINE at == At(source, h)
              end == End(source, h)
              body == Node(source, h).body
  <1>1. /\ h \in 1 .. Len(source) /\ at \in h .. Len(source) /\ Len(source) \in Nat
        /\ \A j \in h .. at - 1 : source[j].kind = "at"
        /\ end \in at .. Len(source)
        /\ h < at => Header(source[at])
        /\ Node(source, h).type = source[at].kind
        /\ source[at].depth = source[h].depth
        /\ Node(source, h).at = at /\ Node(source, h).end = end
    <2>1. /\ h \in 1 .. Len(source) /\ Len(source) \in Nat
      BY StatementIs, LineFacts
    <2>2. \A j \in h .. at : source[j].depth = source[h].depth
      BY NodeAt
    <2>3. at \in h .. Len(source)
      BY NodeAt
    <2>. QED
      BY <2>1, <2>2, <2>3, NodeAt, NodeEnd DEF At, End
  <1>2. \A x : x \notin h .. at - 1 \/ ~ Header(source[x])
    BY <1>1 DEF Header
  <1>3. \A x \in Around(source, at) : x \notin h .. end
    <2>. SUFFICES ASSUME NEW x \in Around(source, at), x \in h .. end PROVE FALSE
      OBVIOUS
    <2>1. x \in 1 .. at - 1 /\ Header(source[x])
      BY <1>1, AroundIs
    <2>. QED
      BY <1>1, <1>2, <2>1
  <1>4. CASE Header(source[at])
    <2>1. ASSUME NEW n \in h .. end, NEW o \in Around(source, n), o \in h .. end,
                 Outermost(source, h, o)
          PROVE  o = at
      <3>1. n \in 1 .. Len(source)
        BY <1>1
      <3>2. o \in 1 .. n - 1 /\ Header(source[o])
        BY <3>1, AroundIs
      <3>3. o >= at
        BY <1>1, <1>2, <2>1, <3>2
      <3>4. ASSUME o > at PROVE FALSE
        <4>1. o \in at + 1 .. end /\ o \in 1 .. Len(source) /\ at \in 1 .. o - 1
              /\ at \in h .. end
          BY <1>1, <2>1, <3>4
        <4>2. at \in Around(source, o)
          BY <1>4, <4>1, NodeRegion, AroundIs
        <4>. QED
          BY <2>1, <4>1, <4>2 DEF Outermost
      <3>. QED
        BY <1>1, <3>2, <3>3, <3>4
    <2>2. \A n \in h .. end : at \in Around(source, n) <=> n \in at + 1 .. end
      <3>. SUFFICES ASSUME NEW n \in h .. end
                    PROVE  at \in Around(source, n) <=> n \in at + 1 .. end
        OBVIOUS
      <3>1. n \in 1 .. Len(source)
        BY <1>1
      <3>2. at \in Around(source, n) <=> at \in 1 .. n - 1 /\ n \in at + 1 .. end
        BY <1>4, <3>1, AroundIs, NodeRegion
      <3>. QED
        BY <1>1, <3>1, <3>2
    <2>3. Outermost(source, h, at) /\ at \in h .. end
      BY <1>1, <1>3 DEF Outermost
    <2>4. ASSUME NEW n \in h .. end
          PROVE  InBody(source, h, n) <=>
                    n \in at + 1 .. end /\ n \notin Skip(source, Node(source, h))
      <3>1. InBody(source, h, n) <=>
               /\ at \in Around(source, n)
               /\ source[n].kind \notin Prose \/ source[n].depth # source[at].depth + 1
        BY <2>1, <2>3 DEF InBody
      <3>. QED
        BY <1>1, <2>2, <2>4, <3>1, SkipIs
    <2>5. at + 1 .. end \subseteq h .. end
      BY <1>1
    <2>6. Node(source, h).type \in {"class", "def"}
      BY <1>1, <1>4 DEF Header
    <2>. QED
      BY <1>1, <2>4, <2>5, <2>6 DEF GrepBelow
  <1>5. CASE ~ Header(source[at])
    <2>1. h = at /\ Node(source, h).type \notin {"class", "def"}
      BY <1>1, <1>5 DEF Header
    <2>2. ASSUME NEW c \in body, NEW n \in c .. End(source, c)
          PROVE  n \in h .. end /\ InBody(source, h, n) <=> InBody(source, c, n)
      <3>1. c \in Statements(source) /\ n \in at + 1 .. end
        BY AroundInChild
      <3>2. \A x \in Around(source, n) : x \in h .. end <=> x \in c .. End(source, c)
        BY <1>5, AroundInChild
      <3>3. ASSUME NEW o \in Around(source, n), o \in c .. End(source, c)
            PROVE  Outermost(source, h, o) <=> Outermost(source, c, o)
        <4>1. \A x \in Around(source, o) : x \in h .. end <=> x \in c .. End(source, c)
          BY <1>5, <3>3, AroundInChild
        <4>. QED
          BY <4>1 DEF Outermost
      <3>4. n \in h .. end
        BY <1>1, <3>1
      <3>. QED
        BY <3>2, <3>3, <3>4 DEF InBody
    <2>3. ASSUME NEW n \in GrepBelow(source, h, word)
          PROVE  \E c \in body : n \in GrepBelow(source, c, word)
      <3>1. n \in h .. end /\ WordAt(source, n) = word /\ InBody(source, h, n)
        BY <2>3 DEF GrepBelow
      <3>2. PICK o \in Around(source, n) : o \in h .. end
        BY <3>1 DEF InBody
      <3>3. n \in 1 .. Len(source) /\ o \in 1 .. n - 1
        BY <1>1, <3>1, <3>2, AroundIs
      <3>4. n \in at + 1 .. end /\ at < end
        BY <1>1, <2>1, <3>1, <3>2, <3>3
      <3>5. IsBlock(source, at + 1, end) /\ body = Block(source, at + 1, end)
        BY <3>4, NodeBlock
      <3>6. PICK c \in body : n \in c .. End(source, c)
        BY <3>4, <3>5, BlockCovers
      <3>. QED
        BY <2>2, <3>1, <3>6 DEF GrepBelow
    <2>4. ASSUME NEW c \in body, NEW n \in GrepBelow(source, c, word)
          PROVE  n \in GrepBelow(source, h, word)
      BY <2>2, <2>4 DEF GrepBelow
    <2>. HIDE DEF body
    <2>5. GrepBelow(source, h, word) = UNION {GrepBelow(source, c, word) : c \in body}
      BY <2>3, <2>4
    <2>. QED
      BY <2>1, <2>5 DEF body
  <1>. QED
    BY <1>4, <1>5

LEMMA GrepIs ==
  ASSUME NEW source \in Sources, NEW word
  PROVE  \A h \in Statements(source) :
            GrepBodies(source, word)[h] = GrepBelow(source, h, word)
  <1>. DEFINE S == Statements(source)
              Found(h) == {n \in (Node(source, h).at + 1 .. Node(source, h).end)
                                   \ Skip(source, Node(source, h)) : WordAt(source, n) = word}
              Step(g) == [h \in S |->
                 IF Node(source, h).type \in {"class", "def"} THEN Found(h)
                 ELSE UNION {g[c] : c \in Node(source, h).body}]
              G == [h \in S |-> GrepBelow(source, h, word)]
  <1>1. GrepBodies(source, word) = CHOOSE g : g = Step(g)
    BY Zenon DEF GrepBodies, WordAt
  <1>2. \A h \in S : Node(source, h).body \subseteq S
    BY Children
  <1>3. G = Step(G)
    <2>1. ASSUME NEW h \in S
          PROVE  GrepBelow(source, h, word) =
                    IF Node(source, h).type \in {"class", "def"} THEN Found(h)
                    ELSE UNION {G[c] : c \in Node(source, h).body}
      <3>1. \A c \in Node(source, h).body : G[c] = GrepBelow(source, c, word)
        BY <1>2
      <3>2. UNION {G[c] : c \in Node(source, h).body}
              = UNION {GrepBelow(source, c, word) : c \in Node(source, h).body}
        <4>. HIDE DEF G
        <4>. QED
          BY <3>1
      <3>. QED
        BY <3>2, GrepStep, Zenon
    <2>. QED
      BY <2>1, Zenon
  <1>4. ASSUME NEW g, g = Step(g) PROVE g = G
    <2>. DEFINE T == {h \in S : g[h] # G[h]}
    <2>1. T \subseteq 0 .. Len(source) /\ Len(source) \in Nat
      BY StatementIs, LineFacts
    <2>2. ASSUME T # {} PROVE FALSE
      <3>1. PICK h \in T : \A m \in T : h >= m
        <4>. HIDE DEF T
        <4>. QED
          BY <2>1, <2>2, GreatestOf
      <3>2. h \in S /\ g[h] # G[h] /\ h \in Nat
        <4>. HIDE DEF G
        <4>1. h \in S /\ g[h] # G[h]
          BY <3>1
        <4>. QED
          BY <4>1, StatementIs
      <3>3. \A c \in Node(source, h).body : g[c] = G[c]
        <4>. SUFFICES ASSUME NEW c \in Node(source, h).body PROVE g[c] = G[c]
          OBVIOUS
        <4>1. c \in S /\ h < c /\ c \in 1 .. Len(source)
          BY <3>2, Children, StatementIs
        <4>2. c \notin T
          <5>. HIDE DEF T
          <5>. QED
            BY <2>1, <3>1, <3>2, <4>1
        <4>. QED
          BY <4>1, <4>2
      <3>4. Step(g)[h] = Step(G)[h]
        <4>. HIDE DEF G
        <4>1. UNION {g[c] : c \in Node(source, h).body}
                  = UNION {G[c] : c \in Node(source, h).body}
          BY <3>3
        <4>. QED
          BY <3>2, <4>1, Zenon
      <3>. HIDE DEF Step, G
      <3>. QED
        BY <1>3, <1>4, <3>2, <3>4
    <2>3. g = [h \in S |-> g[h]]
      <3>1. \E f : g = [h \in S |-> f[h]]
        BY <1>4, Zenon
      <3>. QED
        BY <3>1
    <2>4. \A h \in S : g[h] = G[h]
      BY <2>2
    <2>5. G = [h \in S |-> G[h]]
      OBVIOUS
    <2>. HIDE DEF G, T
    <2>. QED
      BY <2>3, <2>4, <2>5
  <1>5. GrepBodies(source, word) = G
    <2>. HIDE DEF Step, G
    <2>1. GrepBodies(source, word) = Step(GrepBodies(source, word))
      BY <1>1, <1>3, Zenon
    <2>. QED
      BY <1>4, <2>1, Zenon
  <1>. QED
    BY <1>5

(* The rows that the grep looks at: those in the outermost definitions but *)
(* for the prose directly in them.                                         *)
BodyLines(source) ==
    {n \in DOMAIN source :
        \E o \in Around(source, n) :
           /\ Around(source, o) = {}
           /\ source[n].kind \notin Prose \/ source[n].depth # source[o].depth + 1}

LEMMA MatchesAre ==
  ASSUME NEW source \in Sources, NEW word
  PROVE  Matches(source, word) = {n \in BodyLines(source) : WordAt(source, n) = word}
  <1>1. DOMAIN source = 1 .. Len(source)
    BY LineFacts
  <1>2. ASSUME NEW h \in Tree(source), NEW n \in h .. End(source, h)
        PROVE  n \in DOMAIN source /\ (InBody(source, h, n) <=> n \in BodyLines(source))
    <2>1. n \in DOMAIN source /\ Around(source, n) \subseteq h .. End(source, h)
      BY <1>1, TopAround
    <2>2. ASSUME NEW o \in Around(source, n)
          PROVE  o \in h .. End(source, h) /\ (Outermost(source, h, o) <=> Around(source, o) = {})
      <3>1. o \in h .. End(source, h)
        BY <2>1
      <3>2. Around(source, o) \subseteq h .. End(source, h)
        BY <3>1, TopAround
      <3>. QED
        BY <3>1, <3>2 DEF Outermost
    <2>3. n \in BodyLines(source) <=>
             \E o \in Around(source, n) :
                /\ Around(source, o) = {}
                /\ source[n].kind \notin Prose \/ source[n].depth # source[o].depth + 1
      BY <2>1 DEF BodyLines
    <2>. QED
      BY <2>1, <2>2, <2>3 DEF InBody
  <1>3. \A h \in Tree(source) : GrepBodies(source, word)[h] = GrepBelow(source, h, word)
    BY GrepIs DEF Tree, Block
  <1>4. ASSUME NEW n \in Matches(source, word)
        PROVE  n \in BodyLines(source) /\ WordAt(source, n) = word
    <2>1. PICK h \in Tree(source) : n \in GrepBelow(source, h, word)
      BY <1>3, <1>4 DEF Matches
    <2>. QED
      BY <1>2, <2>1 DEF GrepBelow
  <1>5. ASSUME NEW n \in BodyLines(source), WordAt(source, n) = word
        PROVE  n \in Matches(source, word)
    <2>1. n \in 1 .. Len(source)
      BY <1>1, <1>5 DEF BodyLines
    <2>2. PICK h \in Tree(source) : n \in h .. End(source, h)
      BY <2>1, TopCovers
    <2>3. n \in GrepBelow(source, h, word)
      BY <1>2, <1>5, <2>2 DEF GrepBelow
    <2>. QED
      BY <1>3, <2>3 DEF Matches
  <1>. QED
    BY <1>4, <1>5

(* Of two definitions around a line, the later one is in the earlier one.  *)
LEMMA AroundNest ==
  ASSUME NEW source \in Sources, NEW n \in 1 .. Len(source),
         NEW o \in Around(source, n), NEW x \in Around(source, n), x < o
  PROVE  x \in Around(source, o)
  <1>1. /\ Len(source) \in Nat
        /\ o \in 1 .. n - 1 /\ Header(source[o])
        /\ x \in 1 .. n - 1 /\ Header(source[x]) /\ n \in Region(source, x)
    BY LineFacts, AroundIs
  <1>2. \A j \in x + 1 .. n : source[j].depth > source[x].depth
    BY <1>1, RegionIs
  <1>3. o \in Region(source, x)
    <2>1. o \in x + 1 .. Len(source) /\ x \in 1 .. Len(source)
      BY <1>1
    <2>2. \A j \in x + 1 .. o : j \in x + 1 .. n
      BY <1>1
    <2>. QED
      BY <1>2, <2>1, <2>2, RegionIs
  <1>4. o \in 1 .. Len(source) /\ x \in 1 .. o - 1
    BY <1>1
  <1>. QED
    BY <1>1, <1>3, <1>4, AroundIs

(* A line in a definition is in exactly one outermost definition. *)
LEMMA OutermostIs ==
  ASSUME NEW source \in Sources, NEW n \in 1 .. Len(source), Around(source, n) # {}
  PROVE  \E o \in Around(source, n) :
            /\ Around(source, o) = {}
            /\ \A x \in Around(source, n) : Around(source, x) = {} => x = o
  <1>1. Around(source, n) \subseteq 1 .. n - 1 /\ Len(source) \in Nat
    BY LineFacts DEF Around
  <1>2. PICK o \in Around(source, n) : \A x \in Around(source, n) : o <= x
    <2>1. Around(source, n) \subseteq Nat
      BY <1>1
    <2>. QED
      BY <2>1, LeastOf
  <1>3. o \in 1 .. Len(source) /\ o \in 1 .. n - 1
    BY <1>1
  <1>4. ASSUME NEW x \in Around(source, o) PROVE FALSE
    <2>1. /\ x \in 1 .. o - 1 /\ Header(source[x]) /\ o \in Region(source, x)
      BY <1>3, AroundIs
    <2>2. x \in 1 .. Len(source) /\ x \in 1 .. n - 1
      BY <1>3, <2>1
    <2>3. \A j \in x + 1 .. o : source[j].depth > source[x].depth
      BY <2>1, <2>2, RegionIs
    <2>4. \A j \in o + 1 .. n : source[j].depth > source[o].depth
      BY <1>3, AroundIs, RegionIs
    <2>5. \A j \in x + 1 .. n : source[j].depth \in Nat
      BY <1>1, <2>2, LineFacts
    <2>6. /\ source[o].depth > source[x].depth
          /\ source[o].depth \in Nat /\ source[x].depth \in Nat
      BY <1>1, <1>3, <2>1, <2>2, <2>3, LineFacts
    <2>7. \A j \in x + 1 .. n : source[j].depth > source[x].depth
      <3>. SUFFICES ASSUME NEW j \in x + 1 .. n PROVE source[j].depth > source[x].depth
        OBVIOUS
      <3>1. j \in x + 1 .. o \/ j \in o + 1 .. n
        BY <1>3, <2>1
      <3>. QED
        BY <2>3, <2>4, <2>5, <2>6, <3>1
    <2>8. n \in x + 1 .. Len(source)
      BY <1>1, <2>2
    <2>9. x \in Around(source, n)
      BY <2>1, <2>2, <2>7, <2>8, RegionIs, AroundIs
    <2>. QED
      BY <1>2, <1>3, <2>1, <2>9
  <1>5. ASSUME NEW x \in Around(source, n), Around(source, x) = {} PROVE x = o
    <2>1. x \in 1 .. n - 1 /\ o <= x
      BY <1>1, <1>2
    <2>2. ~ (o < x)
      BY <1>5, AroundNest
    <2>. QED
      BY <1>3, <2>1, <2>2
  <1>. QED
    BY <1>4, <1>5

(* The rows that the grep looks at are code in bodies, all of it but what  *)
(* it overlooks, and what it mistakes for code.                            *)
LEMMA BodyLinesAre ==
  ASSUME NEW source \in Sources
  PROVE  BodyLines(source)
            = (CodeLines(source) \ Overlooked(source)) \union Mistaken(source)
  <1>. SUFFICES ASSUME NEW n \in DOMAIN source
                PROVE  n \in BodyLines(source) <=>
                          \/ n \in CodeLines(source) /\ n \notin Overlooked(source)
                          \/ n \in Mistaken(source)
    BY DEF BodyLines, CodeLines, Mistaken
  <1>1. n \in 1 .. Len(source)
    BY LineFacts
  <1>2. CASE Around(source, n) = {}
    BY <1>2 DEF BodyLines, CodeLines, Mistaken
  <1>3. CASE Around(source, n) # {}
    <2>1. PICK o \in Around(source, n) :
             /\ Around(source, o) = {}
             /\ \A x \in Around(source, n) : Around(source, x) = {} => x = o
      BY <1>1, <1>3, OutermostIs
    <2>2. n \in BodyLines(source) <=>
             source[n].kind \notin Prose \/ source[n].depth # source[o].depth + 1
      BY <2>1 DEF BodyLines
    <2>3. Direct(source, n) <=> source[n].depth = source[o].depth + 1
      BY <2>1 DEF Direct
    <2>. QED
      BY <1>3, <2>2, <2>3 DEF CodeLines, Overlooked, Mistaken, Prose
  <1>. QED
    BY <1>2, <1>3
-----------------------------------------------------------------------------
(* Lines of str.splitlines. *)

LEMMA LineNoIs ==
  ASSUME NEW source, NEW n \in Nat
  PROVE  /\ LineNo(source, n) \in Nat /\ LineNo(source, n) >= n
         /\ (\A m \in 1 .. n : ~ source[m].feed) => LineNo(source, n) = n
  <1>. DEFINE feeds == {m \in 1 .. n : source[m].feed}
  <1>1. IsFiniteSet(1 .. n)
    BY FS_Interval
  <1>2. Cardinality(feeds) \in Nat
    <2>1. feeds \in SUBSET (1 .. n)
      OBVIOUS
    <2>2. IsFiniteSet(feeds)
      BY <1>1, <2>1, FS_Subset
    <2>. QED
      BY <2>2, FS_CardinalityType
  <1>3. (\A m \in 1 .. n : ~ source[m].feed) => Cardinality(feeds) = 0
    <2>1. (\A m \in 1 .. n : ~ source[m].feed) => feeds = {}
      OBVIOUS
    <2>. QED
      BY <2>1, FS_EmptySet
  <1>4. LineNo(source, n) = n + Cardinality(feeds)
    BY DEF LineNo
  <1>. HIDE DEF feeds
  <1>. QED
    BY <1>2, <1>3, <1>4

(* The lines of a file; there is at least one for each row. *)
LEMMA SplitIs ==
  ASSUME NEW source \in Sources
  PROVE  /\ Len(SplitLines(source)) = LineNo(source, Len(source))
         /\ Len(SplitLines(source)) \in Nat /\ Len(SplitLines(source)) >= Len(source)
         /\ DOMAIN SplitLines(source) = 1 .. Len(SplitLines(source))
         /\ SplitLines(source)
              \in Seq([kind : Kinds, depth : Nat, word : Words, feed : BOOLEAN]
                         \union {PageBreak})
  <1>. DEFINE Row == [kind : Kinds, depth : Nat, word : Words, feed : BOOLEAN]
              Text(k) == IF \E n \in DOMAIN source : LineNo(source, n) = k
                         THEN source[CHOOSE n \in DOMAIN source : LineNo(source, n) = k]
                         ELSE PageBreak
  <1>1. Len(source) \in Nat /\ source \in Seq(Row)
    BY LineFacts DEF Sources
  <1>2. LineNo(source, Len(source)) \in Nat /\ LineNo(source, Len(source)) >= Len(source)
    BY <1>1, LineNoIs
  <1>3. \A k : Text(k) \in Row \union {PageBreak}
    <2>1. \A n \in DOMAIN source : source[n] \in Row
      <3>. HIDE DEF Row
      <3>. QED
        BY <1>1
    <2>. HIDE DEF Row
    <2>. QED
      BY <2>1
  <1>4. SplitLines(source) = [k \in 1 .. LineNo(source, Len(source)) |-> Text(k)]
    BY DEF SplitLines
  <1>. HIDE DEF Text, Row
  <1>5. SplitLines(source) \in Seq(Row \union {PageBreak})
    BY <1>2, <1>3, <1>4
  <1>6. Len(SplitLines(source)) = LineNo(source, Len(source))
    <2>1. DOMAIN SplitLines(source) = 1 .. LineNo(source, Len(source))
      BY <1>4
    <2>. QED
      BY <1>2, <1>5, <2>1
  <1>7. DOMAIN SplitLines(source) = 1 .. Len(SplitLines(source))
    BY <1>5
  <1>. QED
    BY <1>2, <1>5, <1>6, <1>7 DEF Row

(* Above the first form feed, a line is the row of its number. *)
LEMMA SplitAt ==
  ASSUME NEW source \in Sources, NEW n \in DOMAIN source, n \notin Shifted(source)
  PROVE  n \in DOMAIN SplitLines(source) /\ SplitLines(source)[n] = source[n]
  <1>1. n \in 1 .. Len(source) /\ Len(source) \in Nat /\ DOMAIN source = 1 .. Len(source)
    BY LineFacts
  <1>2. \A m \in 1 .. n : ~ source[m].feed
    BY DEF Shifted
  <1>3. LineNo(source, n) = n
    BY <1>1, <1>2, LineNoIs
  <1>4. ASSUME NEW m \in DOMAIN source, LineNo(source, m) = n PROVE m = n
    <2>1. m \in Nat /\ LineNo(source, m) >= m
      BY <1>1, LineNoIs
    <2>2. m \in 1 .. n
      BY <1>1, <1>4, <2>1
    <2>3. \A j \in 1 .. m : ~ source[j].feed
      BY <1>1, <1>2, <2>2
    <2>. QED
      BY <1>4, <2>1, <2>3, LineNoIs
  <1>5. (CHOOSE m \in DOMAIN source : LineNo(source, m) = n) = n
    BY <1>3, <1>4
  <1>6. n \in 1 .. LineNo(source, Len(source))
    BY <1>1, SplitIs
  <1>7. SplitLines(source)[n] = source[n]
    BY <1>3, <1>5, <1>6 DEF SplitLines
  <1>. QED
    BY <1>6, <1>7, SplitIs

(* In every file that parses, above its first form feed, structural_grep   *)
(* finds all code in the bodies of functions and classes but for that      *)
(* which shares its line with a comment directly in an outermost body, and *)
(* nothing but code, except for strings and comments that stand deeper     *)
(* (_grep_bodies): no other row is lost or taken.                          *)
THEOREM MatchesAreCode ==
  \A source \in Sources, word \in Words : GrepIsRight(source, word)
  <1>. SUFFICES ASSUME NEW source \in Sources, NEW word \in Words
                PROVE  GrepIsRight(source, word)
    OBVIOUS
  <1>1. \A n : n \in Matches(source, word) <=>
                  n \in BodyLines(source) /\ WordAt(source, n) = word
    BY MatchesAre
  <1>2. \A n \in DOMAIN source :
           n \notin Shifted(source) => WordAt(source, n) = source[n].word
    BY SplitAt DEF WordAt
  <1>3. BodyLines(source) \subseteq DOMAIN source /\ CodeLines(source) \subseteq DOMAIN source
    BY DEF BodyLines, CodeLines
  <1>4. ASSUME NEW n \in Meant(source, word), n \notin Overlooked(source) \union Shifted(source)
        PROVE  n \in Matches(source, word)
    <2>1. n \in CodeLines(source) /\ source[n].word = word
      BY <1>4 DEF Meant
    <2>. QED
      BY <1>1, <1>2, <1>3, <1>4, <2>1, BodyLinesAre
  <1>5. ASSUME NEW n \in Matches(source, word), n \notin Shifted(source)
        PROVE  source[n].word = word /\ n \in CodeLines(source) \union Mistaken(source)
    BY <1>1, <1>2, <1>3, <1>5, BodyLinesAre
  <1>. QED
    BY <1>4, <1>5 DEF GrepIsRight

(* Where no comment shares a line with code, no string or comment stands   *)
(* deeper than an outermost body, and there is no form feed, the grep is   *)
(* what its description says: it finds the lines of code in the bodies,    *)
(* and no others.                                                          *)
COROLLARY MatchesAreMeant ==
  \A source \in Sources, word \in Words :
     Overlooked(source) = {} /\ Mistaken(source) = {} /\ Shifted(source) = {}
        => Matches(source, word) = Meant(source, word)
  <1>. SUFFICES ASSUME NEW source \in Sources, NEW word \in Words,
                       Overlooked(source) = {}, Mistaken(source) = {}, Shifted(source) = {}
                PROVE  Matches(source, word) = Meant(source, word)
    OBVIOUS
  <1>1. GrepIsRight(source, word)
    BY MatchesAreCode
  <1>. QED
    BY <1>1 DEF GrepIsRight, Meant
=============================================================================

---------------------------- MODULE PythonSource ----------------------------
(***************************************************************************)
(* Python files as the retrieval layer sees them: lines, the syntax tree   *)
(* that tree-sitter makes of them, the walks of the indexer and the tools  *)
(* over it (app/retrieval/indexer.py, tools.py), and spans (reader.py).    *)
(*                                                                         *)
(* A row of a file, which ends with a newline, is what it is in the tree,  *)
(* its depth, and one word: the name that a header defines, the identifier *)
(* that code uses, the word that a string or comment mentions.  A row may  *)
(* begin with a form feed, which is white space to Python and tree-sitter  *)
(* and ends a line for str.splitlines (SplitLines).  A file is a sequence  *)
(* of rows that Python could parse (Sources).                              *)
(***************************************************************************)
EXTENDS Naturals, FiniteSets, Sequences

CONSTANTS
    Words,      \* identifiers
    Nobody,     \* parent_name None
    LineChars   \* the characters of a line, all lines being of one length

ASSUME SourceAssumption == Nobody \notin Words /\ LineChars \in Nat \ {0}

Kinds == {"class", "def", "at", "if", "code", "noted", "text", "note"}
    \* "at": a decorator; "noted": code with a trailing comment; "text": a
    \* string statement; "note": a comment on a line of its own

Opens == {"class", "def", "if"}            \* lines that begin a block
Header(line) == line.kind \in {"class", "def"}

(* what Python's grammar allows after line p *)
Follows(line, p) ==
    /\ p.kind \in Opens => line.depth = p.depth + 1
    /\ p.kind = "at" => line.depth = p.depth /\ (Header(line) \/ line.kind = "at")
    /\ line.depth <= IF p.kind \in Opens THEN p.depth + 1 ELSE p.depth
Complete(source) ==
    source = <<>> \/ source[Len(source)].kind \notin Opens \union {"at"}

Sources ==
    {source \in Seq([kind : Kinds, depth : Nat, word : Words, feed : BOOLEAN]) :
        /\ source # <<>> => source[1].depth = 0
        /\ \A n \in 2 .. Len(source) : Follows(source[n], source[n - 1])
        /\ Complete(source)}

Least(S) == CHOOSE n \in S : \A m \in S : n <= m
Greatest(S) == CHOOSE n \in S : \A m \in S : n >= m
-----------------------------------------------------------------------------
(* str.splitlines, by which the tools and the reader number lines, while   *)
(* tree-sitter and with it the index number rows.                          *)

(* the line that a form feed ends *)
PageBreak == [kind |-> "feed", depth |-> 0, word |-> Nobody, feed |-> TRUE]

(* the number of the line that holds the text of row n *)
LineNo(source, n) == n + Cardinality({m \in 1 .. n : source[m].feed})
SplitLines(source) ==
    [k \in 1 .. LineNo(source, Len(source)) |->
        IF \E n \in DOMAIN source : LineNo(source, n) = k
        THEN source[CHOOSE n \in DOMAIN source : LineNo(source, n) = k]
        ELSE PageBreak]

(* the rows whose number is not that of their line *)
Shifted(source) == {n \in DOMAIN source : \E m \in 1 .. n : source[m].feed}
-----------------------------------------------------------------------------
(* tree-sitter: a statement is named by its first line.  A decorated       *)
(* definition begins at its first decorator; `at` is its own first line.   *)
Statements(source) ==
    {n \in DOMAIN source : n = 1 \/ source[n - 1].kind # "at"}

(* the statements of the block in lines a .. b *)
Block(source, a, b) ==
    {n \in Statements(source) : n \in a .. b /\ source[n].depth = source[a].depth}

Node(source, h) ==
    LET at == Least({n \in h .. Len(source) : source[n].kind # "at"})
        next == {n \in Statements(source) :
                    n > at /\ source[n].depth <= source[h].depth}
        end == IF next = {} THEN Len(source) ELSE Least(next) - 1
    IN  [type |-> source[at].kind, name |-> source[at].word,
         start |-> h, at |-> at, end |-> end,
         body |-> IF at < end THEN Block(source, at + 1, end) ELSE {}]

Tree(source) == IF source = <<>> THEN {} ELSE Block(source, 1, Len(source))

Sym(name, kind, start, end, parent) ==
    [name |-> name, kind |-> kind, start |-> start, end |-> end, parent |-> parent]

(* mutant: the span of a decorated definition is that of the inner node *)
SpanInner(node) == <<node.at, node.end>>
Span(node) == <<node.start, node.end>>

(* mutant: the class context is not passed on *)
ContextTop(node, parent) == IF node.type = "class" THEN node.name ELSE Nobody
Context(node, parent) == IF node.type = "class" THEN node.name ELSE parent

(* the symbol that a node defines *)
Own(node, parent) ==
    IF node.type = "class"
    THEN {Sym(node.name, "class", Span(node)[1], Span(node)[2], Nobody)}
    ELSE IF node.type = "def"
    THEN {Sym(node.name, IF parent = Nobody THEN "function" ELSE "method",
              Span(node)[1], Span(node)[2], parent)}
    ELSE {}

(* _walk: the symbols of a node and of everything below it *)
Walk(source) ==
    LET walk[h \in Statements(source)] ==
          LET node == Node(source, h)
          IN  [parent \in Words \union {Nobody} |->
                  Own(node, parent)
                  \union UNION {walk[child][Context(node, parent)] : child \in node.body}]
    IN  walk

Symbols(source) == UNION {Walk(source)[h][Nobody] : h \in Tree(source)}

(* _find_references: every identifier but the name field of a definition *)
Uses(source, word) ==
    {n \in DOMAIN source : /\ source[n].word = word
                           /\ source[n].kind \in {"at", "if", "code", "noted"}}

(* the lines of strings and comments among the direct children of a body;  *)
(* one that shares its line with code takes the whole line                 *)
Skip(source, node) ==
    UNION {c .. Node(source, c).end :
              c \in {child \in node.body :
                        Node(source, child).type \in {"text", "note", "noted"}}}

(* mutant: the definition is searched, and not its body alone *)
GrepDefinitions(source, word) ==
    LET split == SplitLines(source)
        grep[h \in Statements(source)] ==
          LET node == Node(source, h)
          IN  IF node.type \in {"class", "def"}
              THEN {n \in (node.start .. node.end) \ Skip(source, node) :
                       split[n].word = word}
              ELSE UNION {grep[child] : child \in node.body}
    IN  grep

(* _grep_bodies: the bodies of the outermost definitions, row by row; the  *)
(* text that is matched is that of the line with the number of the row     *)
GrepBodies(source, word) ==
    LET split == SplitLines(source)
        grep[h \in Statements(source)] ==
          LET node == Node(source, h)
          IN  IF node.type \in {"class", "def"}
              THEN {n \in (node.at + 1 .. node.end) \ Skip(source, node) :
                       split[n].word = word}
              ELSE UNION {grep[child] : child \in node.body}
    IN  grep

Matches(source, word) == UNION {GrepBodies(source, word)[h] : h \in Tree(source)}
-----------------------------------------------------------------------------
(* reader.read_span, whose errors are no text: lines first .. last, the    *)
(* end clamped to the end of the file; an empty file has every span.       *)
CanRead(source, first, last) ==
    1 <= first /\ first <= last /\ (source = <<>> \/ first <= Len(SplitLines(source)))
Lines(source, first, last) ==
    LET split == SplitLines(source)
    IN  SubSeq(split, first, IF last < Len(split) THEN last ELSE Len(split))

EstimateNoMinimum(n) == (LineChars * n) \div 4      \* mutant
(* estimate_tokens of n lines *)
Estimate(n) == IF LineChars * n < 4 THEN 1 ELSE (LineChars * n) \div 4
-----------------------------------------------------------------------------
(* The same notions read off the lines, by indentation, as a reader of the *)
(* file would tell them.                                                   *)

(* the lines below line n *)
Region(source, n) ==
    {m \in n + 1 .. Len(source) :
        \A j \in n + 1 .. m : source[j].depth > source[n].depth}

Around(source, n) ==
    {c \in 1 .. n - 1 : Header(source[c]) /\ n \in Region(source, c)}
ClassesAround(source, n) ==
    {c \in Around(source, n) : source[c].kind = "class"}
EnclosingClass(source, n) ==
    IF ClassesAround(source, n) = {} THEN Nobody
    ELSE source[Greatest(ClassesAround(source, n))].word

DefinitionAt(source, n) ==
    LET class == EnclosingClass(source, n)
        start == Least({h \in 1 .. n : \A j \in h .. n - 1 : source[j].kind = "at"})
        end == Greatest(Region(source, n) \union {n})
    IN  IF source[n].kind = "class" THEN Sym(source[n].word, "class", start, end, Nobody)
        ELSE Sym(source[n].word, IF class = Nobody THEN "function" ELSE "method",
                 start, end, class)
Definitions(source) ==
    {DefinitionAt(source, n) : n \in {m \in DOMAIN source : Header(source[m])}}

(* "Regex search inside function and class bodies only -- skipping string  *)
(* literals, comments, and module-level boilerplate" (tools.py:391-392)    *)
CodeLines(source) ==
    {n \in DOMAIN source : /\ Around(source, n) # {}
                           /\ source[n].kind \notin {"text", "note"}}

(* stands directly in the body of an outermost definition, not deeper *)
Direct(source, n) ==
    \E o \in Around(source, n) :
       Around(source, o) = {} /\ source[n].depth = source[o].depth + 1

(* Where the grep is known to deviate: it loses the code that shares its   *)
(* line with a comment directly in an outermost body, and it takes strings *)
(* and comments that stand deeper for code.                                *)
Overlooked(source) == {n \in CodeLines(source) : source[n].kind = "noted" /\ Direct(source, n)}
Mistaken(source) ==
    {n \in DOMAIN source : /\ source[n].kind \in {"text", "note"}
                           /\ Around(source, n) # {} /\ ~Direct(source, n)}

Meant(source, word) == {n \in CodeLines(source) : source[n].word = word}

(* But for these, and for rows whose number is not that of their line, the *)
(* grep finds what it is meant to find, and nothing else.                  *)
GrepIsRight(source, word) ==
    /\ Meant(source, word) \ (Overlooked(source) \union Shifted(source))
          \subseteq Matches(source, word)
    /\ \A n \in Matches(source, word) \ Shifted(source) :
          source[n].word = word /\ n \in CodeLines(source) \union Mistaken(source)
=============================================================================

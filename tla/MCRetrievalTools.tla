--------------------------- MODULE MCRetrievalTools ---------------------------
(* Bounds for TLC: every well-formed file of up to MaxLines rows for the   *)
(* walks, and the shorter ones with a form feed; three files with chosen   *)
(* contents for the tools.                                                 *)
EXTENDS RetrievalTools

CONSTANTS MaxLines, MCCalls, MCEdits, MCRuns, MCCrashes

L(kind, depth, word) == [kind |-> kind, depth |-> depth, word |-> word, feed |-> FALSE]
FeedAt(source, n) == [source EXCEPT ![n].feed = TRUE]

(* the sources of n lines; only headers need both words *)
LineAt(depths) ==
    {L(kind, depth, word) : kind \in {"class", "def"}, depth \in depths, word \in {"f", "g"}}
    \union {L(kind, depth, "f") : kind \in Kinds, depth \in depths}
RECURSIVE Prefixes(_)
Prefixes(n) ==
    IF n = 0 THEN {<<>>}
    ELSE UNION {{s \o <<line>> : line \in
                   {l \in LineAt(0 .. n - 1) :
                      IF s = <<>> THEN l.depth = 0 ELSE Follows(l, s[Len(s)])}} :
                  s \in Prefixes(n - 1)}
UpTo(n) == {s \in UNION {Prefixes(k) : k \in 0 .. n} : Complete(s)}
AllSources == UpTo(MaxLines) \union UNION {{FeedAt(s, n) : n \in DOMAIN s} : s \in UpTo(MaxLines - 1)}

MCDir == <<".tox", ".", "data">>

Code == <<L("code", 0, "f")>>
Method == <<L("class", 0, "g"), L("def", 1, "f"), L("text", 2, "g"), L("code", 2, "g")>>
Decorated == <<L("at", 0, "g"), L("def", 0, "f"), L("text", 1, "g"), L("noted", 1, "f")>>
Twice == <<L("def", 0, "f"), L("code", 1, "g"), L("def", 0, "f"), L("code", 1, "f")>>

Paged == FeedAt(<<L("code", 0, "g"), L("def", 0, "f"), L("code", 1, "g")>>, 2)

Nowhere == [calls |-> 0, edits |-> 0, runs |-> 0, crashes |-> 0]
Some == [calls |-> MCCalls, edits |-> MCEdits, runs |-> MCRuns, crashes |-> MCCrashes]

Wide == {[disk |-> <<None, s, None>>, max |-> 0, left |-> Nowhere] : s \in AllSources}
Narrow == {[disk |-> d[1], max |-> d[2], left |-> Some] :
              d \in {<<<<None, Method, None>>, 40>>, <<<<None, Twice, Method>>, 40>>,
                     <<<<Code, Decorated, Method>>, 5>>, <<<<Code, Decorated, Method>>, 40>>,
                     <<<<Method, <<>>, None>>, 5>>, <<<<None, Paged, None>>, 40>>}}
MCScenarios == Wide \union Narrow
MCForeignTrees == {<<Code, Decorated, Code>>}
MCSpans == {<<0, 1>>, <<2, 1>>, <<1, 1>>, <<2, 9>>}
===============================================================================

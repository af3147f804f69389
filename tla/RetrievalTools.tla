--------------------------- MODULE RetrievalTools ---------------------------
(***************************************************************************)
(* One agent run over the retrieval layer: the six tools (tools.py), which *)
(* read the worktree of the task through reader.py and the index of the    *)
(* workspace as IndexStore promises it, and charge one RetrievalBudget     *)
(* (budget.py); checkpoints with a snapshot of the budget, and a process   *)
(* that dies and resumes from the last one.                                *)
(*                                                                         *)
(* Nothing in the repository calls the tools yet.  They are called as      *)
(* their module says: one call at a time in a run, by an orchestrator that *)
(* writes checkpoints between calls.  Files may change at any time, also   *)
(* between two steps of a call.  Files are numbered in the order of their  *)
(* sorted paths.                                                           *)
(***************************************************************************)
EXTENDS PythonSource, Integers

CONSTANTS
    Files,        \* relative paths of Python files
    Runs,         \* calls of index_workspace, each used once
    None,         \* no file, no checkpoint, no argument
    Huge,         \* a file of more than MAX_FILE_BYTES
    Dir,          \* Dir[f]: the directory of f, "." for the root
    Scenarios,    \* initial worktrees and budgets, with bounds on what happens
    ForeignTrees, \* worktrees of other tasks that may be indexed
    Spans         \* the pairs of lines that read_span may be asked for

ASSUME RetrievalAssumption ==
    /\ Files \subseteq Nat /\ IsFiniteSet(Files)
    /\ None \notin Sources /\ Huge \notin Sources \union {None}
    /\ \A s \in Scenarios :
          /\ s.disk \in [Files -> Sources \union {None, Huge}]
          /\ s.max \in Nat
          /\ s.left \in [{"calls", "edits", "runs", "crashes"} -> Nat]
    /\ ForeignTrees \subseteq [Files -> Sources]
    /\ Spans \subseteq Nat \X Nat

VARIABLES
    rows, published,   \* the symbols table, as IndexStore promises it
    disk,         \* disk[f]: what f is in the task's worktree
    max_tokens, used, ledger,     \* the fields of the RetrievalBudget
    checkpoint,   \* the last snapshot written, or None
    call,         \* the tool call in progress, or the last one with its result
    left          \* bound: the calls, edits, index runs and crashes to come

Store == INSTANCE IndexStore WITH Contents <- Sources
storevars == <<rows, published>>
budget == <<max_tokens, used, ledger>>
vars == <<storevars, disk, budget, checkpoint, call, left>>

(* files: those to scan; saw: what was read, in this order; charged:      *)
(* tokens_charged; since: the length of the ledger when the call began    *)
NewCall(tool, length) ==
    [tool |-> tool, status |-> "none", word |-> None, parent |-> None, sym |-> None,
     files |-> {}, saw |-> <<>>, data |-> {}, charged |-> 0, since |-> length]
NoCall == NewCall("none", 0)

Busy == call.status \in {"found", "scanning"}

Init ==
    /\ Store!StoreInit
    /\ \E s \in Scenarios : disk = s.disk /\ max_tokens = s.max /\ left = s.left
    /\ used = 0
    /\ ledger = <<>>
    /\ checkpoint = None
    /\ call = NoCall

Spend(what) == left[what] > 0 /\ left' = [left EXCEPT ![what] = @ - 1]
-----------------------------------------------------------------------------
(* RetrievalBudget *)

remaining == max_tokens - used

Affordable(tokens) == tokens <= remaining

Charge(tool, tokens) ==
    /\ used' = used + tokens
    /\ ledger' = Append(ledger, [tool |-> tool, tokens |-> tokens])
    /\ UNCHANGED max_tokens

SumTokens(entries) ==
    LET sum[n \in 0 .. Len(entries)] ==
          IF n = 0 THEN 0 ELSE sum[n - 1] + entries[n].tokens
    IN  sum[Len(entries)]

(* The orchestrator writes a snapshot between two calls. *)
WriteCheckpoint ==
    /\ ~Busy
    /\ checkpoint' = [max_tokens |-> max_tokens, used_tokens |-> used, ledger |-> ledger]
    /\ UNCHANGED <<storevars, disk, budget, call, left>>

RestoreFresh(snap) ==                       \* mutant: the ledger without its sum
    /\ used' = 0
    /\ ledger' = snap.ledger
    /\ max_tokens' = snap.max_tokens
(* from_snapshot: used_tokens is not read, the entries are added up again *)
Restore(snap) ==
    /\ used' = SumTokens(snap.ledger)
    /\ ledger' = snap.ledger
    /\ max_tokens' = snap.max_tokens

(* The process dies; the run is resumed from its last checkpoint, or from *)
(* the beginning.                                                         *)
CrashAndResume ==
    /\ Spend("crashes")
    /\ IF checkpoint = None
       THEN used' = 0 /\ ledger' = <<>> /\ UNCHANGED max_tokens
       ELSE Restore(checkpoint)
    /\ call' = NoCall
    /\ UNCHANGED <<storevars, disk, checkpoint>>
-----------------------------------------------------------------------------
(* The tools.  A call begins; it ends with data that was paid for, with a  *)
(* ReaderError, or with BudgetExhausted.                                   *)

Begin == ~Busy /\ Spend("calls") /\ UNCHANGED <<storevars, disk, checkpoint>>
Proceed == UNCHANGED <<storevars, disk, checkpoint, left>>

Fresh(tool) == NewCall(tool, Len(ledger))

Raise(rec, error) ==
    /\ call' = [rec EXCEPT !.status = error, !.data = {}, !.charged = 0]
    /\ UNCHANGED budget

(* the data computed is paid for, then returned *)
Return(rec, cost, data) ==
    IF Affordable(cost)
    THEN /\ Charge(rec.tool, cost)
         /\ call' = [rec EXCEPT !.status = "ok", !.data = data, !.charged = cost]
    ELSE Raise(rec, "exhausted")

Readable(f) == disk[f] \notin {None, Huge}
Read(f) == [file |-> f, source |-> disk[f]]

IGNORE_DIRS == {".git", ".venv", "venv", "__pycache__", "node_modules", "data"}
DotDirs == {".git", ".venv", ".tox", "__pycache__"}
Listed(f) == Dir[f] \notin IGNORE_DIRS         \* list_python_files
Globbed(f) == Dir[f] \notin DotDirs            \* structural_grep

(* what iterdir() finds in directory d, a file or a subdirectory *)
Entries(d) ==
    LET there == {f \in Files : disk[f] # None}
    IN  {<<d, f>> : f \in {g \in there : Dir[g] = d}}
        \union {<<Dir[f], None>> : f \in {g \in there : d = "." /\ Dir[g] # "."}}

ListCost(n) == IF n = 0 THEN 1 ELSE 5 * n

ListDir ==
    /\ Begin
    /\ \E d \in {Dir[f] : f \in Files} \union {"."} :
          /\ d = "." \/ Entries(d) # {}              \* resolve_directory
          /\ Return(Fresh("list_dir"), ListCost(Cardinality(Entries(d))), Entries(d))

(* mutant: the span asked for is paid, not the lines that come back *)
SpanCostAsked(source, first, last) == Estimate(last - first + 1)
SpanCost(source, first, last) == Estimate(Len(Lines(source, first, last)))

(* reader.read_span, and the charge of its caller *)
ReturnSpan(rec, f, first, last) ==
    IF Readable(f) /\ CanRead(disk[f], first, last)
    THEN Return([rec EXCEPT !.saw = <<Read(f)>>], SpanCost(disk[f], first, last),
                Lines(disk[f], first, last))
    ELSE Raise(rec, "error")

ReadSpan ==
    /\ Begin
    /\ \E f \in Files, s \in Spans : ReturnSpan(Fresh("read_span"), f, s[1], s[2])

(* the rows of the symbols table *)
SymbolTable ==
    UNION {UNION {{[sym |-> s, file |-> f, of |-> r.of] : s \in Symbols(r.of)} :
                     r \in rows[f]} : f \in Files}

(* The names that match LIKE, and an optional kind. *)
SearchSymbols ==
    /\ Begin
    /\ LET table == SymbolTable IN
       \E names \in SUBSET Words, kind \in {None, "class", "function", "method"} :
          LET found == {s \in table : s.sym.name \in names /\ kind \in {None, s.sym.kind}}
          IN  Return(Fresh("search_symbols"), 10 + 5 * Cardinality(found), found)

(* definition: the SELECT.  More than one match is an answer of its own,   *)
(* for nothing; the session is closed before the file is read.             *)
Lookup ==
    /\ Begin
    /\ UNCHANGED budget
    /\ LET table == SymbolTable IN
       \E name \in Words, parent \in Words \union {None} :
          LET found == {s \in table : s.sym.name = name /\ parent \in {None, s.sym.parent}}
              asked == [Fresh("definition") EXCEPT !.word = name, !.parent = parent]
          IN  \/ found = {} /\ Raise(asked, "error")
              \/ Cardinality(found) > 1 /\ Raise(asked, "ambiguous")
              \/ \E s \in found : /\ found = {s}
                                  /\ call' = [asked EXCEPT !.status = "found", !.sym = s]

(* definition: the span that the row names, in the file as it is now *)
ReadDefinition ==
    /\ call.status = "found"
    /\ ReturnSpan(call, call.sym.file, call.sym.sym.start, call.sym.sym.end)
    /\ Proceed

(* references and structural_grep: which files, then one after the other *)
BeginScan(tool, files) ==
    /\ Begin
    /\ UNCHANGED budget
    /\ \E word \in Words :
          call' = [Fresh(tool) EXCEPT !.status = "scanning", !.word = word,
                                      !.files = {f \in files : disk[f] # None}]

BeginReferences == BeginScan("references", {f \in Files : Listed(f)})
BeginGrep == BeginScan("structural_grep", {f \in Files : Globbed(f)})

(* a hit: where it is, and the text of the line with that number *)
Hit(f, n) == [file |-> f, line |-> n, text |-> SplitLines(disk[f])[n]]
Hits(tool, f, word) ==
    {Hit(f, n) : n \in IF tool = "references" THEN Uses(disk[f], word)
                                               ELSE Matches(disk[f], word)}

FilesRead == {call.saw[k].file : k \in DOMAIN call.saw}
Unread == call.files \ FilesRead

(* mutant: a scan that runs out of budget returns what it has *)
OutOfBudgetPartial(rec) == call' = [rec EXCEPT !.status = "ok"] /\ UNCHANGED budget
OutOfBudget(rec) == Raise(rec, "exhausted")

(* the next file: read, charged, searched *)
ScanFile ==
    /\ call.status = "scanning" /\ Unread # {}
    /\ LET f == Least(Unread)
           cost == Estimate(Len(SplitLines(disk[f])))
       IN  \/ ~Readable(f) /\ Raise(call, "error")
           \/ Readable(f) /\ ~Affordable(cost) /\ OutOfBudget(call)
           \/ /\ Readable(f) /\ Affordable(cost)
              /\ Charge(call.tool, cost)
              /\ call' = [call EXCEPT
                    !.saw = Append(@, Read(f)), !.charged = @ + cost,
                    !.data = @ \union Hits(call.tool, f, call.word)]
    /\ Proceed

EndScan ==
    /\ call.status = "scanning" /\ Unread = {}
    /\ call' = [call EXCEPT !.status = "ok"]
    /\ UNCHANGED budget /\ Proceed

(* ReaderError before anything else: a path outside the worktree, no       *)
(* directory, a bad pattern or kind.                                       *)
Reject ==
    /\ Begin
    /\ \E tool \in {"list_dir", "read_span", "search_symbols", "structural_grep"} :
          Raise(Fresh(tool), "error")
-----------------------------------------------------------------------------
(* bound: the world changes only while a call is in progress or to come *)
Watched == Busy \/ left.calls > 0

(* A run of index_workspace over this worktree or another task's; a listed *)
(* file that cannot be read ends it without a commit.                      *)
IndexRun(i) ==
    /\ Watched /\ Spend("runs")
    /\ \E tree \in {disk} \union ForeignTrees :
          /\ \A f \in Files : Listed(f) => tree[f] # Huge
          /\ rows' = [f \in Files |->
                         IF tree[f] = None \/ ~Listed(f) THEN {}
                         ELSE IF \E r \in rows[f] : r.of = tree[f] THEN rows[f]
                         ELSE Store!Parse(tree[f], i)]
    /\ Store!Publish(i)
    /\ UNCHANGED <<disk, budget, checkpoint, call>>

(* The files change: a row is put first, the last one goes, the file is    *)
(* deleted or blown up.                                                    *)
Edit(f) ==
    /\ Watched /\ Spend("edits")
    /\ Readable(f)
    /\ \E new \in {<<[kind |-> "note", depth |-> 0, word |-> w, feed |-> FALSE]>> \o disk[f] :
                        w \in Words}
                  \union {s \in {SubSeq(disk[f], 1, Len(disk[f]) - 1)} : Complete(s)}
                  \union {None, Huge} :
          disk' = [disk EXCEPT ![f] = new]
    /\ UNCHANGED <<storevars, budget, checkpoint, call>>

Next ==
    \/ ListDir \/ ReadSpan \/ SearchSymbols
    \/ Lookup \/ ReadDefinition
    \/ BeginReferences \/ BeginGrep \/ ScanFile \/ EndScan
    \/ Reject
    \/ WriteCheckpoint \/ CrashAndResume
    \/ \E i \in Runs : IndexRun(i)
    \/ \E f \in Files : Edit(f)

Spec == Init /\ [][Next]_vars
-----------------------------------------------------------------------------
Tools == {"list_dir", "read_span", "search_symbols", "definition",
          "references", "structural_grep"}
Scans == {"references", "structural_grep"}
Entry == [tool : Tools, tokens : Nat \ {0}]

(* Types; no charge is of zero tokens. *)
TypeOK ==
    /\ \A f \in Files : rows[f] \subseteq Store!SymbolRow /\ disk[f] \in Sources \union {None, Huge}
    /\ used \in Nat /\ max_tokens \in Nat /\ ledger \in Seq(Entry)
    /\ call.saw \in Seq([file : Files, source : Sources])
    /\ call.charged \in Nat /\ call.since \in Nat
    /\ call.status \in {"none", "found", "scanning", "ok", "error", "ambiguous", "exhausted"}

(* The balance: used_tokens is the sum of the ledger and never exceeds the *)
(* budget, over any calls, crashes and resumptions; what a checkpoint has  *)
(* stays spent (budget.charge, snapshot, from_snapshot).                   *)
BudgetKept ==
    /\ used = SumTokens(ledger) /\ used <= max_tokens
    /\ checkpoint # None =>
          /\ checkpoint.max_tokens = max_tokens
          /\ checkpoint.used_tokens = SumTokens(checkpoint.ledger)
          /\ Len(checkpoint.ledger) <= Len(ledger)
          /\ checkpoint.ledger = SubSeq(ledger, 1, Len(checkpoint.ledger))

Paid == SumTokens(SubSeq(ledger, call.since + 1, Len(ledger)))
CostOf(reads) ==
    SumTokens([k \in 1 .. Len(reads) |->
                  [tokens |-> Estimate(Len(SplitLines(reads[k].source)))]])

(* A result names what the ledger gained by it, which is the price of the  *)
(* text or of the files that were read; a call that raises has paid for    *)
(* the files that it read before, and for nothing else (tools.py, rule 3). *)
DeliveredIsPaid ==
    /\ call.status = "ok" => call.charged = Paid
    /\ call.status = "ok" /\ call.tool \in {"read_span", "definition"} =>
          Paid = Estimate(Len(call.data))
    /\ call.tool \in Scans => Paid = CostOf(call.saw)
    /\ call.status \notin {"none", "ok"} /\ call.tool \notin Scans => Paid = 0

(* However little there is to read, empty files and empty directories      *)
(* included, every charge takes a token off the balance, so that no run is *)
(* charged more than max_tokens times; and a call that returns was charged,*)
(* a scan for each file it read (budget.estimate_tokens, tools.list_dir).  *)
NothingIsFree ==
    /\ Len(ledger) <= used
    /\ call.status = "ok" =>
          call.charged >= IF call.tool \in Scans THEN Len(call.saw) ELSE 1

(* The indexer's walk finds exactly the definitions of a file, each with   *)
(* its decorators, its last line and the class around it (indexer._walk).  *)
WalkIsExact ==
    \A f \in Files : Readable(f) => Symbols(disk[f]) = Definitions(disk[f])

(* In a file without form feeds the grep finds all code in the bodies of   *)
(* functions and classes, but for that which shares its line with a        *)
(* comment directly in an outermost body, and nothing but code, except for *)
(* strings and comments that stand deeper (tools._grep_bodies); so in the  *)
(* rows above the first form feed of any file.                             *)
GrepFindsCode ==
    \A f \in Files : Readable(f) => \A w \in Words : GrepIsRight(disk[f], w)

(* what definition() looked for, in the file that it read *)
Named(source) ==
    {d \in Definitions(source) : d.name = call.word /\ call.parent \in {None, d.parent}}

(* definition() reads, in a file that is still what was indexed, the one   *)
(* definition that the name, and the class if given, has there, and        *)
(* returns the whole of it and nothing else when no form feed stands above *)
(* its end: whatever was indexed, edited or committed between the SELECT   *)
(* and the read (tools.definition).                                        *)
DefinitionIsExact ==
    call.tool = "definition" /\ call.status = "ok" =>
        LET source == call.saw[1].source
        IN  source = call.sym.of =>
                \E d \in Named(source) :
                   /\ Named(source) = {d}
                   /\ d.end \notin Shifted(source) =>
                         call.data = SubSeq(source, d.start, d.end)

(* what a search is meant to find in a file, what of it it may lose, and   *)
(* what it may take for it                                                 *)
Wanted(source) ==
    IF call.tool = "references"
    THEN {n \in DOMAIN source : /\ source[n].word = call.word
                                /\ source[n].kind \notin {"class", "def", "text", "note"}}
    ELSE Meant(source, call.word)
MayLose(source) ==
    IF call.tool = "references" THEN {} ELSE Overlooked(source) \union Shifted(source)
MayTake(source) ==
    IF call.tool = "references" THEN {} ELSE Mistaken(source) \union Shifted(source)

(* A search that returns has read every file of its list, has all hits of  *)
(* what it read, and no others, but for the deviations of the grep that    *)
(* GrepFindsCode names; above the first form feed it gives the text of the *)
(* hit.  One that raises returns none, as if nothing had been found        *)
(* (tools.references, structural_grep).                                    *)
SearchIsComplete ==
    call.tool \in Scans =>
        /\ call.status = "ok" =>
              /\ FilesRead = call.files
              /\ \A k \in DOMAIN call.saw :
                    LET r == call.saw[k] IN
                    \A n \in Wanted(r.source) \ MayLose(r.source) :
                       \E h \in call.data : h.file = r.file /\ h.line = n
              /\ \A h \in call.data : \E k \in DOMAIN call.saw :
                    LET r == call.saw[k] IN
                    /\ h.file = r.file
                    /\ h.line \in Wanted(r.source) \union MayTake(r.source)
                    /\ h.line \notin Shifted(r.source) =>
                          h.text = r.source[h.line] /\ h.text.word = call.word
        /\ call.status \in {"error", "exhausted"} => call.data = {}
-----------------------------------------------------------------------------
(* Statements of the documentation that the code does not keep. *)

(* "read its exact source span from the worktree. Returns the source text" *)
(* (tools.py:201-202): what is returned has every row of the definition.   *)
DefinitionIsWhole ==
    call.tool = "definition" /\ call.status = "ok" =>
        LET source == call.saw[1].source
        IN  source = call.sym.of =>
                \A d \in Named(source) : \A n \in d.start .. d.end :
                   \E k \in DOMAIN call.data : call.data[k] = source[n]

(* "won't match a docstring explaining what password means; it only        *)
(* matches the pattern inside actual executable code bodies"               *)
(* (tools.py:394-396)                                                      *)
GrepSkipsProse ==
    call.tool = "structural_grep" /\ call.status = "ok" =>
        \A h \in call.data : \E k \in DOMAIN call.saw :
           h.file = call.saw[k].file /\ h.line \in CodeLines(call.saw[k].source)
=============================================================================

# Verification of the agentic code intelligence platform

TLA+ models of the platform in `src/`, TLC configurations that check them on
small instances, and TLAPS proofs of the properties that matter most.
`PROJECT.json` lists the runs, the mutants that show each property can fail, the
source lines behind every definition, the hazards and the theorems.

## 1. Inventory

The repository implements phases 1 and 2 of the platform: accounts, workspaces,
tasks with an isolated git worktree each, a journal of what happened to a task,
its live stream, and the retrieval layer (symbol index, tools, budget). The
agent loop of phase 3 and the sandbox of phase 4 are empty packages; the
orchestrator is a stub that appends one journal row. One process serves all of
it: an asyncio event loop over one SQLite file (WAL or not, the code sets
nothing) and a data directory.

| component | state it keeps | operations |
|---|---|---|
| authentication (`app/auth.py`, `scripts/create_user.py`) | `users` rows, key hashes | `require_user` before every route; create a user from the command line |
| workspace API (`app/api/workspaces.py`) | `workspaces` rows | create (insert, clone, one commit), get, list |
| task API (`app/api/tasks.py`) | `tasks`, `journal_events` rows | create, get, list, journal, cancel, event stream |
| orchestrator stub (`app/agent/orchestrator.py`) | background runs, in memory only | `run_task`: load, append row 1 |
| event stream (`app/api/tasks.py`) | one cursor per connection | poll rows, poll state, terminal event, disconnect |
| git workspaces (`app/retrieval/workspace.py`) | canonical repositories, worktrees, a lock file per merge | clone, add and remove a worktree, diff, merge into base |
| symbol indexer (`app/retrieval/indexer.py`) | `symbols`, `file_index_state` rows | `index_workspace`; the AST walk |
| reader, tools (`app/retrieval/reader.py`, `tools.py`) | none | read a span, resolve a path, list files, search, references, grep |
| budget (`app/retrieval/budget.py`) | tokens per category and the ledger | charge, remaining, snapshot, restore |
| schema (`app/models.py`) | the tables and their constraints | unique constraints, `TaskState.is_terminal`, the session |
| application shell (`app/main.py`, `app/config.py`) | counters, settings | start-up, health, metrics |

### How the components interact

* A request is a coroutine. It runs until an `await` that really waits (a
  database call); other requests, streams and background runs proceed in
  between. A git command is a blocking `subprocess.run` on the event loop.
* `POST /v1/tasks` looks the idempotency key up, fetches the workspace, inserts
  the task with row 0 of its journal, commits, adds the worktree, commits the
  worktree's path, answers 202, and only then starts `run_task`. The task row is
  visible to every other request from the first commit on.
* `run_task` and `cancel_task` both append to the journal and do not know of
  each other: the first always writes step 1, the second the step after the last.
* A stream reads the journal and then the state, in two statements.
* The indexer reads a task's worktree, in threads, and writes the index of the
  whole *workspace*, which all of its tasks share.
* SQLite is one writer at a time: the first INSERT, UPDATE or DELETE of a
  transaction takes the lock, its commit or rollback returns it, a waiter gives
  up after the driver's five seconds, a SELECT sees the last commit. The session
  opens no transaction for a SELECT.
* The container is restarted when the process dies; nothing in `main.py`
  resumes what was running.

### What is hard, and what must hold

| component | hard behaviour | what makes it correct |
|---|---|---|
| task API | two POSTs with one key; a retry of a half-finished POST; cancel against the creating request's second write; two cancels; a crash between commit, checkout and second commit | one task per key, agreeing answers, owner-scoped answers, a cancel granted once and for ever |
| orchestrator | appends at a fixed step whatever a cancel did before | the journal stays gapless, chains to the state, and is closed at a terminal state |
| streams | two reads per round, a commit between them; reconnects | no row below the cursor is missing; the terminal event is true; the stream ends |
| database lock | held across git commands by design or accident; error paths | every request ends, the lock is always given back |
| indexer | hash, read and commit of a file at three moments; two tasks of a workspace index at once | a file's symbols are of one generation and agree with its recorded hash |
| git workspaces | lock timeout, conflict, abort, crash between checkout and merge | base only grows; a conflict is reported and leaves the repository usable |
| workspace API | a clone inside an open transaction; failure and crash after the clone | a committed workspace has its repository |
| budget, tools | charge after the read, file by file in a scan; files and index change in the middle of a call; a run resumed from a checkpoint | the balance is the ledger's and is never exceeded; what is delivered is paid; a search is complete or returns nothing; `definition` returns the definition |
| the walks over syntax trees | decorators, nesting, `if` around a definition, comments behind code; rows of the tree against lines of `str.splitlines` | every definition once, with its span and its class; the code in bodies, and where the grep is known to deviate; the text that belongs to the span |

`PROJECT.json` lists each hazard at its line.

## 2. Modules

```
TaskTypes ── TaskLifecycle                    the abstract task and its journal
    └────── TaskService ── TaskServiceProps   the task API, the orchestrator, crashes
                 │               ├── TaskServiceProofs   (TLAPS)
                 │               └── MCTaskService       (TLC)
                 └─ TaskStreams ──── MCTaskStreams       event streams over the running service
                         └── TaskStreamsProofs   (TLAPS; on top of TaskServiceProofs)
WorkspaceService ── WorkspaceServiceProofs, MCWorkspaceService
IndexStore ──┬── SymbolIndex ─────── SymbolIndexProofs, MCSymbolIndex
             └── RetrievalTools ──── RetrievalToolsProofs, MCRetrievalTools
PythonSource ────┴── PythonSourceProofs ──┘
GitWorkspace ────── GitWorkspaceProofs, MCGitWorkspace
```

Every module says which file it models. What they have in common:

* **A request is a record of where it is.** `pc[r]` is the database call the
  coroutine is waiting for. One action stands for everything the handler does
  from one such call to the next, so all interleavings at `await`s are there and
  no others. `call[r]` is the request's body, `answer[r]` what its client was
  told; answers are kept, so a property can compare them with what happens later.
* **The database is its commits and its write lock.** `writer` is the open
  transaction that has written. A write needs `writer = None`; a request that is
  about to write while it is held may time out (`LockTimeout`); whatever the
  transaction wrote becomes visible in the step that commits it. A SELECT is not
  held up by a writer.
* **A crash** ends every coroutine, transaction and background run, and keeps the
  committed rows and the disk.
* **Mutants** (marked in the modules) are versions of an action or helper with a
  plausible bug. `PROJECT.json` pairs each property with one that violates it.

| module | its variables in the code | its actions in the code |
|---|---|---|
| `TaskLifecycle` | `status`, `history`: `tasks.state` and the journal of a task | `Create`, `Advance`: what the tables and ADR 002 promise of any writer |
| `TaskService` | `tasks`, `journal`: committed rows; `worktrees`: checkouts on disk; `runs`: background tasks | `Post` ... `Accept`: `create_task` by its awaits; `PostCancel`, `LoadTask`, `FlushCancel`, `CommitCancel`: `cancel_task`; `RunLoad`, `RunAppend`: `run_task`; `OutsiderBegins`/`Ends`: the transactions of the other components |
| `TaskStreams` | `last_seen`, `seen`, `told`: a generator's cursor and what it sent | `Open`, `Poll`, `CheckState`, `Disconnect`: `event_generator` |
| `WorkspaceService` | `rows`: committed workspaces; `repos`: clones under `repos_dir` | `Post`, `Insert`, `Clone`, `Commit`, `Refresh`: `create_workspace`; `Fetch`: `get_owned_workspace` |
| `SymbolIndex` | `index`: `symbols` and `file_index_state` of one workspace; `pending`: the open transaction; `disk`: worktrees; `known`, `todo`, `current`: locals of a run | `Start` ... `Commit`: `index_workspace` by its awaits; `Edit`: the tasks' tools |
| `IndexStore` | `rows`: the `symbols` table as readers see it; `published`: the runs that committed | `Publish`: what a commit of any run may do to the rows |
| `RetrievalTools` | `max_tokens`, `used`, `ledger`: a `RetrievalBudget`; `call`: the locals and the result of a tool call; `disk`: the worktree; `checkpoint`: the last snapshot | `ListDir`, `ReadSpan`, `SearchSymbols`: one step each; `Lookup`, `ReadDefinition`: `definition` before and after it closes its session; `BeginReferences`/`BeginGrep`, `ScanFile`, `EndScan`: the scans, file by file; `Reject`; `WriteCheckpoint`, `CrashAndResume`; `IndexRun`, `Edit`: the rest of the system |
| `PythonSource` | none: operators | `Symbols`: `_walk`; `Uses`: `_find_references`; `Matches`: `_grep_bodies`; `SplitLines`: `str.splitlines`; `Lines`: `read_span`; `Estimate`: `estimate_tokens`; and, read off the indentation, `Definitions` and `CodeLines` to compare the walks with |
| `GitWorkspace` | `base`, `branch`: the work they contain; `wdir`, `meta`: a worktree and its entry in `.git/worktrees`; `midmerge`, `indexlock`: what an unfinished command leaves; `lock`: the FileLock | `Create` ... `Populate`, `Remove` ..., `MergeIntoBase` ...: one action per git command |

Data is abstracted to what the properties tell apart: an instruction or a budget
of a task is not there, the content of a file is a value, a SHA256 is the
content it is of, the content of a branch is the set of tasks whose work is in it.

`IndexStore` stands between the two halves of the retrieval layer: `SymbolIndex`
implements it (`StoreSpec`, checked and proved), and `RetrievalTools` instantiates
it with `Contents <- Sources`, so that the tools are checked over everything an index may become and not over
one good index. For `PythonSource` a file is a sequence of rows, each with its
depth, its kind (header, decorator, code, code with a trailing comment, string,
comment, `if`), one word, and whether it begins with a form feed; `Sources` are the sequences that Python could
parse, of any length. `Node` and `Block` are what tree-sitter makes of it: a
statement is known by its first line. The walks go through these nodes as the code
does, each a recursive function over the first lines of the statements (`Walk`,
`GrepBodies`): one function gives the result for every node, which is the form that
the provers can reason about.

Two numberings meet in the retrieval layer. tree-sitter, and with it the index and
the grep, counts rows, which end with a newline; `read_span` and the texts of hits
are indexed by the lines of `str.splitlines`, which also ends a line at a form feed
and at six rarer characters. `SplitLines` is that function: a form feed puts a line
of its own before the row it begins, and `LineNo` says where the rows below it have
gone. `Shifted` are the rows whose two numbers differ.

What the grep is compared with is what its docstring promises, `CodeLines`: rows in
the body of a function or class that are not a string or a comment. The code
deviates in two ways, which have names of their own: `Overlooked` (code with a
trailing comment directly in an outermost body) and `Mistaken` (strings and comments
that stand deeper). `GrepIsRight` says that it deviates in no other.

## 3. Runs

| run | instance | what it shows |
|---|---|---|
| `task_races` | 2 users with a workspace each, a caller without account, one shared key, the empty key and no key; 3 requests, 1 crash; symmetric in ids, requests and users | `create_task`, `cancel_task` and `run_task` in every order implement `TaskLifecycle` (`LifecycleSpec`); the journal is gapless and chains to the state; one task per key and agreeing 202s; a cancel is granted once and stays (`CancelHolds`); a task whose run failed or was lost can be cancelled (`AbandonedIsCancellable`); runs start in a recorded worktree (`WorktreeFirst`); answers go to owners |
| `task_streams` | 1 stream opened repeatedly, 2 requests, 2 crashes, no symmetry | a client has every row up to its cursor; the terminal event is true; rows arrive and streams end; every request is answered, every lock returned, every run ends (`EverythingEnds`) |
| `workspaces` | 2 users and a stranger, one name, 2 branches, 3 requests of which 2 may create, 1 crash | a visible workspace has a whole clone on its branch; every answer is so and stays so: a 201 names the only workspace of its name, a 400 or 409 leaves no row, a 500 or a cut connection the whole workspace or nothing; requests end and return the lock |
| `index` | 2 runs, 2 worktrees, 2 files, a content with symbols and one without, 2 edits at any time, 1 crash | the runs implement `IndexStore`; one parse per file; hashes name the stored symbols, but for torn files; an undisturbed run leaves a fresh index; runs end and return the lock |
| `retrieval` | every well-formed file of up to 4 rows for the walks, and of up to 3 with a form feed in one of them; 6 worktrees of 3 files (one in a directory that only the grep passes over, one in a directory that only the index passes over; one file with a form feed), budgets of 5 and 40 tokens, 2 calls, 1 edit, 1 index run, 1 crash for the tools | the indexer finds exactly the definitions, the grep the code in bodies but for its named deviations; the balance, `DeliveredIsPaid`, `NothingIsFree`, `DefinitionIsExact`, `SearchIsComplete` |
| `git` | 2 tasks whose work clashes, any sequence of calls, 2 kills or crashes | no work overwritten; conflicts name their files; answers true; repository clean unless a command was killed; worktrees whole or gone unless a call was killed; calls end |

The bounds: every hazard on the list involves at most three requests (two that
race and the one that created what they race for), two runs, two tasks or one
stream; ids, users and files beyond those never meet. Counters: `MaxCrashes`,
`MaxEdits`, `MaxKills`, `left` in `RetrievalTools` (calls, edits, index runs and
crashes to come; `Watched` stops the world when no call is left to see it), and
the number of POSTs, which is at most the number of ids, so that a create always
finds a fresh one. In `retrieval` four rows hold a decorator, a header, a nested
header and code, or two definitions of one name; two calls are a call and what
it leaves to the next; with 5 tokens a scan runs out after its first file, with
40 none does. It reaches, among others: a definition read by a stale row, a scan
exhausted after hits, hits in two files, a file blown up under a scan, a resumed
budget. No journal outgrows two rows in
`TaskService`, as the proof (`Shapes`) shows. Systems that can stop are checked
with `CHECK_DEADLOCK FALSE`: when every request has been used there is nothing
left to do; that nothing stops earlier is what the liveness properties say.

### Fairness

* Weak fairness of a request, a run or a stream: the event loop runs every
  coroutine whose awaited call has returned. A call to the database does
  return, with the lock or after the busy timeout with an error, so `Handle(r)`
  stays enabled while it waits; no property relies on a waiter getting the lock.
* `OutsiderEnds`: the transactions of `create_workspace` and `index_workspace`
  end, which the runs `workspaces` and `index` check (`RunsEnd` for the index).
* Git commands: `subprocess.run(timeout=60)`; the FileLock: `timeout=30`.
* Nothing is assumed about clients, edits, crashes or kills.

## 4. Where code and documentation disagree

Six runs show a statement of a doc, comment or test that the program does not
keep; each is checked for one property, which TLC violates. `PROJECT.json`
("findings") quotes the statements.

| run | what happens |
|---|---|
| `accepted_without_worktree` | a retry between the commit and the checkout, or after a failed checkout, is told 202 for a task without worktree |
| `cancel_queued_fails` | once `run_task` has appended row 1, `scalar_one_or_none()` meets two rows and a QUEUED task can no longer be cancelled (500) |
| `repost_race` | two concurrent POSTs of one key: the second gets a 500 from the unique constraint instead of the existing task |
| `stream_history` | a cancel between the two SELECTs of a round: the stream ends without the row of the cancel |
| `index_snapshot` | a run whose known hashes are stale after another run's commit ends with an index that is not of its worktree |
| `git_removed` | `remove_worktree` after a checkout that was killed leaves entry and branch, and says nothing |

Five more have a property in their module that states what is promised, and no
run of their own. TLC violates each when the cfg of the module's run names it in
place of its invariants and properties, with the same constants:

| property | of | what happens |
|---|---|---|
| `HashMeansUpToDate` | `SymbolIndex`, `MCSymbolIndex.cfg` | a file edited between its hash and its read is stored with the symbols of the new content under the hash of the old (`indexer.py:230`, `244`); when it goes back to the old content its hash agrees, and every later run skips it. `models.py:243-244`: "if the file's current SHA256 matches the stored hash the file is up-to-date and is skipped" |
| `ReturnedIsWhole` | `GitWorkspace`, `MCGitWorkspace.cfg` | `create_worktree` takes the directory that a killed checkout left half filled for a finished worktree (`workspace.py:103-106`; the comment there: "Resuming a crashed task that already has a worktree: reuse it.") |
| `AcquirerMergesOrConflicts` | `GitWorkspace`, `MCGitWorkspace.cfg`, as a PROPERTY | a merge killed by its timeout leaves `index.lock` or the unfinished merge; the next `merge_into_base` does neither of what `workspace.py:152-154` says ("either fast-forwards cleanly or fails with WorkspaceConflictError"), but fails with a plain `GitError` |
| `DefinitionIsWhole` | `RetrievalTools`, `MCRetrievalTools.cfg` | a form feed above a definition: `read_span` counts lines of `str.splitlines()` (`reader.py:129`), the index rows of tree-sitter (`indexer.py:94-96`), and `definition` returns a span that begins and ends too early. `tools.py:201-202`: "read its exact source span from the worktree" |
| `GrepSkipsProse` | `RetrievalTools`, `MCRetrievalTools.cfg` | `structural_grep` returns the docstring of a method. `tools.py:394-396`: "won't match a docstring explaining what password means"; `tests/test_retrieval_phase2.py:331`: "Pattern inside a docstring must NOT be returned." |

Met on the way:

* An idempotency key `""` skips the lookup (`if body.idempotency_key`,
  `tasks.py:43`) and yet counts for the constraint: the second such POST of a
  user is a 500.
* The torn files of `HashMeansUpToDate` are the exception in `HashNamesSymbols` and
  `FreshAfterIndex`; without it TLC violates both.
* `create_workspace` refreshes the row after its commit and inside the same `try`
  (`workspaces.py:72-73`): when that fails, the client is told 500 and the workspace
  is there. `AnswersAreTrue` promises of a 500 only the whole workspace or nothing.
* `definition` over a stale index returns lines of a file that is no longer what
  was indexed, with no sign of it; `DefinitionIsExact` is about files that are.
* The directories that are skipped differ: `.tox` is indexed and searched by
  `references` but not by `structural_grep`; `data` and `node_modules` the other
  way round (`reader.py:21-28`, `tools.py:413-417`).
* A source repository without a commit passes `POST /v1/workspaces` (the clone
  works), and then every `POST /v1/tasks` on it commits a task and fails in git.
* `RetrievalBudget.charge` says that it raises "before the read happens"
  (`budget.py:79-81`); every tool reads first and charges afterwards.
* `structural_grep` skips the strings and comments that are direct children of the
  outermost body with their whole rows (`tools.py:497-506`): code that shares its
  row with a trailing comment is lost (`Overlooked`), besides the strings and
  comments further down that are taken for code (`GrepSkipsProse`).
* With a form feed above it, a hit of `references` or `structural_grep` has the
  number of its row and the text of an earlier one, and the grep matches that text.
* A function inside a method is indexed as a method of the class.
* A test of `read_span` expects "beyond end of file" where the reader says "EOF".

## 5. Proofs

`TaskServiceProofs` proves, for every number of users, callers, workspaces, keys,
ids, requests and crashes, from `ServiceAssumption` alone (the special values are
distinct, every workspace has an owner, `MaxCrashes` is a number):

| theorem | |
|---|---|
| `TypeCorrect` | `TypeOK` |
| `KeysUnique`, `RetriesAgree` | `OneTaskPerKey`, `SameKeySameTask` |
| `TenantsIsolated` | `OwnerScoped` |
| `CancelReliable` | `CancelHolds` |
| `RunsIsolated` | `WorktreeFirst` |
| `AbandonedCancellable` | `AbandonedIsCancellable` |
| `Implements` | `LifecycleSpec`: every step of the service is a step of `TaskLifecycle` or a stutter |
| `JournalChains`, `TerminalForever` | `ChainedJournal`, `TerminalIsFinal` |

None of these is inductive. A journal that is gapless says nothing about why the
row that `run_task` is about to insert at step 1, or that `cancel_task` is about
to insert after a row it has read, leaves it gapless; a cancel decides by a state
it read two steps before. The invariant `IInv` adds what makes the steps safe:

* `Shapes`: a task and its journal are together one of four things: absent,
  queued with row 0, queued with rows 0 and 1, cancelled with rows 0 and its
  cancel's row 1. (This is where `scalar_one_or_none()`, a bug for the client,
  protects the journal: a cancel that meets two rows does nothing.)
* `LockInv`: the lock is held by the one request inside a transaction that has
  written.
* `RequestInv`: what a request knows at each label; for instance at `commit` that
  the id and the key it is about to use are free, which no other request can
  change because this one holds the lock.
* `AnswerInv`: what an answer says of the tables, however late it is read.

One lemma per action shows that it keeps `IInv` (`...Keeps`), with lemmas for
what they share: a step that only moves one request (`QuietStep`, `GoingOn`,
`RefusedKeeps`) and what a step leaves to the other requests (`OthersKept`).
The refinement goes through `OneGrows`: a step adds at most one row, to one task,
after its last row; `StepImplements` turns this into `Create` or `Advance`.
`AbandonedCancellable` needs a second invariant, `ScheduleInv`: a run appends
only for the task that its own creator scheduled, so that a second row means a
run that has noted it or a cancel.

`WorkspaceServiceProofs` proves the safety properties of `WorkspaceService`, and that
names are unique (`TypeCorrect`, `WorkspacesReady`, `NamesUnique`, `AnswersTrue`) for all values of
the constants, from `WorkspaceAssumption`. `CommittedIsReady` and `OneNamePerUser`
are not inductive: the commit relies on a clone made and a name found free two
steps before. `IInv` adds that the request in a write transaction holds the lock
and that its name is still free (`Inserting`), that its clone is the one it will
name (`Cloned`), and that ids are drawn once (`OwnIds`, `RowsAreDrawn`), so that no
other request's clone or crash touches the directory of a committed row.

`SymbolIndexProofs` proves every safety property of the run `index` for any
number of files, contents, worktrees, runs, edits and crashes, from
`IndexAssumption`:

| theorem | |
|---|---|
| `TypeCorrect` | `TypeOK` |
| `OneParseEach` | `OneGeneration`: the rows of a file are of one parse (no run of its own: `StoreSpec` implies it) |
| `HashesTrue` | `HashNamesSymbols` |
| `Implements` | `StoreSpec`: a commit is a `Publish`, every other step a stutter |
| `IndexFresh` | `FreshAfterIndex` |

The committed tables change in one step, to whatever the open transaction holds;
so the invariant is about `pending`: it names what it stores (`Named`), it is the
committed tables when nobody writes (`LockInv`), and of each file it holds what is
committed, nothing, or one parse of the writing run (`Publishable`). For
`IndexFresh`, `Fresh` says what an undisturbed run has still to do: in the tables
as it sees them, every file it has come to has the hash on disk, and every other
the hash it loaded (`Halfway`); this is where a commit of another run between
load and first write breaks the argument, and the finding `index_snapshot` is.

`GitWorkspaceProofs` proves every safety property of the run `git` for any number
of tasks, any clashes between their work, and any number of timeouts and crashes,
from `GitAssumption`:

| theorem | |
|---|---|
| `TypeCorrect` | `TypeOK` |
| `NothingClobbered` | `NoClobber` |
| `ConflictsNamed` | `ConflictNamesFiles` |
| `LeftClean` | `CleanUnlessKilled` |
| `WorktreesSound` | `WorktreesWholeOrGone` |
| `AnswersTrue` | `AnswersAreTrue`, an action property |

That a conflict names its own clashes is a matter of the lock: from `checkout` on,
the merge that the repository is in the middle of is none or the caller's own, and
the files it listed are its conflicts (`LockInv`, `MergeInv`). That base overwrites
nothing is a matter of what the branches were made on top of: a branch has nothing
but base and its own work, and had its own work before base did (`BranchInv`), so
work that is still being done is in nobody else's branch and may come to know more;
and of two clashing works in base or in one branch, one was made on top of the other
(`Reconciled`), which `git merge` keeps by refusing when it does not hold.
`CleanInv` says whose an unfinished merge or a lock file is while nothing has been
killed, and `TreeInv` which directory, entry and branch a removal has left at each
of its commands, where a kill may leave it for good. `SoundInv` says which of
these are left while nothing has been killed: between calls a whole worktree or none.

`TaskStreamsProofs` proves the safety properties of the streams (`StreamTypeCorrect`,
`NoRowSkipped`, `EndIsTrue`) for any number of streams over any instance of the
service. It uses `IInv` of `TaskServiceProofs` and one consequence of it, `TasksGoOn`:
a step of the service may give the journal of a task rows above those it has, and
leaves a finished task alone. With that, a cursor that is at a row of the journal
(`Placed`), with every row up to it sent (`UpToCursor`), stays so whatever is
committed between two rounds or between the two SELECTs of one.

`PythonSourceProofs` proves what the walks find in every file that parses, of any
length and nesting, from `SourceAssumption` (`Nobody` is not a name, a line has
characters):

| theorem | |
|---|---|
| `SymbolsAreDefinitions` | `Symbols(source) = Definitions(source)`: `_walk` finds each definition, with its decorators, its last line and the class around it |
| `MatchesAreCode` | `GrepIsRight`: above the first form feed `_grep_bodies` finds all code in bodies but what it overlooks, and no other row but what it mistakes for code |
| `MatchesAreMeant` | without form feeds, overlooked code and mistaken prose, `Matches` is `Meant`, the code lines with the word |

The left sides go down the tree, the right sides read the indentation of one line
at a time. Between them stand the facts about blocks: where a statement ends
(`NodeEnd`), that the statements of a block are disjoint and cover it
(`BlockCovers`), that the body of a node is such a block (`NodeBlock`) and exactly
what is indented below it (`NodeRegion`), and that nothing in a block is around the
statements of the block (`NotAround`). With these, what a walk should find below a
node is written in closed form (`Below`, `GrepBelow`) and satisfies the equation of
the recursion (`WalkStep`, `GrepStep`). It is the only function that does: at the
last statement where two of them differed, they would agree on all children, which
come after it (`WalkIs`, `GrepIs`). That takes the place of an induction over the
tree, whose theorem in the library the provers cannot instantiate; that a set of
numbers has a least and a greatest element (`LeastOf`, `GreatestOf`) comes from the
well-foundedness of `<`.

The rows that the grep looks at in this closed form (`BodyLines`) are then compared
with what it should look at (`BodyLinesAre`): a row in a definition is in exactly one
outermost definition (`OutermostIs`), and whether it stands directly in that body
decides all. `SplitAt` joins the two numberings: above the first form feed `LineNo` is
the identity, and no row further down can have the number of one above.

`RetrievalToolsProofs` proves every invariant of the run `retrieval` for any files,
contents, budgets, spans and bounds, from `SourceAssumption` and
`RetrievalAssumption` (finitely many files, numbered; `None` and `Huge` are not
contents; scenarios are of their types):

| theorem | |
|---|---|
| `Inductive` | `IInv` |
| `TypeCorrect` | `TypeOK` |
| `BudgetIsKept` | `BudgetKept` |
| `EachDeliveryIsPaid` | `DeliveredIsPaid` |
| `ChargesAreNotFree` | `NothingIsFree` |
| `WalksStayExact` | `WalkIsExact` |
| `GrepsFindCode` | `GrepFindsCode` |
| `DefinitionsAreExact` | `DefinitionIsExact` |
| `SearchesAreComplete` | `SearchIsComplete` |

The properties speak of the end of a call, so `IInv` says what a call in progress
has done. `PaidSoFar`: a scan has paid for exactly the files it has read, any other
call for nothing before its result. `ScanSoFar`: its data are the hits in the files
read, which are among those it listed. `FoundSoFar`: the row that `definition` holds
after its session is closed is the only symbol of that name in the content that was
indexed. That there is one comes from the index: all rows of a file are of
one parse of one content (`OneParse`, what `IndexStore` promises and
`SymbolIndexProofs` proves of the indexer), and `SymbolsAreDefinitions` turns the
symbol into a definition. What is read by its rows is what lies at those lines when no form feed stands
above its end (`LinesAre`). `CheckpointOK`: a checkpoint is a prefix of the ledger
with its own sum, within the budget, which a resumption relies on. The sum of a
ledger is a recursive function, too; that it exists, that it depends on the tokens
alone, that an entry adds its tokens and that a sum of positive numbers is at least
their number (`SumExists`, `SumSame`, `SumExtend`, `SumAtLeast`) is shown as for the
walks. `WalksStayExact` needs that an edit leaves a file that parses
(`NoteFirst`, `LastGone`). There is one lemma per action (`KeptBy...`), with lemmas
for the ways a call goes on (`ChargeKeeps`, `RaiseKeeps`, `ReturnKeeps`, `SpanKeeps`).

Only model-checked: liveness, since fairness and ENABLED are out of the prover's
reach (`EverythingEnds`, `RowsArrive`, `StreamEnds`, `RunsEnd`, `CallsEnd`,
`RequestsEnd`). Every other property of a passing run is proved.

## 6. Not modelled

* `merge_into_base`, `remove_worktree` and the retrieval layer have no caller in
  the API yet. They are modelled as their docstrings say they will be called:
  concurrently for different tasks, one call at a time for each.
* PostgreSQL, which the configuration allows: its row locks and snapshots differ.
* A SELECT that fails because a commit is in progress, and a full disk (except
  for the commit of `create_workspace`).
* `index_workspace` lists the worktree in one step.
* Paths (`_resolve_file`'s check against escapes is an outcome, `ReadError` and
  `Reject`), regular expressions and `LIKE` patterns are what they select.
  tree-sitter is external: `Node` and `Block` are its tree for the lines of `PythonSource`;
  statements over several lines and source that does not parse are left out. A form
  feed at the beginning of a row stands for all characters at which `str.splitlines`
  ends a line and tree-sitter does not (`\v`, `\x1c`-`\x1e`, `\x85`, U+2028, U+2029,
  and a lone `\r`); in the middle of a row, in a string or comment, they shift the
  rows below in the same way.
* `task_checkpoints` and `budget_ledger` have no writer; a checkpoint is modelled
  as `RetrievalBudget.snapshot` and `from_snapshot` define it.
* `main.py`, `config.py`, the hashing of keys, the Dockerfile: no state of the
  system. (`tasks_created_total` in `main.py` is never incremented.)

## 7. Plan

Done: the task service with its lifecycle and streams, the workspace service, the
index over its abstract store, git, the retrieval tools; every safety property of
all of them proved. Left: a serial merge queue that `GitWorkspace` implements when
nothing is killed.

## 8. Running

```
tlc -workers 2 -config MCTaskServiceRaces.cfg MCTaskService.tla
tlc -workers 2 -config MCRetrievalTools.cfg MCRetrievalTools.tla
tlapm TaskServiceProofs.tla
tlapm TaskStreamsProofs.tla
tlapm RetrievalToolsProofs.tla
```

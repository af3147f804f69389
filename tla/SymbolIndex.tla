---------------------------- MODULE SymbolIndex ----------------------------
(***************************************************************************)
(* index_workspace (app/retrieval/indexer.py): the symbol index of one     *)
(* workspace, kept in the symbols and file_index_state tables and shared   *)
(* by all tasks of the workspace, while each run of the indexer reads the  *)
(* worktree of its own task.                                               *)
(*                                                                         *)
(* A run is a coroutine that is cut at its awaits.  It reads the known     *)
(* hashes before it writes anything; its first DELETE takes the write lock *)
(* of the database, and one commit at the end publishes all its writes.    *)
(* Files that it reads may be edited meanwhile.  A SHA256 is modelled by   *)
(* the content it is of, and a parse by the rows it yields.                *)
(***************************************************************************)
EXTENDS Naturals

CONSTANTS
    Files,         \* relative paths of Python files
    Contents,      \* contents a file may have
    Blank,         \* the content in which tree-sitter finds no symbol
    Worktrees,     \* the worktrees of the workspace's tasks
    Runs,          \* calls of index_workspace, each used once
    None,          \* no row, no file, nobody
    MaxEdits,      \* bound on the edits of the worktrees
    MaxCrashes     \* bound on the crashes of the process

ASSUME IndexAssumption ==
    /\ Blank \in Contents
    /\ None \notin Contents /\ None \notin Runs
    /\ None \notin Worktrees /\ None \notin Files
    /\ MaxEdits \in Nat /\ MaxCrashes \in Nat

Maybe(S) == S \union {None}

(* a row of the symbols table, by the content it is of and the run it is from *)
SymbolRow == [of : Contents, by : Runs]
(* The two tables; hashes[f] is the content_hash of f's row, if it has one. *)
(* History: the torn files, whose hash is not that of what was parsed.      *)
Tables == [symbols : [Files -> SUBSET SymbolRow], hashes : [Files -> Maybe(Contents)],
           torn : SUBSET Files]

VARIABLES
    disk,       \* disk[w][f]: the content of f in worktree w, or None
    index,      \* the committed tables
    pending,    \* the tables as the open transaction sees them
    writer,     \* the run whose transaction is open
    rpc,        \* where each run is
    tree,       \* the worktree it indexes
    todo,       \* the files of its listing it has not come to
    known,      \* the hashes it loaded
    current,    \* the file it has hashed and must parse, with that hash
    disturbed,  \* history: what happened since the run began, of a commit
                \* by another run and an edit of its worktree
    edits, crashes

cursor == <<tree, todo, known, current>>
vars == <<disk, index, pending, writer, rpc, tree, todo, known, current,
          disturbed, edits, crashes>>

Active(i) == rpc[i] \in {"load", "purge", "scan", "parse"}

(* history *)
Disturb(what, runs) ==
    disturbed' = [i \in Runs |->
        IF i \in runs /\ (Active(i) \/ rpc[i] = "done") THEN disturbed[i] \union {what}
                                                       ELSE disturbed[i]]

Unknown == [f \in Files |-> None]
Nothing == [file |-> None, hash |-> None]

(* Every worktree starts as a checkout of the base branch. *)
Init ==
    /\ \E base \in [Files -> Maybe(Contents)] : disk = [w \in Worktrees |-> base]
    /\ index = [symbols |-> [f \in Files |-> {}], hashes |-> Unknown, torn |-> {}]
    /\ pending = index
    /\ writer = None
    /\ rpc = [i \in Runs |-> "idle"]
    /\ tree = [i \in Runs |-> None]
    /\ todo = [i \in Runs |-> {}]
    /\ known = [i \in Runs |-> Unknown]
    /\ current = [i \in Runs |-> Nothing]
    /\ disturbed = [i \in Runs |-> {}]
    /\ edits = 0
    /\ crashes = 0

(* the write lock is free or already this run's *)
CanWrite(i) == writer \in {None, i}

(* list_python_files, in a thread *)
Start(i) ==
    /\ rpc[i] = "idle"
    /\ \E w \in Worktrees :
          /\ tree' = [tree EXCEPT ![i] = w]
          /\ todo' = [todo EXCEPT ![i] = {f \in Files : disk[w][f] # None}]
    /\ rpc' = [rpc EXCEPT ![i] = "load"]
    /\ disturbed' = [disturbed EXCEPT ![i] = {}]
    /\ UNCHANGED <<disk, index, pending, writer, known, current, edits, crashes>>

Gone(i, hashes) == {f \in Files : hashes[f] # None} \ todo[i]

(* the SELECT of the known hashes: outside any transaction *)
LoadKnown(i) ==
    /\ rpc[i] = "load"
    /\ known' = [known EXCEPT ![i] = index.hashes]
    /\ rpc' = [rpc EXCEPT ![i] = IF Gone(i, index.hashes) = {} THEN "scan" ELSE "purge"]
    /\ UNCHANGED <<disk, index, pending, writer, tree, todo, current,
                   disturbed, edits, crashes>>

(* mutant: only the file_index_state row is deleted *)
WithoutKeepsRows(tables, files) ==
    [tables EXCEPT !.hashes = [f \in Files |-> IF f \in files THEN None ELSE @[f]]]

Without(tables, files) ==
    [symbols |-> [f \in Files |-> IF f \in files THEN {} ELSE tables.symbols[f]],
     hashes  |-> [f \in Files |-> IF f \in files THEN None ELSE tables.hashes[f]],
     torn    |-> tables.torn \ files]

(* the DELETEs for the files that are gone *)
Purge(i) ==
    /\ rpc[i] = "purge"
    /\ CanWrite(i)
    /\ writer' = i
    /\ pending' = Without(pending, Gone(i, known[i]))
    /\ rpc' = [rpc EXCEPT ![i] = "scan"]
    /\ UNCHANGED <<disk, index, cursor, disturbed, edits, crashes>>

UpToDateIfKnown(i, f, hash) == known[i][f] # None      \* mutant: any hash will do
UpToDate(i, f, hash) == known[i][f] = hash

Rest(i, f) == todo[i] \ {f}

(* content_hash of the next file, in a thread, and the skip of an unchanged one *)
Scan(i) ==
    /\ rpc[i] = "scan"
    /\ \E f \in todo[i] :
          /\ disk[tree[i]][f] # None
          /\ todo' = [todo EXCEPT ![i] = Rest(i, f)]
          /\ IF UpToDate(i, f, disk[tree[i]][f])
             THEN UNCHANGED <<rpc, current>>
             ELSE /\ current' = [current EXCEPT ![i] =
                                    [file |-> f, hash |-> disk[tree[i]][f]]]
                  /\ rpc' = [rpc EXCEPT ![i] = "parse"]
    /\ UNCHANGED <<disk, index, pending, writer, tree, known, disturbed,
                   edits, crashes>>

ParsedNameless(source, i) ==                           \* mutant: a row for nothing
    {[of |-> IF source = Blank THEN None ELSE source, by |-> i]}
Parsed(source, i) == IF source = Blank THEN {} ELSE {[of |-> source, by |-> i]}

(* history: the rows stored for f are of source, under this hash *)
Torn(f, source, hash) == IF source = hash THEN pending.torn \ {f}
                         ELSE pending.torn \union {f}

Replaced(f, source, hash, i) ==
    [symbols |-> [pending.symbols EXCEPT ![f] = Parsed(source, i)],
     hashes  |-> [pending.hashes EXCEPT ![f] = hash],
     torn    |-> Torn(f, source, hash)]

(* DELETE of the file's rows, which takes the lock if the run has it not   *)
(* yet; read_bytes; parse; INSERT of the rows and upsert of the hash that  *)
(* was computed before.  None of the writes is visible before the commit,  *)
(* and all of them come after the read, so that they are one step.         *)
Reindex(i) ==
    /\ rpc[i] = "parse"
    /\ CanWrite(i)
    /\ LET f == current[i].file
           source == disk[tree[i]][f]
       IN  /\ source # None
           /\ pending' = Replaced(f, source, current[i].hash, i)
    /\ writer' = i
    /\ rpc' = [rpc EXCEPT ![i] = "scan"]
    /\ current' = [current EXCEPT ![i] = Nothing]
    /\ UNCHANGED <<disk, index, tree, todo, known, disturbed, edits, crashes>>

(* the locals of a coroutine go with it *)
Forget(i) ==
    /\ todo' = [todo EXCEPT ![i] = {}]
    /\ known' = [known EXCEPT ![i] = Unknown]
    /\ current' = [current EXCEPT ![i] = Nothing]

(* db.commit(); a run that wrote nothing commits nothing *)
Commit(i) ==
    /\ rpc[i] = "scan"
    /\ todo[i] = {}
    /\ IF writer = i
       THEN /\ index' = pending
            /\ writer' = None
            /\ Disturb("commit", Runs \ {i})
       ELSE UNCHANGED <<index, writer, disturbed>>
    /\ rpc' = [rpc EXCEPT ![i] = "done"]
    /\ Forget(i)
    /\ UNCHANGED <<disk, pending, tree, edits, crashes>>

(* An exception leaves the `async with` of the session, which rolls back.  *)
Rollback(i) ==
    IF writer = i THEN writer' = None /\ pending' = index
                  ELSE UNCHANGED <<writer, pending>>

Fail(i) ==
    /\ rpc' = [rpc EXCEPT ![i] = "failed"]
    /\ Forget(i)
    /\ tree' = [tree EXCEPT ![i] = None]
    /\ disturbed' = [disturbed EXCEPT ![i] = {}]
    /\ UNCHANGED <<disk, index, edits, crashes>>

RaiseLeaks(i) == Fail(i) /\ UNCHANGED <<pending, writer>>  \* mutant: left open
(* mutant: the lock is released, the writes stay *)
RaiseKeepsWrites(i) ==
    /\ Fail(i)
    /\ writer' = IF writer = i THEN None ELSE writer
    /\ UNCHANGED pending
Raise(i) == Fail(i) /\ Rollback(i)

(* ReaderError: a listed file is gone, or is one that cannot be read, such *)
(* as a symbolic link out of the worktree.  One such file ends the run.    *)
ReadError(i) ==
    \/ rpc[i] = "scan" /\ todo[i] # {} /\ Raise(i)
    \/ rpc[i] = "parse" /\ CanWrite(i) /\ Raise(i)

(* OperationalError: another run, or a request of the API, kept the write  *)
(* lock for the busy timeout.                                              *)
LockTimeout(i) ==
    /\ rpc[i] \in {"purge", "parse"}
    /\ writer # i
    /\ Raise(i)

(* A task writes, creates or deletes a file of its worktree, also while a  *)
(* run reads it, for instance between its hash and its parse.              *)
Edit(w, f) ==
    /\ edits < MaxEdits
    /\ edits' = edits + 1
    /\ \E c \in Maybe(Contents) \ {disk[w][f]} : disk' = [disk EXCEPT ![w][f] = c]
    /\ Disturb("edit", {i \in Runs : tree[i] = w})
    /\ UNCHANGED <<index, pending, writer, rpc, cursor, crashes>>

Crash ==
    /\ crashes < MaxCrashes
    /\ crashes' = crashes + 1
    /\ rpc' = [i \in Runs |-> IF Active(i) THEN "lost" ELSE rpc[i]]
    /\ writer' = None
    /\ pending' = index
    /\ todo' = [i \in Runs |-> {}]
    /\ known' = [i \in Runs |-> Unknown]
    /\ current' = [i \in Runs |-> Nothing]
    /\ tree' = [i \in Runs |-> IF Active(i) THEN None ELSE tree[i]]
    /\ disturbed' = [i \in Runs |-> IF Active(i) THEN {} ELSE disturbed[i]]
    /\ UNCHANGED <<disk, index, edits>>

Index(i) ==
    \/ LoadKnown(i) \/ Purge(i) \/ Scan(i) \/ Reindex(i) \/ Commit(i)
    \/ ReadError(i) \/ LockTimeout(i)

Next ==
    \/ \E i \in Runs : Start(i) \/ Index(i)
    \/ \E w \in Worktrees, f \in Files : Edit(w, f)
    \/ Crash

(* The event loop resumes a run whose call has returned; a call for the    *)
(* lock returns, with the lock or with an error.                           *)
Spec == Init /\ [][Next]_vars /\ \A i \in Runs : WF_vars(Index(i))
-----------------------------------------------------------------------------
TypeOK ==
    /\ disk \in [Worktrees -> [Files -> Maybe(Contents)]]
    /\ index \in Tables /\ pending \in Tables
    /\ writer \in Maybe(Runs)
    /\ rpc \in [Runs -> {"idle", "load", "purge", "scan", "parse", "done",
                         "failed", "lost"}]
    /\ tree \in [Runs -> Maybe(Worktrees)]
    /\ todo \in [Runs -> SUBSET Files]
    /\ known \in [Runs -> [Files -> Maybe(Contents)]]
    /\ current \in [Runs -> [file : Maybe(Files), hash : Maybe(Contents)]]
    /\ disturbed \in [Runs -> SUBSET {"commit", "edit"}]
    /\ edits \in 0 .. MaxEdits /\ crashes \in 0 .. MaxCrashes

(* The runs are atomic publications to those who read the symbols: what a  *)
(* run had written when it failed, timed out or was lost is never          *)
(* published, not even by the next run, and no run publishes twice.        *)
Store == INSTANCE IndexStore WITH
            rows <- index.symbols, published <- {i \in Runs : rpc[i] = "done"}
StoreSpec == Store!StoreSpec
OneGeneration == Store!OneGeneration

(* A recorded hash is the hash of the content whose symbols are stored,    *)
(* and a file without one has no symbols, so that a later run which skips  *)
(* the file by its hash skips nothing that is missing; except for a file   *)
(* that was edited between the hash and the read of the last run.          *)
HashNamesSymbols ==
    \A f \in Files \ index.torn :
       {r.of : r \in index.symbols[f]} = {index.hashes[f]} \ {Blank, None}

Matches(tables, w, f) ==
    /\ tables.hashes[f] = disk[w][f]
    /\ {r.of : r \in tables.symbols[f]} = {disk[w][f]} \ {Blank, None}

(* A run that nobody got in the way of leaves the index of its worktree,   *)
(* incremental as it is, and after any history of failed, lost and torn    *)
(* runs: it also heals a torn file, unless the file has gone back to the   *)
(* very content that was hashed and not parsed.                            *)
FreshAfterIndex ==
    \A i \in Runs : rpc[i] = "done" /\ disturbed[i] = {} =>
       \A f \in Files :
          \/ Matches(index, tree[i], f)
          \/ f \in index.torn /\ index.hashes[f] = disk[tree[i]][f]

(* A run ends, also one that fails, and the write lock is given back. *)
RunsEnd ==
    /\ \A i \in Runs : Active(i) ~> ~Active(i)
    /\ writer # None ~> writer = None
-----------------------------------------------------------------------------
(* Statements of the documentation that the code does not keep. *)

(* "the index always reflects the task's isolated snapshot"                *)
(* (indexer.py:13-15): when a run over a worktree that nobody edits has     *)
(* ended the index is that of this worktree.                               *)
IndexReflectsSnapshot ==
    [][\A i \in Runs : rpc[i] = "scan" /\ rpc'[i] = "done" /\ "edit" \notin disturbed[i]
                       => \A f \in Files : Matches(index', tree[i], f)]_vars

(* "if the file's current SHA256 matches the stored hash the file is       *)
(* up-to-date and is skipped" (models.py:243-244): of a file that has the  *)
(* stored hash, the symbols that are stored are its own.                   *)
HashMeansUpToDate ==
    \A w \in Worktrees, f \in Files :
       disk[w][f] # None /\ index.hashes[f] = disk[w][f] => Matches(index, w, f)
=============================================================================

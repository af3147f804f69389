------------------------- MODULE SymbolIndexProofs -------------------------
(***************************************************************************)
(* Proofs about SymbolIndex, for any number of files, contents, worktrees, *)
(* runs, edits and crashes.  What makes its properties inductive is what   *)
(* the open transaction is: the committed tables, in which each file that  *)
(* its run has come to is blank or of one parse by that very run, and what *)
(* an undisturbed run has still to do.                                     *)
(***************************************************************************)
EXTENDS SymbolIndex, TLAPS

(* the rows of one parse, or none *)
OneParse(rows) == rows = {} \/ \E source \in Contents, i \in Runs : rows = Store!Parse(source, i)

(* what HashNamesSymbols says of the committed tables, of any tables *)
Named(tables) ==
    \A f \in Files :
       /\ OneParse(tables.symbols[f])
       /\ f \notin tables.torn =>
             {r.of : r \in tables.symbols[f]} = {tables.hashes[f]} \ {Blank, None}

(* what a run knows at each of its labels *)
Located(i) ==
    /\ Active(i) \/ rpc[i] = "done" => tree[i] \in Worktrees
    /\ rpc[i] = "parse" => current[i].file \in Files /\ current[i].hash \in Contents

(* The open transaction is that of a run that has begun to write. *)
LockInv ==
    /\ writer = None => pending = index
    /\ writer # None => rpc[writer] \in {"scan", "parse"}

(* what the next commit would publish *)
Publishable ==
    \A f \in Files :
       \/ pending.symbols[f] \in {index.symbols[f], {}}
       \/ writer # None /\ \E source \in Contents :
             pending.symbols[f] = Store!Parse(source, writer)

IInv == /\ TypeOK /\ Named(index) /\ Named(pending) /\ LockInv /\ Publishable
        /\ \A i \in Runs : Located(i)
-----------------------------------------------------------------------------
LEMMA WithoutNamed ==
  ASSUME NEW tables \in Tables, Named(tables), NEW files \in SUBSET Files
  PROVE  Without(tables, files) \in Tables /\ Named(Without(tables, files))
  <1>. DEFINE new == Without(tables, files)
  <1>1. new \in Tables
    BY DEF Without, Tables, Maybe
  <1>2. ASSUME NEW f \in Files
        PROVE  /\ OneParse(new.symbols[f])
               /\ f \notin new.torn =>
                     {r.of : r \in new.symbols[f]} = {new.hashes[f]} \ {Blank, None}
    <2>1. CASE f \in files
      <3>1. new.symbols[f] = {} /\ new.hashes[f] = None
        BY <2>1 DEF Without
      <3>. QED
        BY <3>1 DEF OneParse
    <2>2. CASE f \notin files
      <3>1. new.symbols[f] = tables.symbols[f] /\ new.hashes[f] = tables.hashes[f]
            /\ (f \notin new.torn => f \notin tables.torn)
        BY <2>2 DEF Without
      <3>. QED
        BY <3>1 DEF Named
    <2>. QED
      BY <2>1, <2>2
  <1>. QED
    BY <1>1, <1>2 DEF Named

LEMMA ParsedRows ==
  ASSUME NEW source \in Contents, NEW i \in Runs
  PROVE  /\ Parsed(source, i) \subseteq SymbolRow
         /\ Parsed(source, i) \in {{}, Store!Parse(source, i)}
         /\ {r.of : r \in Parsed(source, i)} = {source} \ {Blank, None}
         /\ OneParse(Parsed(source, i))
  <1>. DEFINE row == [of |-> source, by |-> i]
  <1>1. row \in SymbolRow /\ row.of = source
    BY DEF SymbolRow
  <1>2. CASE source = Blank
    <2>1. Parsed(source, i) = {}
      BY <1>2 DEF Parsed
    <2>. QED
      BY <1>2, <2>1 DEF OneParse
  <1>3. CASE source # Blank
    <2>1. Parsed(source, i) = {row} /\ Store!Parse(source, i) = {row}
      BY <1>3 DEF Parsed, Store!Parse
    <2>2. {r.of : r \in {row}} = {source}
      BY <1>1
    <2>3. source # None
      BY IndexAssumption DEF IndexAssumption
    <2>4. OneParse(Parsed(source, i))
      BY <2>1 DEF OneParse
    <2>. HIDE DEF row
    <2>. QED
      BY <1>1, <1>3, <2>1, <2>2, <2>3, <2>4
  <1>. QED
    BY <1>2, <1>3

LEMMA ReplacedNamed ==
  ASSUME pending \in Tables, Named(pending), NEW f \in Files, NEW i \in Runs,
         NEW source \in Contents, NEW hash \in Contents
  PROVE  Replaced(f, source, hash, i) \in Tables /\ Named(Replaced(f, source, hash, i))
  <1>. DEFINE new == Replaced(f, source, hash, i)
  <1>1. Torn(f, source, hash) \in SUBSET Files
    BY DEF Torn, Tables
  <1>2. /\ new.symbols = [pending.symbols EXCEPT ![f] = Parsed(source, i)]
        /\ new.hashes = [pending.hashes EXCEPT ![f] = hash]
        /\ new.torn = Torn(f, source, hash)
    BY DEF Replaced
  <1>3. new \in Tables
    BY <1>1, ParsedRows DEF Replaced, Tables, Maybe
  <1>4. ASSUME NEW g \in Files
        PROVE  /\ OneParse(new.symbols[g])
               /\ g \notin new.torn =>
                     {r.of : r \in new.symbols[g]} = {new.hashes[g]} \ {Blank, None}
    <2>1. CASE g = f
      <3>1. new.symbols[f] = Parsed(source, i) /\ new.hashes[f] = hash
        BY <1>2 DEF Tables
      <3>2. f \notin new.torn => source = hash
        BY <1>2 DEF Torn
      <3>. QED
        BY <2>1, <3>1, <3>2, ParsedRows
    <2>2. CASE g # f
      <3>1. new.symbols[g] = pending.symbols[g] /\ new.hashes[g] = pending.hashes[g]
            /\ (g \notin new.torn => g \notin pending.torn)
        BY <1>2, <2>2 DEF Tables, Torn
      <3>. QED
        BY <3>1 DEF Named
    <2>. QED
      BY <2>1, <2>2
  <1>. QED
    BY <1>3, <1>4 DEF Named

LEMMA InitInv == Init => IInv
  <1>. SUFFICES ASSUME Init PROVE IInv
    OBVIOUS
  <1>. USE IndexAssumption DEF IndexAssumption, Init, Unknown
  <1>1. TypeOK
    BY DEF TypeOK, Tables, Maybe, Nothing
  <1>2. Named(index) /\ pending = index
    BY DEF Named, OneParse
  <1>3. LockInv /\ Publishable /\ \A i \in Runs : Located(i)
    BY <1>2 DEF LockInv, Publishable, Located, Active
  <1>. QED
    BY <1>1, <1>2, <1>3 DEF IInv
-----------------------------------------------------------------------------
(* The steps. *)

(* A step that leaves the tables and the lock alone. *)
LEMMA TablesKept ==
  ASSUME IInv, TypeOK', UNCHANGED <<index, pending, writer>>,
         writer # None => rpc'[writer] \in {"scan", "parse"},
         \A i \in Runs : Located(i)'
  PROVE  IInv'
  BY DEF IInv, Named, LockInv, Publishable

(* A step of run i leaves the others where they are. *)
LEMMA LocatedKept ==
  ASSUME IInv, NEW i \in Runs, Located(i)',
         \A j \in Runs \ {i} : UNCHANGED <<rpc[j], tree[j], current[j]>>
  PROVE  \A j \in Runs : Located(j)'
  BY DEF IInv, Located, Active

LEMMA DisturbType ==
  ASSUME TypeOK, NEW what \in {"commit", "edit"}, NEW runs, Disturb(what, runs)
  PROVE  disturbed' \in [Runs -> SUBSET {"commit", "edit"}]
  <1>1. ASSUME NEW i \in Runs
        PROVE  disturbed[i] \union {what} \in SUBSET {"commit", "edit"}
    BY DEF TypeOK
  <1>. QED
    BY <1>1 DEF Disturb, TypeOK

LEMMA StartKeeps ==
  ASSUME IInv, NEW i \in Runs, Start(i)
  PROVE  IInv'
  <1>1. PICK w \in Worktrees :
           /\ tree' = [tree EXCEPT ![i] = w]
           /\ todo' = [todo EXCEPT ![i] = {f \in Files : disk[w][f] # None}]
    BY DEF Start
  <1>2. /\ rpc[i] = "idle" /\ rpc' = [rpc EXCEPT ![i] = "load"]
        /\ disturbed' = [disturbed EXCEPT ![i] = {}]
        /\ UNCHANGED <<disk, index, pending, writer, known, current, edits, crashes>>
    BY DEF Start
  <1>3. TypeOK'
    BY <1>1, <1>2 DEF IInv, TypeOK, Maybe
  <1>4. \A j \in Runs : Located(j)'
    BY <1>1, <1>2, LocatedKept DEF IInv, TypeOK, Located
  <1>5. writer # None => rpc'[writer] \in {"scan", "parse"}
    BY <1>2 DEF IInv, TypeOK, LockInv, Maybe
  <1>. QED
    BY <1>2, <1>3, <1>4, <1>5, TablesKept

LEMMA LoadKnownKeeps ==
  ASSUME IInv, NEW i \in Runs, LoadKnown(i)
  PROVE  IInv'
  <1>1. PICK label \in {"scan", "purge"} : rpc' = [rpc EXCEPT ![i] = label]
    BY DEF LoadKnown
  <1>2. /\ rpc[i] = "load" /\ known' = [known EXCEPT ![i] = index.hashes]
        /\ UNCHANGED <<disk, index, pending, writer, tree, todo, current, disturbed,
                       edits, crashes>>
    BY DEF LoadKnown
  <1>3. TypeOK'
    BY <1>1, <1>2 DEF IInv, TypeOK, Tables
  <1>4. \A j \in Runs : Located(j)'
    BY <1>1, <1>2, LocatedKept DEF IInv, TypeOK, Located, Active
  <1>5. writer # None => rpc'[writer] \in {"scan", "parse"}
    BY <1>1, <1>2 DEF IInv, TypeOK, LockInv, Maybe
  <1>. QED
    BY <1>2, <1>3, <1>4, <1>5, TablesKept

LEMMA PurgeKeeps ==
  ASSUME IInv, NEW i \in Runs, Purge(i)
  PROVE  IInv'
  <1>. DEFINE gone == Gone(i, known[i])
  <1>1. /\ rpc[i] = "purge" /\ writer \in {None, i} /\ writer' = i
        /\ pending' = Without(pending, gone)
        /\ rpc' = [rpc EXCEPT ![i] = "scan"]
        /\ UNCHANGED <<disk, index, tree, todo, known, current, disturbed, edits, crashes>>
    BY DEF Purge, CanWrite, cursor
  <1>2. gone \in SUBSET Files
    BY DEF Gone
  <1>. HIDE DEF gone
  <1>3. pending' \in Tables /\ Named(pending')
    BY <1>1, <1>2, WithoutNamed DEF IInv, TypeOK
  <1>4. TypeOK'
    BY <1>1, <1>3 DEF IInv, TypeOK, Maybe
  <1>5. \A j \in Runs : Located(j)'
    BY <1>1, LocatedKept DEF IInv, TypeOK, Located, Active
  <1>6. LockInv'
    BY <1>1, IndexAssumption DEF IInv, TypeOK, LockInv, IndexAssumption
  <1>7. writer = None /\ pending = index
    BY <1>1 DEF IInv, LockInv, IndexAssumption
  <1>8. Publishable'
    BY <1>1, <1>7 DEF Publishable, Without
  <1>9. Named(pending)' /\ Named(index)'
    BY <1>1, <1>3 DEF IInv, Named
  <1>. QED
    BY <1>4, <1>5, <1>6, <1>8, <1>9 DEF IInv

LEMMA ScanKeeps ==
  ASSUME IInv, NEW i \in Runs, Scan(i)
  PROVE  IInv'
  <1>1. /\ rpc[i] = "scan"
        /\ UNCHANGED <<disk, index, pending, writer, tree, known, disturbed, edits, crashes>>
    BY DEF Scan
  <1>2. PICK f \in todo[i] :
          /\ disk[tree[i]][f] # None
          /\ todo' = [todo EXCEPT ![i] = Rest(i, f)]
          /\ IF UpToDate(i, f, disk[tree[i]][f])
             THEN UNCHANGED <<rpc, current>>
             ELSE /\ current' = [current EXCEPT ![i] =
                                    [file |-> f, hash |-> disk[tree[i]][f]]]
                  /\ rpc' = [rpc EXCEPT ![i] = "parse"]
    BY DEF Scan
  <1>3. f \in Files /\ disk[tree[i]][f] \in Contents
    BY <1>1, <1>2 DEF IInv, TypeOK, Located, Active, Maybe
  <1>4. TypeOK'
    <2>1. todo' \in [Runs -> SUBSET Files]
      BY <1>2 DEF IInv, TypeOK, Rest
    <2>2. /\ rpc' \in [Runs -> {"idle", "load", "purge", "scan", "parse", "done",
                                "failed", "lost"}]
          /\ current' \in [Runs -> [file : Maybe(Files), hash : Maybe(Contents)]]
      <3>1. CASE UpToDate(i, f, disk[tree[i]][f])
        BY <1>2, <3>1 DEF IInv, TypeOK
      <3>2. CASE ~UpToDate(i, f, disk[tree[i]][f])
        <4>1. [file |-> f, hash |-> disk[tree[i]][f]] \in
                 [file : Maybe(Files), hash : Maybe(Contents)]
          BY <1>3 DEF Maybe
        <4>. QED
          BY <1>2, <3>2, <4>1 DEF IInv, TypeOK
      <3>. QED
        BY <3>1, <3>2
    <2>. QED
      BY <1>1, <2>1, <2>2 DEF IInv, TypeOK
  <1>5. Located(i)'
    BY <1>1, <1>2, <1>3 DEF IInv, TypeOK, Located, Active
  <1>6. /\ \A j \in Runs \ {i} : UNCHANGED <<rpc[j], tree[j], current[j]>>
        /\ rpc'[i] \in {"scan", "parse"}
    BY <1>1, <1>2 DEF IInv, TypeOK
  <1>7. writer # None => rpc'[writer] \in {"scan", "parse"}
    BY <1>1, <1>6 DEF IInv, TypeOK, LockInv, Maybe
  <1>. QED
    BY <1>1, <1>4, <1>5, <1>6, <1>7, LocatedKept, TablesKept

LEMMA ReindexKeeps ==
  ASSUME IInv, NEW i \in Runs, Reindex(i)
  PROVE  IInv'
  <1>. DEFINE f == current[i].file
              source == disk[tree[i]][f]
              hash == current[i].hash
  <1>1. /\ rpc[i] = "parse" /\ writer \in {None, i} /\ writer' = i /\ source # None
        /\ pending' = Replaced(f, source, hash, i)
        /\ rpc' = [rpc EXCEPT ![i] = "scan"]
        /\ current' = [current EXCEPT ![i] = Nothing]
        /\ UNCHANGED <<disk, index, tree, todo, known, disturbed, edits, crashes>>
    BY DEF Reindex, CanWrite
  <1>2. f \in Files /\ hash \in Contents /\ source \in Contents
    BY <1>1 DEF IInv, TypeOK, Located, Active, Maybe
  <1>. HIDE DEF f, source, hash
  <1>3. pending' \in Tables /\ Named(pending')
    BY <1>1, <1>2, ReplacedNamed DEF IInv, TypeOK
  <1>4. TypeOK'
    BY <1>1, <1>3 DEF IInv, TypeOK, Maybe, Nothing
  <1>5. \A j \in Runs : Located(j)'
    BY <1>1, LocatedKept DEF IInv, TypeOK, Located, Active
  <1>6. LockInv'
    BY <1>1, IndexAssumption DEF IInv, TypeOK, LockInv, IndexAssumption
  <1>7. Publishable'
    <2>1. ASSUME NEW g \in Files
          PROVE  \/ pending'.symbols[g] \in {index.symbols[g], {}}
                 \/ \E c \in Contents : pending'.symbols[g] = Store!Parse(c, i)
      <3>1. pending'.symbols = [pending.symbols EXCEPT ![f] = Parsed(source, i)]
        BY <1>1 DEF Replaced
      <3>2. CASE g = f
        BY <1>2, <3>1, <3>2, ParsedRows DEF IInv, TypeOK, Tables
      <3>3. CASE g # f
        <4>1. pending'.symbols[g] = pending.symbols[g]
          BY <3>1, <3>3 DEF IInv, TypeOK, Tables
        <4>. QED
          BY <1>1, <4>1 DEF IInv, Publishable
      <3>. QED
        BY <3>2, <3>3
    <2>. QED
      BY <1>1, <2>1, IndexAssumption DEF Publishable, IndexAssumption
  <1>8. Named(pending)' /\ Named(index)'
    BY <1>1, <1>3 DEF IInv, Named
  <1>. QED
    BY <1>4, <1>5, <1>6, <1>7, <1>8 DEF IInv

LEMMA CommitKeeps ==
  ASSUME IInv, NEW i \in Runs, Commit(i)
  PROVE  IInv'
  <1>1. /\ rpc[i] = "scan" /\ rpc' = [rpc EXCEPT ![i] = "done"]
        /\ todo' = [todo EXCEPT ![i] = {}]
        /\ known' = [known EXCEPT ![i] = Unknown]
        /\ current' = [current EXCEPT ![i] = Nothing]
        /\ UNCHANGED <<disk, pending, tree, edits, crashes>>
    BY DEF Commit, Forget
  <1>2. disturbed' \in [Runs -> SUBSET {"commit", "edit"}]
    BY DisturbType DEF Commit, IInv, TypeOK
  <1>3. \A j \in Runs : Located(j)'
    BY <1>1, LocatedKept DEF IInv, TypeOK, Located, Active
  <1>4. CASE writer = i
    <2>1. index' = pending /\ writer' = None
      BY <1>4 DEF Commit
    <2>2. /\ Unknown \in [Files -> Maybe(Contents)]
          /\ Nothing \in [file : Maybe(Files), hash : Maybe(Contents)]
      BY DEF Unknown, Nothing, Maybe
    <2>3. TypeOK'
      <3>1. index' \in Tables /\ pending' \in Tables /\ writer' \in Maybe(Runs)
        BY <1>1, <2>1 DEF IInv, TypeOK, Maybe
      <3>2. /\ rpc' \in [Runs -> {"idle", "load", "purge", "scan", "parse", "done",
                                  "failed", "lost"}]
            /\ todo' \in [Runs -> SUBSET Files]
            /\ known' \in [Runs -> [Files -> Maybe(Contents)]]
            /\ current' \in [Runs -> [file : Maybe(Files), hash : Maybe(Contents)]]
        BY <1>1, <2>2 DEF IInv, TypeOK
      <3>3. /\ disk' \in [Worktrees -> [Files -> Maybe(Contents)]]
            /\ tree' \in [Runs -> Maybe(Worktrees)]
            /\ edits' \in 0 .. MaxEdits /\ crashes' \in 0 .. MaxCrashes
        BY <1>1 DEF IInv, TypeOK
      <3>. QED
        BY <1>2, <3>1, <3>2, <3>3 DEF TypeOK
    <2>4. Named(index)' /\ Named(pending)' /\ LockInv' /\ Publishable'
      BY <1>1, <2>1 DEF IInv, Named, LockInv, Publishable
    <2>. QED
      BY <1>3, <2>3, <2>4 DEF IInv
  <1>5. CASE writer # i
    <2>1. UNCHANGED <<index, writer>>
      BY <1>5 DEF Commit
    <2>2. TypeOK'
      BY <1>1, <1>2, <2>1 DEF IInv, TypeOK, Maybe, Unknown, Nothing
    <2>3. writer # None => rpc'[writer] \in {"scan", "parse"}
      BY <1>1, <1>5 DEF IInv, TypeOK, LockInv, Maybe
    <2>. QED
      BY <1>1, <1>3, <2>1, <2>2, <2>3, TablesKept
  <1>. QED
    BY <1>4, <1>5

LEMMA RaiseKeeps ==
  ASSUME IInv, NEW i \in Runs, Raise(i)
  PROVE  IInv'
  <1>1. /\ rpc' = [rpc EXCEPT ![i] = "failed"]
        /\ todo' = [todo EXCEPT ![i] = {}]
        /\ known' = [known EXCEPT ![i] = Unknown]
        /\ current' = [current EXCEPT ![i] = Nothing]
        /\ tree' = [tree EXCEPT ![i] = None]
        /\ disturbed' = [disturbed EXCEPT ![i] = {}]
        /\ UNCHANGED <<disk, index, edits, crashes>>
    BY DEF Raise, Fail, Forget
  <1>2. \A j \in Runs : Located(j)'
    BY <1>1, LocatedKept DEF IInv, TypeOK, Located, Active
  <1>3. CASE writer = i
    <2>1. writer' = None /\ pending' = index
      BY <1>3 DEF Raise, Rollback
    <2>2. TypeOK'
      BY <1>1, <2>1 DEF IInv, TypeOK, Maybe, Unknown, Nothing
    <2>3. Named(index)' /\ Named(pending)' /\ LockInv' /\ Publishable'
      BY <1>1, <2>1 DEF IInv, Named, LockInv, Publishable
    <2>. QED
      BY <1>2, <2>2, <2>3 DEF IInv
  <1>4. CASE writer # i
    <2>1. UNCHANGED <<writer, pending>>
      BY <1>4 DEF Raise, Rollback
    <2>2. TypeOK'
      BY <1>1, <2>1 DEF IInv, TypeOK, Maybe, Unknown, Nothing
    <2>3. writer # None => rpc'[writer] \in {"scan", "parse"}
      BY <1>1, <1>4 DEF IInv, TypeOK, LockInv, Maybe
    <2>. QED
      BY <1>1, <1>2, <2>1, <2>2, <2>3, TablesKept
  <1>. QED
    BY <1>3, <1>4

LEMMA EditKeeps ==
  ASSUME IInv, NEW w \in Worktrees, NEW f \in Files, Edit(w, f)
  PROVE  IInv'
  <1>1. PICK c \in Maybe(Contents) : disk' = [disk EXCEPT ![w][f] = c]
    BY DEF Edit
  <1>2. /\ edits < MaxEdits /\ edits' = edits + 1
        /\ UNCHANGED <<index, pending, writer, rpc, tree, todo, known, current, crashes>>
    BY DEF Edit, cursor
  <1>3. disturbed' \in [Runs -> SUBSET {"commit", "edit"}]
    BY DisturbType DEF Edit, IInv
  <1>4. disk' \in [Worktrees -> [Files -> Maybe(Contents)]]
    BY <1>1 DEF IInv, TypeOK
  <1>5. edits' \in 0 .. MaxEdits
    BY <1>2, IndexAssumption DEF IInv, TypeOK, IndexAssumption
  <1>6. TypeOK'
    BY <1>2, <1>3, <1>4, <1>5 DEF IInv, TypeOK
  <1>7. \A j \in Runs : Located(j)'
    BY <1>2 DEF IInv, Located, Active
  <1>. QED
    BY <1>2, <1>6, <1>7, TablesKept DEF IInv, LockInv

LEMMA CrashKeeps ==
  ASSUME IInv, Crash
  PROVE  IInv'
  <1>1. /\ rpc' = [i \in Runs |-> IF Active(i) THEN "lost" ELSE rpc[i]]
        /\ writer' = None /\ pending' = index
        /\ tree' = [i \in Runs |-> IF Active(i) THEN None ELSE tree[i]]
        /\ current' = [i \in Runs |-> Nothing]
        /\ UNCHANGED <<disk, index, edits>>
    BY DEF Crash
  <1>2. crashes' \in 0 .. MaxCrashes
    BY IndexAssumption DEF Crash, IInv, TypeOK, IndexAssumption
  <1>3. TypeOK'
    BY <1>1, <1>2 DEF Crash, IInv, TypeOK, Maybe, Nothing, Unknown
  <1>4. \A j \in Runs : Located(j)'
    BY <1>1 DEF IInv, Located, Active
  <1>5. Named(index)' /\ Named(pending)' /\ LockInv' /\ Publishable'
    BY <1>1 DEF IInv, Named, LockInv, Publishable
  <1>. QED
    BY <1>3, <1>4, <1>5 DEF IInv

LEMMA NextKeeps == IInv /\ [Next]_vars => IInv'
  <1>. SUFFICES ASSUME IInv, [Next]_vars PROVE IInv'
    OBVIOUS
  <1>1. ASSUME NEW i \in Runs, Index(i) PROVE IInv'
    BY <1>1, LoadKnownKeeps, PurgeKeeps, ScanKeeps, ReindexKeeps, CommitKeeps, RaiseKeeps
    DEF Index, ReadError, LockTimeout
  <1>2. CASE UNCHANGED vars
    BY <1>2 DEF vars, cursor, IInv, TypeOK, Named, LockInv, Publishable, Located, Active
  <1>. QED
    BY <1>1, <1>2, StartKeeps, EditKeeps, CrashKeeps DEF Next

(* The inductive invariant: the committed tables and those of the open     *)
(* transaction name what they store, and a commit would publish, of each   *)
(* file, what was there, nothing, or one parse of the committing run.      *)
THEOREM Inductive == Spec => []IInv
  BY InitInv, NextKeeps, PTL DEF Spec

(* Every variable keeps its type, over all runs, edits and crashes. *)
THEOREM TypeCorrect == Spec => []TypeOK
  <1>1. IInv => TypeOK
    BY DEF IInv
  <1>. QED
    BY <1>1, Inductive, PTL

(* A stored hash names the stored symbols, except those of torn files. *)
THEOREM HashesTrue == Spec => []HashNamesSymbols
  <1>1. IInv => HashNamesSymbols
    BY DEF IInv, Named, HashNamesSymbols
  <1>. QED
    BY <1>1, Inductive, PTL

(* The rows of a file are of one parse. *)
THEOREM OneParseEach == Spec => []OneGeneration
  <1>1. IInv => OneGeneration
    BY DEF IInv, Named, OneParse, OneGeneration, Store!OneGeneration, Store!Parse
  <1>. QED
    BY <1>1, Inductive, PTL
-----------------------------------------------------------------------------
(* The index implements the store: a commit publishes, nothing else shows. *)

PublishedRuns == {i \in Runs : rpc[i] = "done"}

(* A step that commits nothing. *)
LEMMA Unseen ==
  ASSUME TypeOK, UNCHANGED index,
         \A i \in Runs : rpc'[i] = "done" <=> rpc[i] = "done"
  PROVE  UNCHANGED Store!storevars
  <1>1. PublishedRuns' = PublishedRuns
    BY DEF PublishedRuns
  <1>. QED
    BY <1>1 DEF Store!storevars, PublishedRuns

LEMMA CommitPublishes ==
  ASSUME IInv, NEW i \in Runs, Commit(i)
  PROVE  Store!Publish(i)
  <1>1. /\ rpc[i] = "scan" /\ rpc' = [rpc EXCEPT ![i] = "done"]
        /\ index' = IF writer = i THEN pending ELSE index
    BY DEF Commit
  <1>2. index \in Tables /\ index' \in Tables
    BY <1>1 DEF IInv, TypeOK
  <1>3. i \notin PublishedRuns /\ PublishedRuns' = PublishedRuns \union {i}
    BY <1>1 DEF PublishedRuns, IInv, TypeOK
  <1>4. index'.symbols = [f \in Files |-> index'.symbols[f]]
    BY <1>2 DEF Tables
  <1>5. ASSUME NEW f \in Files
        PROVE  \/ index'.symbols[f] \in {index.symbols[f], {}}
               \/ \E r \in index'.symbols[f] :
                     r.of \in Contents /\ index'.symbols[f] = Store!Parse(r.of, i)
    <2>1. CASE writer = i /\ pending.symbols[f] \notin {index.symbols[f], {}}
      <3>1. PICK source \in Contents : pending.symbols[f] = Store!Parse(source, i)
        BY <2>1 DEF IInv, Publishable
      <3>2. index'.symbols[f] = {[of |-> source, by |-> i]}
        BY <1>1, <2>1, <3>1 DEF Store!Parse
      <3>. QED
        BY <1>1, <2>1, <3>1, <3>2
    <2>. QED
      BY <1>1, <2>1
  <1>. QED
    BY <1>3, <1>4, <1>5 DEF Store!Publish, PublishedRuns

LEMMA StepRefines == IInv /\ [Next]_vars => [Store!StoreNext]_(Store!storevars)
  <1>. SUFFICES ASSUME IInv, [Next]_vars
                PROVE  Store!StoreNext \/ UNCHANGED Store!storevars
    OBVIOUS
  <1>. USE DEF IInv, TypeOK
  <1>1. ASSUME NEW i \in Runs, Start(i) PROVE UNCHANGED Store!storevars
    BY <1>1, Unseen DEF Start
  <1>2. ASSUME NEW i \in Runs, LoadKnown(i) PROVE UNCHANGED Store!storevars
    BY <1>2, Unseen DEF LoadKnown
  <1>3. ASSUME NEW i \in Runs, Purge(i) PROVE UNCHANGED Store!storevars
    BY <1>3, Unseen DEF Purge
  <1>4. ASSUME NEW i \in Runs, Scan(i) PROVE UNCHANGED Store!storevars
    <2>1. /\ UNCHANGED index /\ rpc[i] = "scan"
          /\ rpc' = rpc \/ rpc' = [rpc EXCEPT ![i] = "parse"]
      BY <1>4 DEF Scan
    <2>. QED
      BY <2>1, Unseen
  <1>5. ASSUME NEW i \in Runs, Reindex(i) PROVE UNCHANGED Store!storevars
    BY <1>5, Unseen DEF Reindex
  <1>6. ASSUME NEW i \in Runs, Commit(i) PROVE Store!StoreNext
    BY <1>6, CommitPublishes DEF Store!StoreNext
  <1>7. ASSUME NEW i \in Runs, ReadError(i) \/ LockTimeout(i)
        PROVE  UNCHANGED Store!storevars
    <2>1. /\ rpc[i] \in {"scan", "purge", "parse"} /\ UNCHANGED index
          /\ rpc' = [rpc EXCEPT ![i] = "failed"]
      BY <1>7 DEF ReadError, LockTimeout, Raise, Fail
    <2>. QED
      BY <2>1, Unseen
  <1>8. ASSUME NEW w \in Worktrees, NEW f \in Files, Edit(w, f)
        PROVE  UNCHANGED Store!storevars
    BY <1>8, Unseen DEF Edit
  <1>9. CASE Crash
    BY <1>9, Unseen DEF Crash, Active
  <1>10. CASE UNCHANGED vars
    BY <1>10, Unseen DEF vars
  <1>. QED
    BY <1>1, <1>2, <1>3, <1>4, <1>5, <1>6, <1>7, <1>8, <1>9, <1>10 DEF Next, Index

(* The indexer implements the store its readers rely on: atomic, at most   *)
(* one publication of a run, of each file whole parses by that run only.   *)
THEOREM Implements == Spec => StoreSpec
  <1>1. Init => Store!StoreInit
    BY DEF Init, Store!StoreInit
  <1>. QED
    BY <1>1, StepRefines, Inductive, PTL DEF Spec, StoreSpec, Store!StoreSpec
-----------------------------------------------------------------------------
(* What an undisturbed run has still to do. *)

OnDisk(i) == {f \in Files : disk[tree[i]][f] # None}
(* the tables as run i sees them *)
View(i) == IF writer = i THEN pending ELSE index
(* the files it has not decided about *)
Left(i) == todo[i] \union (IF rpc[i] = "parse" THEN {current[i].file} ELSE {})

(* The files a run has come to have the hash that is on disk, the others   *)
(* the hash the run loaded.                                                *)
Halfway(i) ==
    /\ Left(i) \subseteq OnDisk(i)
    /\ \A f \in Files :
          View(i).hashes[f] = IF f \in Left(i) THEN known[i][f] ELSE disk[tree[i]][f]

Fresh(i) ==
    disturbed[i] = {} =>
       /\ rpc[i] \in {"load", "purge"} => todo[i] = OnDisk(i)
       /\ rpc[i] = "purge" => known[i] = index.hashes
       /\ rpc[i] \in {"scan", "parse"} => Halfway(i)
       /\ rpc[i] = "parse" => /\ current[i].hash = disk[tree[i]][current[i].file]
                              /\ current[i].file \notin todo[i]
       /\ rpc[i] = "done" => \A f \in Files : index.hashes[f] = disk[tree[i]][f]

FreshInv == IInv /\ \A i \in Runs : Fresh(i)

(* A run that a step leaves alone, tables and worktree included. *)
LEMMA FreshKept ==
  ASSUME NEW j \in Runs, Fresh(j),
         UNCHANGED <<rpc[j], tree[j], todo[j], known[j], current[j], disturbed[j]>>,
         UNCHANGED <<disk[tree[j]], index, View(j)>>
  PROVE  Fresh(j)'
  BY DEF Fresh, Halfway, Left, OnDisk

(* the others, at a step of run i that leaves the committed tables alone *)
LEMMA OthersFresh ==
  ASSUME FreshInv, NEW i \in Runs,
         \A j \in Runs \ {i} :
            UNCHANGED <<rpc[j], tree[j], todo[j], known[j], current[j], disturbed[j]>>,
         UNCHANGED <<disk, index>>,
         (writer \in {None, i} /\ writer' \in {None, i}) \/ UNCHANGED <<pending, writer>>
  PROVE  \A j \in Runs \ {i} : Fresh(j)'
  <1>. SUFFICES ASSUME NEW j \in Runs \ {i} PROVE Fresh(j)'
    OBVIOUS
  <1>1. View(j)' = View(j)
    BY IndexAssumption DEF View, IndexAssumption
  <1>. QED
    BY <1>1, FreshKept DEF FreshInv

LEMMA StartFresh ==
  ASSUME FreshInv, NEW i \in Runs, Start(i)
  PROVE  \A j \in Runs : Fresh(j)'
  <1>1. PICK w \in Worktrees :
           /\ tree' = [tree EXCEPT ![i] = w]
           /\ todo' = [todo EXCEPT ![i] = {f \in Files : disk[w][f] # None}]
    BY DEF Start
  <1>2. /\ rpc' = [rpc EXCEPT ![i] = "load"]
        /\ disturbed' = [disturbed EXCEPT ![i] = {}]
        /\ UNCHANGED <<disk, index, pending, writer, known, current>>
    BY DEF Start
  <1>3. Fresh(i)'
    BY <1>1, <1>2 DEF FreshInv, IInv, TypeOK, Fresh, OnDisk
  <1>. QED
    BY <1>1, <1>2, <1>3, OthersFresh DEF FreshInv, IInv, TypeOK

LEMMA LoadKnownFresh ==
  ASSUME FreshInv, NEW i \in Runs, LoadKnown(i)
  PROVE  \A j \in Runs : Fresh(j)'
  <1>. USE DEF FreshInv, IInv, TypeOK
  <1>1. /\ rpc[i] = "load" /\ known' = [known EXCEPT ![i] = index.hashes]
        /\ rpc' = [rpc EXCEPT ![i] = IF Gone(i, index.hashes) = {}
                                     THEN "scan" ELSE "purge"]
        /\ UNCHANGED <<disk, index, pending, writer, tree, todo, current, disturbed>>
    BY DEF LoadKnown
  <1>2. known'[i] = index.hashes
    BY <1>1 DEF Tables
  <1>3. Fresh(i)'
    <2>. SUFFICES ASSUME disturbed[i] = {} PROVE Fresh(i)'
      BY <1>1 DEF Fresh
    <2>1. todo[i] = OnDisk(i) /\ OnDisk(i)' = OnDisk(i)
      BY <1>1 DEF Fresh, OnDisk
    <2>2. CASE Gone(i, index.hashes) = {}
      <3>1. rpc'[i] = "scan" /\ Left(i)' = todo[i]
        BY <1>1, <2>2 DEF Left
      <3>2. View(i)' = index
        BY <1>1, IndexAssumption DEF View, LockInv, IndexAssumption
      <3>3. ASSUME NEW f \in Files
            PROVE  index.hashes[f] = IF f \in todo[i] THEN known'[i][f]
                                                      ELSE disk[tree[i]][f]
        BY <1>2, <2>1, <2>2 DEF OnDisk, Gone
      <3>4. Halfway(i)'
        BY <1>1, <2>1, <3>1, <3>2, <3>3 DEF Halfway
      <3>. QED
        BY <3>1, <3>4 DEF Fresh
    <2>3. CASE Gone(i, index.hashes) # {}
      <3>1. rpc'[i] = "purge"
        BY <1>1, <2>3
      <3>. QED
        BY <1>1, <1>2, <2>1, <3>1 DEF Fresh
    <2>. QED
      BY <2>2, <2>3
  <1>. QED
    BY <1>1, <1>3, OthersFresh

LEMMA PurgeFresh ==
  ASSUME FreshInv, NEW i \in Runs, Purge(i)
  PROVE  \A j \in Runs : Fresh(j)'
  <1>. USE DEF FreshInv, IInv, TypeOK
  <1>1. /\ rpc[i] = "purge" /\ writer \in {None, i} /\ writer' = i
        /\ pending' = Without(pending, Gone(i, known[i]))
        /\ rpc' = [rpc EXCEPT ![i] = "scan"]
        /\ UNCHANGED <<disk, index, tree, todo, known, current, disturbed>>
    BY DEF Purge, CanWrite, cursor
  <1>2. pending = index
    BY <1>1 DEF LockInv, IndexAssumption
  <1>3. Fresh(i)'
    <2>. SUFFICES ASSUME disturbed[i] = {} PROVE Fresh(i)'
      BY <1>1 DEF Fresh
    <2>1. /\ todo[i] = OnDisk(i) /\ OnDisk(i)' = OnDisk(i)
          /\ known[i] = index.hashes
      BY <1>1 DEF Fresh, OnDisk
    <2>2. rpc'[i] = "scan" /\ Left(i)' = todo[i] /\ View(i)' = pending'
      BY <1>1 DEF Left, View
    <2>3. ASSUME NEW f \in Files
          PROVE  pending'.hashes[f] = IF f \in todo[i] THEN known[i][f]
                                                       ELSE disk[tree[i]][f]
      <3>1. pending'.hashes[f] = IF f \in Gone(i, known[i]) THEN None
                                                            ELSE index.hashes[f]
        BY <1>1, <1>2 DEF Without
      <3>. QED
        BY <2>1, <3>1 DEF OnDisk, Gone
    <2>4. Halfway(i)'
      BY <1>1, <2>1, <2>2, <2>3 DEF Halfway
    <2>. QED
      BY <2>2, <2>4 DEF Fresh
  <1>. QED
    BY <1>1, <1>3, OthersFresh

LEMMA ScanFresh ==
  ASSUME FreshInv, NEW i \in Runs, Scan(i)
  PROVE  \A j \in Runs : Fresh(j)'
  <1>. USE DEF FreshInv, IInv, TypeOK
  <1>1. /\ rpc[i] = "scan"
        /\ UNCHANGED <<disk, index, pending, writer, tree, known, disturbed>>
    BY DEF Scan
  <1>2. PICK f \in todo[i] :
          /\ disk[tree[i]][f] # None
          /\ todo' = [todo EXCEPT ![i] = Rest(i, f)]
          /\ IF UpToDate(i, f, disk[tree[i]][f])
             THEN UNCHANGED <<rpc, current>>
             ELSE /\ current' = [current EXCEPT ![i] =
                                    [file |-> f, hash |-> disk[tree[i]][f]]]
                  /\ rpc' = [rpc EXCEPT ![i] = "parse"]
    BY DEF Scan
  <1>3. todo'[i] = todo[i] \ {f} /\ View(i)' = View(i) /\ OnDisk(i)' = OnDisk(i)
    BY <1>1, <1>2 DEF Rest, View, OnDisk
  <1>4. \A j \in Runs \ {i} :
           UNCHANGED <<rpc[j], tree[j], todo[j], known[j], current[j], disturbed[j]>>
    BY <1>1, <1>2
  <1>5. Fresh(i)'
    <2>. SUFFICES ASSUME disturbed[i] = {} PROVE Fresh(i)'
      BY <1>1 DEF Fresh
    <2>1. Halfway(i) /\ Left(i) = todo[i]
      BY <1>1 DEF Fresh, Left
    <2>2. CASE UpToDate(i, f, disk[tree[i]][f])
      <3>1. rpc'[i] = "scan" /\ Left(i)' = todo[i] \ {f}
        BY <1>1, <1>2, <1>3, <2>2 DEF Left
      <3>2. Halfway(i)'
        BY <1>1, <1>3, <2>1, <2>2, <3>1 DEF Halfway, UpToDate
      <3>. QED
        BY <3>1, <3>2 DEF Fresh
    <2>3. CASE ~UpToDate(i, f, disk[tree[i]][f])
      <3>1. rpc'[i] = "parse" /\ current'[i] = [file |-> f, hash |-> disk[tree[i]][f]]
        BY <1>1, <1>2, <2>3
      <3>2. Left(i)' = todo[i]
        BY <1>3, <3>1 DEF Left
      <3>3. Halfway(i)'
        BY <1>1, <1>3, <2>1, <3>2 DEF Halfway
      <3>. QED
        BY <1>1, <1>3, <3>1, <3>3 DEF Fresh
    <2>. QED
      BY <2>2, <2>3
  <1>. QED
    BY <1>1, <1>4, <1>5, OthersFresh

LEMMA ReindexFresh ==
  ASSUME FreshInv, NEW i \in Runs, Reindex(i)
  PROVE  \A j \in Runs : Fresh(j)'
  <1>. USE DEF FreshInv, IInv, TypeOK
  <1>1. /\ rpc[i] = "parse" /\ writer \in {None, i} /\ writer' = i
        /\ pending' = Replaced(current[i].file, disk[tree[i]][current[i].file],
                               current[i].hash, i)
        /\ rpc' = [rpc EXCEPT ![i] = "scan"]
        /\ current' = [current EXCEPT ![i] = Nothing]
        /\ UNCHANGED <<disk, index, tree, todo, known, disturbed>>
    BY DEF Reindex, CanWrite
  <1>2. View(i) = pending /\ View(i)' = pending'
    BY <1>1, IndexAssumption DEF View, LockInv, IndexAssumption
  <1>3. Fresh(i)'
    <2>. SUFFICES ASSUME disturbed[i] = {} PROVE Fresh(i)'
      BY <1>1 DEF Fresh
    <2>. DEFINE f == current[i].file
    <2>1. /\ Halfway(i) /\ Left(i) = todo[i] \union {f} /\ f \notin todo[i]
          /\ current[i].hash = disk[tree[i]][f]
      BY <1>1 DEF Fresh, Left
    <2>2. rpc'[i] = "scan" /\ Left(i)' = todo[i] /\ OnDisk(i)' = OnDisk(i)
      BY <1>1 DEF Left, OnDisk
    <2>3. pending'.hashes = [pending.hashes EXCEPT ![f] = current[i].hash]
      BY <1>1 DEF Replaced
    <2>. HIDE DEF f
    <2>4. ASSUME NEW g \in Files
          PROVE  pending'.hashes[g] = IF g \in todo[i] THEN known[i][g]
                                                       ELSE disk[tree[i]][g]
      <3>1. pending.hashes \in [Files -> Maybe(Contents)]
        BY DEF Tables
      <3>. QED
        BY <1>2, <2>1, <2>3, <3>1 DEF Halfway
    <2>5. Halfway(i)'
      BY <1>1, <1>2, <2>1, <2>2, <2>4 DEF Halfway
    <2>. QED
      BY <2>2, <2>5 DEF Fresh
  <1>. QED
    BY <1>1, <1>3, OthersFresh

LEMMA CommitFresh ==
  ASSUME FreshInv, NEW i \in Runs, Commit(i)
  PROVE  \A j \in Runs : Fresh(j)'
  <1>. USE DEF FreshInv, IInv, TypeOK
  <1>1. /\ rpc[i] = "scan" /\ todo[i] = {} /\ rpc' = [rpc EXCEPT ![i] = "done"]
        /\ todo' = [todo EXCEPT ![i] = {}]
        /\ known' = [known EXCEPT ![i] = Unknown]
        /\ current' = [current EXCEPT ![i] = Nothing]
        /\ index' = View(i)
        /\ UNCHANGED <<disk, pending, tree>>
    BY DEF Commit, Forget, View
  <1>2. disturbed[i] = {} <=> disturbed'[i] = {}
    BY DEF Commit, Disturb
  <1>3. Fresh(i)'
    <2>. SUFFICES ASSUME disturbed[i] = {} PROVE Fresh(i)'
      BY <1>2 DEF Fresh
    <2>1. Halfway(i) /\ Left(i) = {}
      BY <1>1 DEF Fresh, Left
    <2>2. \A f \in Files : index'.hashes[f] = disk'[tree'[i]][f]
      BY <1>1, <2>1 DEF Halfway
    <2>. QED
      BY <1>1, <2>2 DEF Fresh
  <1>4. ASSUME NEW j \in Runs \ {i}, writer = i
        PROVE  Fresh(j)'
    <2>1. rpc'[j] = rpc[j]
      BY <1>1
    <2>2. CASE Active(j) \/ rpc[j] = "done"
      <3>1. disturbed'[j] = disturbed[j] \union {"commit"}
        BY <1>4, <2>2 DEF Commit, Disturb
      <3>. QED
        BY <3>1 DEF Fresh
    <2>3. CASE ~(Active(j) \/ rpc[j] = "done")
      BY <2>1, <2>3 DEF Fresh, Active
    <2>. QED
      BY <2>2, <2>3
  <1>5. CASE writer # i
    <2>1. UNCHANGED <<index, writer, disturbed>>
      BY <1>5 DEF Commit
    <2>. QED
      BY <1>1, <1>3, <2>1, OthersFresh
  <1>. QED
    BY <1>3, <1>4, <1>5

LEMMA RaiseFresh ==
  ASSUME FreshInv, NEW i \in Runs, Raise(i)
  PROVE  \A j \in Runs : Fresh(j)'
  <1>. USE DEF FreshInv, IInv, TypeOK
  <1>1. /\ rpc' = [rpc EXCEPT ![i] = "failed"]
        /\ todo' = [todo EXCEPT ![i] = {}]
        /\ known' = [known EXCEPT ![i] = Unknown]
        /\ current' = [current EXCEPT ![i] = Nothing]
        /\ tree' = [tree EXCEPT ![i] = None]
        /\ disturbed' = [disturbed EXCEPT ![i] = {}]
        /\ UNCHANGED <<disk, index>>
        /\ IF writer = i THEN writer' = None ELSE UNCHANGED <<pending, writer>>
    BY DEF Raise, Fail, Forget, Rollback
  <1>2. Fresh(i)'
    BY <1>1 DEF Fresh
  <1>. QED
    BY <1>1, <1>2, OthersFresh

LEMMA EditFresh ==
  ASSUME FreshInv, NEW w \in Worktrees, NEW g \in Files, Edit(w, g), NEW j \in Runs
  PROVE  Fresh(j)'
  <1>. USE DEF FreshInv, IInv, TypeOK
  <1>1. UNCHANGED <<index, pending, writer, rpc, tree, todo, known, current>>
    BY DEF Edit, cursor
  <1>2. \A v \in Worktrees \ {w} : disk'[v] = disk[v]
    BY DEF Edit
  <1>3. CASE ~(Active(j) \/ rpc[j] = "done")
    BY <1>1, <1>3 DEF Fresh, Active
  <1>4. CASE (Active(j) \/ rpc[j] = "done") /\ tree[j] = w
    <2>1. disturbed'[j] = disturbed[j] \union {"edit"}
      BY <1>4 DEF Edit, Disturb
    <2>. QED
      BY <2>1 DEF Fresh
  <1>5. CASE (Active(j) \/ rpc[j] = "done") /\ tree[j] # w
    <2>1. disturbed'[j] = disturbed[j]
      BY <1>5 DEF Edit, Disturb
    <2>2. disk'[tree[j]] = disk[tree[j]]
      BY <1>2, <1>5 DEF Located
    <2>3. disk'[tree'[j]] = disk[tree[j]] /\ View(j)' = View(j)
      BY <1>1, <2>2 DEF View
    <2>. QED
      BY <1>1, <2>1, <2>3, FreshKept
  <1>. QED
    BY <1>3, <1>4, <1>5

LEMMA CrashFresh ==
  ASSUME FreshInv, Crash, NEW j \in Runs
  PROVE  Fresh(j)'
  <1>. USE DEF FreshInv, IInv, TypeOK
  <1>1. /\ rpc'[j] = IF Active(j) THEN "lost" ELSE rpc[j]
        /\ UNCHANGED <<disk, index>>
        /\ ~Active(j) => tree'[j] = tree[j] /\ disturbed'[j] = disturbed[j]
    BY DEF Crash
  <1>. QED
    BY <1>1 DEF Fresh, Active

LEMMA FreshStep == FreshInv /\ [Next]_vars => FreshInv'
  <1>. SUFFICES ASSUME FreshInv, [Next]_vars PROVE \A j \in Runs : Fresh(j)'
    BY NextKeeps DEF FreshInv
  <1>1. ASSUME NEW i \in Runs, Index(i) PROVE \A j \in Runs : Fresh(j)'
    BY <1>1, LoadKnownFresh, PurgeFresh, ScanFresh, ReindexFresh, CommitFresh, RaiseFresh
    DEF Index, ReadError, LockTimeout
  <1>2. CASE UNCHANGED vars
    BY <1>2, FreshKept DEF FreshInv, vars, cursor, View
  <1>. QED
    BY <1>1, <1>2, StartFresh, EditFresh, CrashFresh DEF Next

(* A run that nobody disturbed leaves the index of its worktree, after any *)
(* history, but for a torn file that went back to what was hashed.         *)
THEOREM IndexFresh == Spec => []FreshAfterIndex
  <1>1. Init => FreshInv
    <2>. SUFFICES ASSUME Init, NEW i \in Runs PROVE Fresh(i)
      BY InitInv DEF FreshInv
    <2>. QED
      BY DEF Init, Fresh
  <1>2. FreshInv => FreshAfterIndex
    <2>. SUFFICES ASSUME FreshInv, NEW i \in Runs, rpc[i] = "done", disturbed[i] = {},
                         NEW f \in Files \ index.torn
                  PROVE  Matches(index, tree[i], f)
      BY DEF FreshAfterIndex, FreshInv, Fresh
    <2>. QED
      BY DEF FreshInv, Fresh, IInv, Named, Matches
  <1>. QED
    BY <1>1, <1>2, FreshStep, PTL DEF Spec
=============================================================================

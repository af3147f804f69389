----------------------------- MODULE IndexStore -----------------------------
(***************************************************************************)
(* What the symbols table promises to those who read it: the rows of a     *)
(* file change only when a run of the indexer publishes, all at once and   *)
(* once; each file then has the rows of one parse of that very run, or     *)
(* none, or the rows it had.  SymbolIndex implements this, and the         *)
(* retrieval tools are checked over it.                                    *)
(***************************************************************************)
CONSTANTS
    Files,      \* relative paths of Python files
    Contents,   \* contents a file may have
    Runs        \* calls of index_workspace, each used once

VARIABLES
    rows,       \* rows[f]: the symbols of f, by the content they are of
    published   \* the runs that have committed

storevars == <<rows, published>>

SymbolRow == [of : Contents, by : Runs]

(* the rows of one parse, kept together as what was parsed and by whom *)
Parse(source, i) == {[of |-> source, by |-> i]}

StoreInit ==
    /\ rows = [f \in Files |-> {}]
    /\ published = {}

(* one commit *)
Publish(i) ==
    /\ i \notin published
    /\ published' = published \union {i}
    /\ rows' = [f \in Files |-> rows'[f]]
    /\ \A f \in Files :
          \/ rows'[f] \in {rows[f], {}}
          \/ \E r \in rows'[f] : r.of \in Contents /\ rows'[f] = Parse(r.of, i)

StoreNext == \E i \in Runs : Publish(i)

StoreSpec == StoreInit /\ [][StoreNext]_storevars

(* The rows of a file are of one parse: never two generations side by      *)
(* side, nor one row twice, whatever runs raced, failed or were cut short. *)
OneGeneration ==
    \A f \in Files : \A r, s \in rows[f] : r = s
=============================================================================

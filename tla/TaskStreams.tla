---------------------------- MODULE TaskStreams ----------------------------
(***************************************************************************)
(* GET /v1/tasks/{id}/events (stream_task_events in app/api/tasks.py):     *)
(* server-sent event streams that poll the journal while the service of    *)
(* TaskService writes it.  A round of the generator is two SELECTs, the    *)
(* rows above last_seen and then the task's state, and any commit can fall *)
(* between them: SQLite gives two SELECTs outside a write transaction no   *)
(* common snapshot.  The rows of one round leave in step_index order       *)
(* before anything else is read, so what a client has is a set of rows.    *)
(***************************************************************************)
EXTENDS TaskService, Integers

CONSTANT Streams      \* event streams, each of which may be opened again

VARIABLES
    spc,         \* "closed", "poll" or "state"; "ended" after the terminal event
    watched,     \* the task the stream is about
    last_seen,   \* the generator's cursor
    seen,        \* the rows delivered since the stream was opened
    told         \* the state in the terminal event, or None

svars == <<spc, watched, last_seen, seen, told>>

StreamInit ==
    /\ Init
    /\ spc = [s \in Streams |-> "closed"]
    /\ watched = [s \in Streams |-> None]
    /\ last_seen = [s \in Streams |-> -1]
    /\ seen = [s \in Streams |-> {}]
    /\ told = [s \in Streams |-> None]

Live(s) == spc[s] \in {"poll", "state"}

(* get_owned_task, before the stream starts; a 404 opens nothing.  Every   *)
(* generator starts at -1: there is no Last-Event-ID.                      *)
Open(s) ==
    /\ ~Live(s)
    /\ \E u \in Users, t \in TaskIds :
          Owned(t, u) /\ watched' = [watched EXCEPT ![s] = t]
    /\ spc' = [spc EXCEPT ![s] = "poll"]
    /\ last_seen' = [last_seen EXCEPT ![s] = -1]
    /\ seen' = [seen EXCEPT ![s] = {}]
    /\ told' = [told EXCEPT ![s] = None]
    /\ UNCHANGED vars

(* the rows of the round, by the WHERE clause of the SELECT *)
Fresh(rows, n) == {e \in rows : e.step > n}

(* mutant: the cursor is the number of rows sent *)
PollByCount(s) ==
    /\ spc[s] = "poll"
    /\ seen' = [seen EXCEPT ![s] = @ \union Fresh(journal[watched[s]], last_seen[s])]
    /\ last_seen' = [last_seen EXCEPT ![s] = Cardinality(seen'[s])]
    /\ spc' = [spc EXCEPT ![s] = "state"]
    /\ UNCHANGED <<vars, watched, told>>

(* mutant: the cursor of a round without rows is None *)
PollNoRows(s) ==
    /\ spc[s] = "poll"
    /\ LET fresh == Fresh(journal[watched[s]], last_seen[s])
       IN  /\ seen' = [seen EXCEPT ![s] = @ \union fresh]
           /\ \/ fresh = {} /\ last_seen' = [last_seen EXCEPT ![s] = None]
              \/ \E e \in fresh : /\ Last(fresh, e)
                                  /\ last_seen' = [last_seen EXCEPT ![s] = e.step]
    /\ spc' = [spc EXCEPT ![s] = "state"]
    /\ UNCHANGED <<vars, watched, told>>

Poll(s) ==
    /\ spc[s] = "poll"
    /\ LET fresh == Fresh(journal[watched[s]], last_seen[s])
       IN  /\ seen' = [seen EXCEPT ![s] = @ \union fresh]
           /\ \/ fresh = {} /\ UNCHANGED last_seen
              \/ \E e \in fresh : /\ Last(fresh, e)
                                  /\ last_seen' = [last_seen EXCEPT ![s] = e.step]
    /\ spc' = [spc EXCEPT ![s] = "state"]
    /\ UNCHANGED <<vars, watched, told>>

IsTerminalNoCancel(state) == state \in Terminal \ {"CANCELLED"}   \* mutant
IsTerminal(state) == state \in Terminal

(* the second SELECT: the terminal event and the end, or sleep and again *)
CheckState(s) ==
    /\ spc[s] = "state"
    /\ LET state == StateOf(watched[s])
       IN  IF IsTerminal(state)
           THEN /\ spc' = [spc EXCEPT ![s] = "ended"]
                /\ told' = [told EXCEPT ![s] = state]
           ELSE /\ spc' = [spc EXCEPT ![s] = "poll"]
                /\ UNCHANGED told
    /\ UNCHANGED <<vars, watched, last_seen, seen>>

(* the client goes away; it may come back with Open *)
Disconnect(s) ==
    /\ Live(s)
    /\ spc' = [spc EXCEPT ![s] = "closed"]
    /\ UNCHANGED <<vars, watched, last_seen, seen, told>>

StreamCrash ==
    /\ Crash
    /\ spc' = [s \in Streams |-> IF Live(s) THEN "closed" ELSE spc[s]]
    /\ UNCHANGED <<watched, last_seen, seen, told>>

StreamNext ==
    \/ Serve /\ UNCHANGED svars
    \/ StreamCrash
    \/ \E s \in Streams : Open(s) \/ Poll(s) \/ CheckState(s) \/ Disconnect(s)

allvars == <<vars, svars>>

(* The generator is a coroutine as well: the event loop runs it after its *)
(* sleep.  That a client opens or leaves a stream is not promised.         *)
StreamSpec ==
    /\ StreamInit
    /\ [][StreamNext]_allvars
    /\ Fairness
    /\ \A s \in Streams : WF_allvars(Poll(s)) /\ WF_allvars(CheckState(s))
-----------------------------------------------------------------------------
StreamTypeOK ==
    /\ spc \in [Streams -> {"closed", "poll", "state", "ended"}]
    /\ watched \in [Streams -> TaskIds \union {None}]
    /\ last_seen \in [Streams -> Nat \union {-1}]
    /\ seen \in [Streams -> SUBSET Transition]
    /\ told \in [Streams -> TaskState \union {None}]

(* A client has every row up to its cursor and nothing else: rows are      *)
(* committed by cancels and orchestrator runs that do not know of each     *)
(* other, and one that was committed below a cursor that has passed it    *)
(* would be missing from that stream for good.                             *)
NothingSkipped ==
    \A s \in Streams :
       spc[s] # "closed" =>
          seen[s] = {e \in journal[watched[s]] : e.step <= last_seen[s]}

(* What the terminal event says is what the task stays. *)
TerminalEventIsTrue ==
    \A s \in Streams : spc[s] = "ended" => told[s] = StateOf(watched[s])

(* A committed row reaches a client that stays, or the stream ends, rounds *)
(* with no news and writers that never rest notwithstanding.               *)
RowsArrive ==
    \A s \in Streams, n \in 0 .. 1 :
       (Live(s) /\ \E e \in journal[watched[s]] : e.step = n)
       ~> ((\E e \in seen[s] : e.step = n) \/ ~Live(s))

(* The stream of a cancelled task ends (tasks.py:151-153). *)
StreamEnds ==
    \A s \in Streams :
       (Live(s) /\ StateOf(watched[s]) \in Terminal) ~> ~Live(s)

(* "always sees the full history" (tasks.py:118-122): with the terminal    *)
(* event the client has every row.                                         *)
FullHistoryAtEnd ==
    \A s \in Streams : spc[s] = "ended" => seen[s] = journal[watched[s]]
=============================================================================

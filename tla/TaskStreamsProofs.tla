------------------------- MODULE TaskStreamsProofs -------------------------
(***************************************************************************)
(* Proofs about TaskStreams, for any number of streams over any number of  *)
(* requests, tasks and crashes.  A stream reads what the service commits   *)
(* and the service does not know of it, so all a stream needs of the       *)
(* service is how one step may move a task that exists: its journal gets   *)
(* rows above those it has, and a finished task stays as it is.  That      *)
(* follows from the invariant of TaskServiceProofs.                        *)
(***************************************************************************)
EXTENDS TaskStreams, TaskServiceProofs

(* a stream is about a task that exists *)
Following(s) == watched[s] \in TaskIds /\ Exists(watched[s])

(* the cursor is before every row, or at one that the journal has *)
Placed(s) ==
    \/ last_seen[s] = -1 /\ spc[s] = "poll"
    \/ \E e \in journal[watched[s]] : e.step = last_seen[s]

UpToCursor(s) == seen[s] = {e \in journal[watched[s]] : e.step <= last_seen[s]}

ToldTruth(s) ==
    spc[s] = "ended" => told[s] \in Terminal /\ told[s] = StateOf(watched[s])

StreamInv ==
    /\ StreamTypeOK
    /\ \A s \in Streams : spc[s] # "closed" =>
          Following(s) /\ Placed(s) /\ UpToCursor(s) /\ ToldTruth(s)

SInv == IInv /\ StreamInv
-----------------------------------------------------------------------------
(* What a step of the service does to a task that exists. *)
Onwards(t) ==
    /\ Exists(t)'
    /\ journal[t] \subseteq journal'[t]
    /\ \A d \in journal[t], e \in journal'[t] \ journal[t] : d.step < e.step
    /\ StateOf(t) \in Terminal => StateOf(t)' = StateOf(t)

LEMMA TasksGoOn ==
  ASSUME IInv, IInv', [Next]_vars, NEW t \in TaskIds, Exists(t)
  PROVE  Onwards(t)
  <1>1. UNCHANGED <<tasks[t], journal[t]>> \/ Grows(t)
    BY OneGrows DEF Steady
  <1>2. CASE UNCHANGED <<tasks[t], journal[t]>>
    BY <1>2 DEF Onwards, Exists, StateOf
  <1>3. CASE Grows(t)
    <2>1. Shape(t) /\ Shape(t)' /\ tasks[t] # None
      BY DEF IInv, Shapes, Exists
    <2>2. Queued0 # Noted1 /\ Queued0 # Cancelled1 /\ Noted1 # Cancelled1
      BY JournalRows
    <2>3. Exists(t)' /\ journal[t] \subseteq journal'[t]
      BY <1>3, <2>1 DEF Grows, Exists
    <2>4. \A d \in journal[t], e \in journal'[t] \ journal[t] :
             d = Queued0 /\ e \in {Noted1, Cancelled1}
      BY <2>1, <2>2, <2>3 DEF Shape
    <2>5. StateOf(t) \in Terminal => StateOf(t)' = StateOf(t)
      BY <2>1, <2>2, <2>3 DEF Shape, StateOf, Exists, Terminal
    <2>. QED
      BY <2>3, <2>4, <2>5, JournalRows DEF Onwards
  <1>. QED
    BY <1>1, <1>2, <1>3

(* The first row is numbered 0, and every task that exists has it. *)
LEMMA HasRows ==
  ASSUME IInv, NEW t \in TaskIds, Exists(t)
  PROVE  /\ \E e \in journal[t] : e.step = 0
         /\ \A e \in journal[t] : e.step \in Nat
  BY JournalRows DEF IInv, Shapes, Shape, Exists

(* A step that leaves the streams alone keeps what they know. *)
LEMMA StreamsKept ==
  ASSUME SInv, IInv', [Next]_vars, UNCHANGED svars
  PROVE  StreamInv'
  <1>1. StreamTypeOK'
    BY DEF SInv, StreamInv, StreamTypeOK, svars
  <1>2. ASSUME NEW s \in Streams, spc[s] # "closed"
        PROVE  (Following(s) /\ Placed(s) /\ UpToCursor(s) /\ ToldTruth(s))'
    <2>. DEFINE t == watched[s]
    <2>1. /\ t \in TaskIds /\ Exists(t) /\ Placed(s) /\ UpToCursor(s) /\ ToldTruth(s)
          /\ UNCHANGED <<spc, watched, last_seen, seen, told>>
          /\ last_seen[s] \in Nat \union {-1}
      BY <1>2 DEF SInv, StreamInv, StreamTypeOK, Following, svars
    <2>2. Onwards(t) /\ SInv
      BY <2>1, TasksGoOn DEF SInv
    <2>3. /\ \A e \in journal[t] : e.step \in Nat
          /\ \A e \in journal'[t] : e.step \in Nat
      BY <2>1, <2>2, HasRows DEF SInv, Onwards, IInv, TypeOK, Transition
    <2>4. \A e \in journal'[t] : e.step <= last_seen[s] => e \in journal[t]
      BY <2>1, <2>2, <2>3 DEF Placed, Onwards
    <2>5. UpToCursor(s)' /\ Placed(s)'
      BY <2>1, <2>2, <2>4 DEF UpToCursor, Placed, Onwards
    <2>6. ToldTruth(s)' /\ Following(s)'
      BY <2>1, <2>2 DEF ToldTruth, Onwards, Following, StateOf, Exists
    <2>. QED
      BY <2>5, <2>6
  <1>. QED
    BY <1>1, <1>2 DEF StreamInv, svars

(* A step of s with the tables at rest disturbs no other stream. *)
LEMMA OthersFollow ==
  ASSUME SInv, UNCHANGED vars, NEW s \in Streams, StreamTypeOK',
         \A q \in Streams \ {s} :
            UNCHANGED <<spc[q], watched[q], last_seen[q], seen[q], told[q]>>,
         (spc[s] # "closed" =>
            Following(s) /\ Placed(s) /\ UpToCursor(s) /\ ToldTruth(s))'
  PROVE  StreamInv'
  BY DEF SInv, StreamInv, Following, Placed, UpToCursor, ToldTruth, StateOf, Exists,
         vars, db
-----------------------------------------------------------------------------
LEMMA OpenKeeps ==
  ASSUME SInv, NEW s \in Streams, Open(s)
  PROVE  StreamInv'
  <1>1. PICK t \in TaskIds : Exists(t) /\ watched' = [watched EXCEPT ![s] = t]
    BY DEF Open, Owned
  <1>2. StreamTypeOK'
    BY <1>1 DEF Open, SInv, StreamInv, StreamTypeOK
  <1>3. /\ spc'[s] = "poll" /\ watched'[s] = t /\ last_seen'[s] = -1
        /\ seen'[s] = {} /\ UNCHANGED vars
    BY <1>1 DEF Open, SInv, StreamInv, StreamTypeOK
  <1>4. \A e \in journal[t] : e.step \in Nat
    BY <1>1, HasRows DEF SInv
  <1>5. (Following(s) /\ Placed(s) /\ UpToCursor(s) /\ ToldTruth(s))'
    BY <1>1, <1>3, <1>4
    DEF Following, Placed, UpToCursor, ToldTruth, Exists, vars, db
  <1>6. \A q \in Streams \ {s} :
           UNCHANGED <<spc[q], watched[q], last_seen[q], seen[q], told[q]>>
    BY <1>1 DEF Open, SInv, StreamInv, StreamTypeOK
  <1>. QED
    BY <1>2, <1>3, <1>5, <1>6, OthersFollow

(* The heart of it: whatever was committed since the last round, the       *)
(* cursor moves to the highest row there is, and every row up to it has    *)
(* been sent.                                                              *)
LEMMA PollKeeps ==
  ASSUME SInv, NEW s \in Streams, Poll(s)
  PROVE  StreamInv'
  <1>. DEFINE t == watched[s]
              fresh == Fresh(journal[t], last_seen[s])
  <1>1. /\ t \in TaskIds /\ Exists(t) /\ Placed(s) /\ UpToCursor(s)
        /\ last_seen[s] \in Nat \union {-1} /\ StreamTypeOK /\ IInv
        /\ journal[t] \subseteq Transition
    BY DEF Poll, SInv, StreamInv, StreamTypeOK, Following, IInv, TypeOK
  <1>2. /\ \E e \in journal[t] : e.step = 0
        /\ \A e \in journal[t] : e.step \in Nat
    BY <1>1, HasRows
  <1>3. /\ seen' = [seen EXCEPT ![s] = @ \union fresh]
        /\ spc' = [spc EXCEPT ![s] = "state"]
        /\ UNCHANGED vars /\ UNCHANGED watched /\ UNCHANGED told
        /\ UNCHANGED journal /\ UNCHANGED tasks
    BY DEF Poll, vars, db
  <1>4. PICK n \in Nat :
           /\ last_seen' = [last_seen EXCEPT ![s] = n]
           /\ \E e \in journal[t] : e.step = n
           /\ \A e \in fresh : e.step <= n
           /\ n >= last_seen[s]
    <2>1. CASE fresh = {} /\ UNCHANGED last_seen
      <3>1. last_seen[s] # -1
        BY <1>2, <2>1 DEF Fresh
      <3>. QED
        BY <1>1, <2>1, <3>1 DEF Placed, StreamTypeOK
    <2>2. CASE \E e \in fresh : /\ Last(fresh, e)
                                /\ last_seen' = [last_seen EXCEPT ![s] = e.step]
      <3>1. PICK e \in fresh : /\ Last(fresh, e)
                               /\ last_seen' = [last_seen EXCEPT ![s] = e.step]
        BY <2>2
      <3>2. e \in journal[t] /\ e.step \in Nat /\ e.step >= last_seen[s]
        BY <1>1, <1>2 DEF Fresh
      <3>3. \A d \in fresh : d.step <= e.step
        BY <3>1 DEF Last
      <3>. QED
        BY <3>1, <3>2, <3>3
    <2>. QED
      BY <2>1, <2>2 DEF Poll
  <1>5. StreamTypeOK'
    BY <1>1, <1>3, <1>4 DEF StreamTypeOK, Fresh
  <1>6. seen'[s] = {e \in journal[t] : e.step <= n}
    BY <1>1, <1>2, <1>3, <1>4 DEF UpToCursor, Fresh, StreamTypeOK
  <1>7. (Following(s) /\ Placed(s) /\ UpToCursor(s) /\ ToldTruth(s))'
    BY <1>1, <1>3, <1>4, <1>6
    DEF Following, Placed, UpToCursor, ToldTruth, Exists, StreamTypeOK
  <1>8. \A q \in Streams \ {s} :
           UNCHANGED <<spc[q], watched[q], last_seen[q], seen[q], told[q]>>
    BY <1>1, <1>3, <1>4 DEF StreamTypeOK
  <1>. QED
    BY <1>3, <1>5, <1>7, <1>8, OthersFollow

LEMMA CheckStateKeeps ==
  ASSUME SInv, NEW s \in Streams, CheckState(s)
  PROVE  StreamInv'
  <1>. DEFINE t == watched[s]
  <1>1. /\ t \in TaskIds /\ Exists(t) /\ Placed(s) /\ UpToCursor(s)
        /\ StreamTypeOK /\ spc[s] = "state"
        /\ UNCHANGED vars /\ UNCHANGED <<watched, last_seen, seen>>
        /\ UNCHANGED tasks /\ UNCHANGED journal
    BY DEF CheckState, SInv, StreamInv, Following, vars, db
  <1>2. \/ /\ spc' = [spc EXCEPT ![s] = "ended"]
           /\ told' = [told EXCEPT ![s] = StateOf(t)]
           /\ StateOf(t) \in Terminal
        \/ spc' = [spc EXCEPT ![s] = "poll"] /\ UNCHANGED told
    BY DEF CheckState, IsTerminal
  <1>3. Terminal \subseteq TaskState
    BY DEF TaskState
  <1>4. StreamTypeOK'
    BY <1>1, <1>2, <1>3 DEF StreamTypeOK
  <1>5. (Following(s) /\ Placed(s) /\ UpToCursor(s) /\ ToldTruth(s))'
    BY <1>1, <1>2
    DEF Following, Placed, UpToCursor, ToldTruth, StateOf, Exists, StreamTypeOK
  <1>6. \A q \in Streams \ {s} :
           UNCHANGED <<spc[q], watched[q], last_seen[q], seen[q], told[q]>>
    BY <1>1, <1>2 DEF StreamTypeOK
  <1>. QED
    BY <1>1, <1>4, <1>5, <1>6, OthersFollow

LEMMA DisconnectKeeps ==
  ASSUME SInv, NEW s \in Streams, Disconnect(s)
  PROVE  StreamInv'
  BY OthersFollow DEF Disconnect, SInv, StreamInv, StreamTypeOK

LEMMA StreamCrashKeeps ==
  ASSUME SInv, IInv', StreamCrash
  PROVE  StreamInv'
  <1>1. /\ UNCHANGED <<tasks, journal, watched, last_seen, seen, told>>
        /\ spc' = [s \in Streams |-> IF Live(s) THEN "closed" ELSE spc[s]]
    BY DEF StreamCrash, Crash, db
  <1>2. StreamTypeOK'
    BY <1>1 DEF SInv, StreamInv, StreamTypeOK
  <1>3. \A s \in Streams : spc'[s] # "closed" => spc'[s] = spc[s]
    BY <1>1
  <1>. QED
    BY <1>1, <1>2, <1>3
    DEF SInv, StreamInv, Following, Placed, UpToCursor, ToldTruth, StateOf, Exists

LEMMA StreamNextKeeps == SInv /\ [StreamNext]_allvars => SInv'
  <1>. SUFFICES ASSUME SInv, [StreamNext]_allvars PROVE SInv'
    OBVIOUS
  <1>1. [Next]_vars
    BY DEF StreamNext, StreamCrash, Open, Poll, CheckState, Disconnect, Next, allvars
  <1>2. IInv'
    BY <1>1, NextKeeps DEF SInv
  <1>3. CASE UNCHANGED svars
    BY <1>1, <1>2, <1>3, StreamsKept DEF SInv
  <1>4. CASE StreamCrash
    BY <1>2, <1>4, StreamCrashKeeps DEF SInv
  <1>5. ASSUME NEW s \in Streams, Open(s) \/ Poll(s) \/ CheckState(s) \/ Disconnect(s)
        PROVE  SInv'
    BY <1>2, <1>5, OpenKeeps, PollKeeps, CheckStateKeeps, DisconnectKeeps DEF SInv
  <1>. QED
    BY <1>3, <1>4, <1>5 DEF StreamNext, allvars

(* The inductive invariant of the service and its streams together. *)
THEOREM StreamInductive == StreamSpec => []SInv
  <1>1. StreamInit => SInv
    BY InitInv DEF StreamInit, SInv, StreamInv, StreamTypeOK
  <1>. QED
    BY <1>1, StreamNextKeeps, PTL DEF StreamSpec

(* The streams' variables keep their types; the cursor is always a number. *)
THEOREM StreamTypeCorrect == StreamSpec => []StreamTypeOK
  <1>1. SInv => StreamTypeOK
    BY DEF SInv, StreamInv
  <1>. QED
    BY <1>1, StreamInductive, PTL

(* A client has every committed row up to its cursor and nothing else,     *)
(* whatever cancels, runs, crashes and reopened streams do in between.     *)
THEOREM NoRowSkipped == StreamSpec => []NothingSkipped
  <1>1. SInv => NothingSkipped
    BY DEF SInv, StreamInv, UpToCursor, NothingSkipped
  <1>. QED
    BY <1>1, StreamInductive, PTL

(* The state of the terminal event is the state the task keeps. *)
THEOREM EndIsTrue == StreamSpec => []TerminalEventIsTrue
  <1>1. SInv => TerminalEventIsTrue
    BY DEF SInv, StreamInv, ToldTruth, TerminalEventIsTrue
  <1>. QED
    BY <1>1, StreamInductive, PTL
=============================================================================

----------------------------- MODULE DuckDbStore ----------------------------
(***************************************************************************)
(* The DuckDB repositories: threads call save, list_recent, append and all *)
(* on one shared connection that keeps a single pending result, which the  *)
(* next execute on it discards.  DuckDb.run and DuckDb.query hold a        *)
(* threading.Lock around execute (and fetchall).                           *)
(***************************************************************************)
EXTENDS Naturals, Sequences, FiniteSets

CONSTANTS Threads,      \* request threads
          Ids,          \* ids of recommendations
          MaxCalls,     \* bound on the calls of a thread, for model checking
          None          \* no thread, no operation

ASSUME MaxCallsAssumption == MaxCalls \in Nat
ASSUME NoneAssumption == None \notin Threads

VARIABLES
  pc,       \* where each thread is in its call
  call,     \* the operation of its call
  answer,   \* what its last call returned
  lock,     \* DuckDb._lock: the thread that holds it
  pending,  \* the connection's pending result
  rows,     \* table recommendations: its ids
  trail,    \* table audit_records: ids, in seq order
  calls     \* number of calls each thread has made

vars == <<pc, call, answer, lock, pending, rows, trail, calls>>

Calls == [op : {"save", "append"}, id : Ids] \cup [op : {"list", "all"}]
IsQuery(c) == c.op \in {"list", "all"}

\* What a call returns: a status, and the table a query read.
Result(status, r, s) == [status |-> status, rows |-> r, trail |-> s]
Nothing == Result("none", {}, << >>)
Ok      == Result("ok", {}, << >>)
Raised  == Result("raised", {}, << >>)

\* What the tables answer to a query.
Query(c) == IF c.op = "list" THEN Result("ok", rows, << >>)
                             ELSE Result("ok", {}, trail)

Init ==
  /\ pc = [t \in Threads |-> "idle"]
  /\ call = [t \in Threads |-> None]
  /\ answer = [t \in Threads |-> Nothing]
  /\ lock = None
  /\ pending = Nothing
  /\ rows = {}
  /\ trail = << >>
  /\ calls = [t \in Threads |-> 0]

\* A thread calls a repository, which serialises its arguments.
Invoke(t) ==
  /\ pc[t] = "idle"
  /\ calls[t] < MaxCalls
  /\ \E c \in Calls : call' = [call EXCEPT ![t] = c]
  /\ answer' = [answer EXCEPT ![t] = Nothing]
  /\ calls' = [calls EXCEPT ![t] = @ + 1]
  /\ pc' = [pc EXCEPT ![t] = "entering"]
  /\ UNCHANGED <<lock, pending, rows, trail>>

\* Bug: no lock around the connection.
AcquireAlways(t) ==
  /\ pc[t] = "entering"
  /\ lock' = t
  /\ pc' = [pc EXCEPT ![t] = "executing"]
  /\ UNCHANGED <<call, answer, pending, rows, trail, calls>>

\* with self._lock
Acquire(t) ==
  /\ pc[t] = "entering"
  /\ lock = None
  /\ lock' = t
  /\ pc' = [pc EXCEPT ![t] = "executing"]
  /\ UNCHANGED <<call, answer, pending, rows, trail, calls>>

\* INSERT INTO recommendations ... ON CONFLICT DO UPDATE.
ExecuteSave(t) ==
  /\ pc[t] = "executing"
  /\ call[t].op = "save"
  /\ rows' = rows \cup {call[t].id}
  /\ pending' = Nothing
  /\ answer' = [answer EXCEPT ![t] = Ok]
  /\ pc' = [pc EXCEPT ![t] = "leaving"]
  /\ UNCHANGED <<call, lock, trail, calls>>

\* INSERT INTO audit_records, with the next value of the sequence.
ExecuteAppend(t) ==
  /\ pc[t] = "executing"
  /\ call[t].op = "append"
  /\ trail' = Append(trail, call[t].id)
  /\ pending' = Nothing
  /\ answer' = [answer EXCEPT ![t] = Ok]
  /\ pc' = [pc EXCEPT ![t] = "leaving"]
  /\ UNCHANGED <<call, lock, rows, calls>>

\* Bug: fetchall is called after the lock is released.
ExecuteQueryUnlocks(t) ==
  /\ pc[t] = "executing"
  /\ IsQuery(call[t])
  /\ pending' = Query(call[t])
  /\ lock' = None
  /\ pc' = [pc EXCEPT ![t] = "fetching"]
  /\ UNCHANGED <<call, answer, rows, trail, calls>>

\* SELECT: the result waits on the connection.
ExecuteQuery(t) ==
  /\ pc[t] = "executing"
  /\ IsQuery(call[t])
  /\ pending' = Query(call[t])
  /\ pc' = [pc EXCEPT ![t] = "fetching"]
  /\ UNCHANGED <<call, answer, lock, rows, trail, calls>>

\* fetchall
Fetch(t) ==
  /\ pc[t] = "fetching"
  /\ answer' = [answer EXCEPT ![t] = pending]
  /\ pending' = Nothing
  /\ pc' = [pc EXCEPT ![t] = "leaving"]
  /\ UNCHANGED <<call, lock, rows, trail, calls>>

\* Bug: the exception leaves the lock taken.
RaiseLocked(t) ==
  /\ pc[t] \in {"executing", "fetching"}
  /\ pending' = Nothing
  /\ answer' = [answer EXCEPT ![t] = Raised]
  /\ pc' = [pc EXCEPT ![t] = "idle"]
  /\ UNCHANGED <<call, lock, rows, trail, calls>>

\* execute, or the fetchall of a query, raises: the statement changed nothing,
\* and the exception leaves through the with block.
Raise(t) ==
  /\ pc[t] \in {"executing", "fetching"}
  /\ pending' = Nothing
  /\ answer' = [answer EXCEPT ![t] = Raised]
  /\ pc' = [pc EXCEPT ![t] = "leaving"]
  /\ UNCHANGED <<call, lock, rows, trail, calls>>

\* The end of the with block, and the return to the caller.
Leave(t) ==
  /\ pc[t] = "leaving"
  /\ lock' = None
  /\ pc' = [pc EXCEPT ![t] = "idle"]
  /\ UNCHANGED <<call, answer, pending, rows, trail, calls>>

Inside(t) ==
  ExecuteSave(t) \/ ExecuteAppend(t) \/ ExecuteQuery(t) \/ Fetch(t) \/ Raise(t) \/ Leave(t)

Next == \E t \in Threads : Invoke(t) \/ Acquire(t) \/ Inside(t)

Spec == Init /\ [][Next]_vars

\* execute and fetchall return or raise.  A threading.Lock promises no order,
\* only that it is not left free for ever while a thread waits.
FairSpec ==
  /\ Spec
  /\ \A t \in Threads : WF_vars(Inside(t)) /\ WF_vars(Acquire(t))

-----------------------------------------------------------------------------
Results == [status : {"none", "ok", "raised"}, rows : SUBSET Ids, trail : Seq(Ids)]

TypeOK ==
  /\ pc \in [Threads -> {"idle", "entering", "executing", "fetching", "leaving"}]
  /\ call \in [Threads -> Calls \cup {None}]
  /\ \A t \in Threads : pc[t] # "idle" => call[t] \in Calls
  /\ answer \in [Threads -> Results]
  /\ pending \in Results
  /\ lock \in Threads \cup {None}
  /\ rows \subseteq Ids
  /\ trail \in Seq(Ids)
  /\ calls \in [Threads -> 0..MaxCalls]

\* One thread at a time is between execute and fetchall, and the pending
\* result of the connection is the one that thread asked for.
ConnectionIsSerial ==
  /\ \A t \in Threads : pc[t] \in {"executing", "fetching", "leaving"} <=> lock = t
  /\ \A t \in Threads : pc[t] = "fetching" => IsQuery(call[t]) /\ pending = Query(call[t])

\* Every call returns, also when others raise inside the lock.
CallsReturn == \A t \in Threads : (pc[t] = "entering") ~> (pc[t] = "idle")

\* Every call takes effect at one instant, a query when its result is fetched:
\* the tables are still what they were when it was executed.
Atomic == INSTANCE AtomicTables
            WITH phase <- [t \in Threads |->
                             CASE pc[t] = "idle" -> "idle"
                               [] pc[t] \in {"entering", "executing", "fetching"} -> "called"
                               [] pc[t] = "leaving" -> "done"]
AtomicSpec == Atomic!Spec
=============================================================================

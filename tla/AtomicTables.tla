---------------------------- MODULE AtomicTables ----------------------------
(***************************************************************************)
(* What a thread may expect of the two repositories: a call takes effect   *)
(* at one instant between its invocation and its return, and what it       *)
(* returns is what the tables held at that instant (linearizability).      *)
(* DuckDbStore implements it.                                              *)
(***************************************************************************)
EXTENDS Sequences, FiniteSets

CONSTANTS Threads,      \* callers
          Ids,          \* ids of recommendations
          None          \* no operation

VARIABLES phase,        \* "idle", "called" or "done", for each thread
          call,         \* the operation each thread has called
          answer,       \* what each finished call returns
          rows,         \* table recommendations: its ids
          trail         \* table audit_records: ids, in seq order

vars == <<phase, call, answer, rows, trail>>

Calls == [op : {"save", "append"}, id : Ids] \cup [op : {"list", "all"}]

\* What a call returns: a status, and the table a query read.
Result(status, r, s) == [status |-> status, rows |-> r, trail |-> s]
Nothing == Result("none", {}, << >>)
Ok      == Result("ok", {}, << >>)
Raised  == Result("raised", {}, << >>)

\* What the tables answer to a query.
Query(c) == IF c.op = "list" THEN Result("ok", rows, << >>)
                             ELSE Result("ok", {}, trail)

Init ==
  /\ phase = [t \in Threads |-> "idle"]
  /\ call = [t \in Threads |-> None]
  /\ answer = [t \in Threads |-> Nothing]
  /\ rows = {}
  /\ trail = << >>

Invoke(t) ==
  /\ phase[t] = "idle"
  /\ phase' = [phase EXCEPT ![t] = "called"]
  /\ \E c \in Calls : call' = [call EXCEPT ![t] = c]
  /\ answer' = [answer EXCEPT ![t] = Nothing]
  /\ UNCHANGED <<rows, trail>>

\* The call takes effect, or raises and leaves the tables alone.
Effect(t) ==
  /\ phase[t] = "called"
  /\ phase' = [phase EXCEPT ![t] = "done"]
  /\ \/ /\ call[t].op = "save"
        /\ rows' = rows \cup {call[t].id}
        /\ answer' = [answer EXCEPT ![t] = Ok]
        /\ UNCHANGED trail
     \/ /\ call[t].op = "append"
        /\ trail' = Append(trail, call[t].id)
        /\ answer' = [answer EXCEPT ![t] = Ok]
        /\ UNCHANGED rows
     \/ /\ call[t].op \in {"list", "all"}
        /\ answer' = [answer EXCEPT ![t] = Query(call[t])]
        /\ UNCHANGED <<rows, trail>>
     \/ /\ answer' = [answer EXCEPT ![t] = Raised]
        /\ UNCHANGED <<rows, trail>>
  /\ UNCHANGED call

Return(t) ==
  /\ phase[t] = "done"
  /\ phase' = [phase EXCEPT ![t] = "idle"]
  /\ UNCHANGED <<call, answer, rows, trail>>

Next == \E t \in Threads : Invoke(t) \/ Effect(t) \/ Return(t)

Spec == Init /\ [][Next]_vars
=============================================================================

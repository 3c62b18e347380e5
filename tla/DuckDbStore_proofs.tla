-------------------------- MODULE DuckDbStore_proofs --------------------------
(***************************************************************************)
(* Theorems about DuckDbStore, for any number of threads and of calls.     *)
(***************************************************************************)
EXTENDS DuckDbStore, TLAPS

(***************************************************************************)
(* Every variable keeps its type.                                          *)
(***************************************************************************)
LEMMA ResultTypes ==
  /\ Nothing \in Results /\ Ok \in Results /\ Raised \in Results
  /\ TypeOK => \A c \in Calls : Query(c) \in Results
  BY DEF Nothing, Ok, Raised, Result, Results, Query, TypeOK

\* The types hold initially.
LEMMA InitType == Init => TypeOK
  BY ResultTypes, MaxCallsAssumption DEF Init, TypeOK

\* Every step keeps the types.
LEMMA NextType == TypeOK /\ [Next]_vars => TypeOK'
<1> SUFFICES ASSUME TypeOK, [Next]_vars PROVE TypeOK'
  OBVIOUS
<1> USE DEF TypeOK
<1>1. ASSUME NEW t \in Threads, Invoke(t) PROVE TypeOK'
  <2>1. calls' \in [Threads -> 0..MaxCalls]
    BY <1>1, MaxCallsAssumption DEF Invoke
  <2> QED
    BY <1>1, <2>1, ResultTypes DEF Invoke
<1>2. ASSUME NEW t \in Threads, Acquire(t) PROVE TypeOK'
  BY <1>2 DEF Acquire
<1>3. ASSUME NEW t \in Threads, ExecuteSave(t) PROVE TypeOK'
  <2>1. call[t] \in Calls /\ call[t].id \in Ids
    BY <1>3 DEF ExecuteSave, Calls
  <2> QED
    BY <1>3, <2>1, ResultTypes DEF ExecuteSave
<1>4. ASSUME NEW t \in Threads, ExecuteAppend(t) PROVE TypeOK'
  <2>1. call[t] \in Calls /\ call[t].id \in Ids
    BY <1>4 DEF ExecuteAppend, Calls
  <2>2. trail' \in Seq(Ids)
    BY <1>4, <2>1 DEF ExecuteAppend
  <2> QED
    BY <1>4, <2>2, ResultTypes DEF ExecuteAppend
<1>5. ASSUME NEW t \in Threads, ExecuteQuery(t) PROVE TypeOK'
  BY <1>5, ResultTypes DEF ExecuteQuery
<1>6. ASSUME NEW t \in Threads, Fetch(t) PROVE TypeOK'
  BY <1>6, ResultTypes DEF Fetch
<1>7. ASSUME NEW t \in Threads, Raise(t) PROVE TypeOK'
  BY <1>7, ResultTypes DEF Raise
<1>8. ASSUME NEW t \in Threads, Leave(t) PROVE TypeOK'
  BY <1>8 DEF Leave
<1>9. CASE UNCHANGED vars
  BY <1>9 DEF vars, Query
<1> QED
  BY <1>1, <1>2, <1>3, <1>4, <1>5, <1>6, <1>7, <1>8, <1>9 DEF Next, Inside

\* Every variable keeps its type, whatever threads call and whatever raises.
THEOREM TypeCorrect == Spec => []TypeOK
  BY InitType, NextType, PTL DEF Spec

-----------------------------------------------------------------------------
(***************************************************************************)
(* The lock covers the connection: whoever is between execute and the end  *)
(* of the with block holds it, so that nobody else can replace the pending *)
(* result or change the tables under a query.                              *)
(***************************************************************************)
LEMMA InitSerial == Init => ConnectionIsSerial
  BY NoneAssumption DEF Init, ConnectionIsSerial

\* Every step keeps the connection serial.
LEMMA NextSerial == TypeOK /\ ConnectionIsSerial /\ [Next]_vars => ConnectionIsSerial'
<1> SUFFICES ASSUME TypeOK, ConnectionIsSerial, [Next]_vars PROVE ConnectionIsSerial'
  OBVIOUS
<1> USE NoneAssumption DEF TypeOK, ConnectionIsSerial
<1>1. ASSUME NEW t \in Threads, Invoke(t) PROVE ConnectionIsSerial'
  BY <1>1 DEF Invoke, Query, IsQuery
<1>2. ASSUME NEW t \in Threads, Acquire(t) PROVE ConnectionIsSerial'
  BY <1>2 DEF Acquire, Query, IsQuery
<1>3. ASSUME NEW t \in Threads, ExecuteSave(t) PROVE ConnectionIsSerial'
  BY <1>3 DEF ExecuteSave
<1>4. ASSUME NEW t \in Threads, ExecuteAppend(t) PROVE ConnectionIsSerial'
  BY <1>4 DEF ExecuteAppend
<1>5. ASSUME NEW t \in Threads, ExecuteQuery(t) PROVE ConnectionIsSerial'
  BY <1>5 DEF ExecuteQuery, Query, IsQuery
<1>6. ASSUME NEW t \in Threads, Fetch(t) PROVE ConnectionIsSerial'
  BY <1>6 DEF Fetch
<1>7. ASSUME NEW t \in Threads, Raise(t) PROVE ConnectionIsSerial'
  BY <1>7 DEF Raise
<1>8. ASSUME NEW t \in Threads, Leave(t) PROVE ConnectionIsSerial'
  BY <1>8 DEF Leave
<1>9. CASE UNCHANGED vars
  BY <1>9 DEF vars, Query, IsQuery
<1> QED
  BY <1>1, <1>2, <1>3, <1>4, <1>5, <1>6, <1>7, <1>8, <1>9 DEF Next, Inside

\* One thread at a time is between execute and the end of the with block, and
\* the result pending on the connection is what its query still reads.
THEOREM Serial == Spec => []ConnectionIsSerial
<1>1. TypeOK /\ ConnectionIsSerial /\ [Next]_vars => (TypeOK /\ ConnectionIsSerial)'
  BY NextType, NextSerial
<1> QED
  BY <1>1, InitType, InitSerial, PTL DEF Spec

-----------------------------------------------------------------------------
(***************************************************************************)
(* Linearizability: an insert takes effect when it is executed, a query    *)
(* when its result is fetched.                                             *)
(***************************************************************************)
LEMMA InitAtomic == Init => Atomic!Init
  BY DEF Init, Atomic!Init, Nothing, Result, Atomic!Nothing, Atomic!Result

\* Every step is a step of the atomic tables or leaves them as they are.
LEMMA NextAtomic ==
  ASSUME TypeOK, ConnectionIsSerial, [Next]_vars
  PROVE  [Atomic!Next]_(Atomic!vars)
<1> USE DEF TypeOK
<1>1. ASSUME NEW t \in Threads, Invoke(t) PROVE Atomic!Invoke(t)
  BY <1>1 DEF Invoke, Atomic!Invoke, Calls, Atomic!Calls, Nothing, Result, Atomic!Nothing, Atomic!Result
<1>2. ASSUME NEW t \in Threads, Acquire(t) PROVE UNCHANGED Atomic!vars
  BY <1>2 DEF Acquire, Atomic!vars
<1>3. ASSUME NEW t \in Threads, ExecuteSave(t) PROVE Atomic!Effect(t)
  BY <1>3 DEF ExecuteSave, Atomic!Effect, Ok, Result, Atomic!Ok, Atomic!Result
<1>4. ASSUME NEW t \in Threads, ExecuteAppend(t) PROVE Atomic!Effect(t)
  <2>1. /\ trail' = Append(trail, call[t].id)
        /\ UNCHANGED <<rows, call>>
        /\ call[t].op = "append"
        /\ answer' = [answer EXCEPT ![t] = Atomic!Ok]
    BY <1>4 DEF ExecuteAppend, Ok, Result, Atomic!Ok, Atomic!Result
  <2>2. pc[t] = "executing" /\ pc' = [pc EXCEPT ![t] = "leaving"]
    BY <1>4 DEF ExecuteAppend
  <2> HIDE DEF TypeOK
  <2>3. pc \in [Threads -> {"idle", "entering", "executing", "fetching", "leaving"}]
    BY DEF TypeOK
  <2> QED
    BY <2>1, <2>2, <2>3 DEF Atomic!Effect
<1>5. ASSUME NEW t \in Threads, ExecuteQuery(t) PROVE UNCHANGED Atomic!vars
  BY <1>5 DEF ExecuteQuery, Atomic!vars
<1>6. ASSUME NEW t \in Threads, Fetch(t) PROVE Atomic!Effect(t)
  <2>1. /\ call[t].op \in {"list", "all"}
        /\ UNCHANGED <<rows, trail, call>>
        /\ answer' = [answer EXCEPT ![t] = Atomic!Query(call[t])]
    BY <1>6 DEF Fetch, Query, IsQuery, Result, Atomic!Query, Atomic!Result, ConnectionIsSerial
  <2>2. pc[t] = "fetching" /\ pc' = [pc EXCEPT ![t] = "leaving"]
    BY <1>6 DEF Fetch
  <2> HIDE DEF TypeOK
  <2>3. pc \in [Threads -> {"idle", "entering", "executing", "fetching", "leaving"}]
    BY DEF TypeOK
  <2> QED
    BY <2>1, <2>2, <2>3 DEF Atomic!Effect
<1>7. ASSUME NEW t \in Threads, Raise(t) PROVE Atomic!Effect(t)
  BY <1>7 DEF Raise, Atomic!Effect, Raised, Result, Atomic!Raised, Atomic!Result
<1>8. ASSUME NEW t \in Threads, Leave(t) PROVE Atomic!Return(t)
  BY <1>8 DEF Leave, Atomic!Return
<1>9. CASE UNCHANGED vars
  BY <1>9 DEF vars, Atomic!vars
<1> QED
  BY <1>1, <1>2, <1>3, <1>4, <1>5, <1>6, <1>7, <1>8, <1>9 DEF Next, Inside, Atomic!Next

\* Every call takes effect at one instant between its start and its return, and
\* returns what the tables held at that instant.
THEOREM Linearizable == Spec => AtomicSpec
<1>1. TypeOK /\ ConnectionIsSerial /\ [Next]_vars => (TypeOK /\ ConnectionIsSerial)'
  BY NextType, NextSerial
<1>2. TypeOK /\ ConnectionIsSerial /\ [Next]_vars => [Atomic!Next]_(Atomic!vars)
  BY NextAtomic
<1> QED
  BY <1>1, <1>2, InitType, InitSerial, InitAtomic, PTL DEF Spec, AtomicSpec, Atomic!Spec
=============================================================================

-------------------- MODULE RecommendationService_proofs --------------------
(***************************************************************************)
(* Theorems about RecommendationService, for any number of requests and    *)
(* instruments, any lookback and any bound on the clock.                   *)
(***************************************************************************)
EXTENDS RecommendationService, TLAPS

(***************************************************************************)
(* Every variable keeps its type.                                          *)
(***************************************************************************)
LEMMA InitType == Init => TypeOK
  BY MaxClockAssumption
  DEF Init, TypeOK, Active, Ended, Saved, Times, Row, AuditRecord

\* Every step keeps the types.
LEMMA NextType == TypeOK /\ [Next]_vars => TypeOK'
<1> SUFFICES ASSUME TypeOK, [Next]_vars PROVE TypeOK'
  OBVIOUS
<1> USE DEF TypeOK, Active, Ended, Saved
<1>1. ASSUME NEW q \in Requests, Receive(q) PROVE TypeOK'
  BY <1>1 DEF Receive, Answered
<1>2. ASSUME NEW q \in Requests, Research(q) PROVE TypeOK'
  BY <1>2 DEF Research
<1>3. ASSUME NEW q \in Requests, Recall(q) PROVE TypeOK'
  <2>1. PICK W \in RecentRows(Lookback) : window' = [window EXCEPT ![q] = W]
    BY <1>3 DEF Recall
  <2>2. W \subseteq Requests
    BY DEF RecentRows
  <2> QED
    BY <1>3, <2>1, <2>2 DEF Recall
<1>4. ASSUME NEW q \in Requests, Synthesize(q) PROVE TypeOK'
  BY <1>4 DEF Synthesize
<1>5. ASSUME NEW q \in Requests, Save(q) PROVE TypeOK'
  <2>1. RowOf(q) \in Row
    BY DEF RowOf, Row
  <2>2. /\ DOMAIN recommendations' \subseteq Requests
        /\ recommendations' \in [DOMAIN recommendations' -> Row]
    BY <1>5, <2>1 DEF Save
  <2> QED
    BY <1>5, <2>2 DEF Save
<1>6. ASSUME NEW q \in Requests, Audit(q) PROVE TypeOK'
  <2>1. [id |-> q, instrument |-> asked[q]] \in AuditRecord
    BY DEF AuditRecord
  <2>2. auditRecords' \in Seq(AuditRecord)
    BY <1>6, <2>1 DEF Audit
  <2> QED
    BY <1>6, <2>2 DEF Audit
<1>7. ASSUME NEW q \in Requests, Respond(q) PROVE TypeOK'
  BY <1>7 DEF Respond
<1>8. ASSUME NEW q \in Requests, Abort(q) PROVE TypeOK'
  BY <1>8 DEF Abort
<1>9. CASE Crash
  BY <1>9 DEF Crash
<1>10. CASE Restart
  BY <1>10 DEF Restart
<1>11. CASE Tick
  BY <1>11, MaxClockAssumption DEF Tick, Times
<1>12. CASE UNCHANGED vars
  BY <1>12 DEF vars
<1> QED
  BY <1>1, <1>2, <1>3, <1>4, <1>5, <1>6, <1>7, <1>8, <1>9, <1>10, <1>11, <1>12
  DEF Next, Step

\* Every variable keeps its type through every interleaving of requests,
\* failures, crashes and restarts.
THEOREM TypeCorrect == Spec => []TypeOK
  BY InitType, NextType, PTL DEF Spec

-----------------------------------------------------------------------------
(***************************************************************************)
(* The strengthening.  The properties speak of answered requests; what is  *)
(* inductive says, for every control state of a thread, what it has        *)
(* already written.                                                        *)
(***************************************************************************)
\* Rows: who wrote one, and that it is the row that was synthesised.
RowsInv ==
  /\ \A q \in Saved : /\ pc[q] \in {"auditing", "responding", "answered", "failed", "lost"}
                      /\ recommendations[q] = RowOf(q)
  /\ \A q \in Requests : pc[q] \in {"auditing", "responding", "answered"} => q \in Saved

\* Audit records: one for each request past its audit, none for one before it.
TrailInv ==
  /\ \A i \in DOMAIN auditRecords :
       /\ auditRecords[i].id \in Saved
       /\ pc[auditRecords[i].id] \in {"responding", "answered", "failed", "lost"}
       /\ auditRecords[i].instrument = asked[auditRecords[i].id]
       /\ \A j \in DOMAIN auditRecords : auditRecords[j].id = auditRecords[i].id => j = i
  /\ \A q \in Requests : pc[q] \in {"responding", "answered"} => q \in Audited

\* Real time: what was answered before a request arrived is ahead of it.
OrderInv ==
  \A q \in Requests : \A s \in answeredBefore[q] :
    /\ pc[s] = "answered"
    /\ pc[q] # "idle"
    /\ \A i, j \in DOMAIN auditRecords :
         auditRecords[i].id = s /\ auditRecords[j].id = q => i < j

\* Memory: what a request read was saved before it could be read back.
MemoryInv ==
  /\ \A q \in Requests : stamp[q] <= clock
  /\ \A q \in Requests : \A r \in window[q] :
       /\ r \in Saved
       /\ q \notin window[r]
       /\ pc[q] \notin {"idle", "researching", "recalling"}
       /\ pc[q] \in {"saving", "auditing", "responding", "answered"} \/ q \in Saved =>
            stamp[r] <= stamp[q]

\* A window misses an answered recommendation only when it is full of later ones.
RememberInv ==
  \A q \in Requests : PastRecall(q) =>
    \A s \in answeredBefore[q] :
      \/ s \in window[q]
      \/ /\ Cardinality(window[q]) = Lookback
         /\ \A r \in window[q] : stamp[r] >= stamp[s]

IInv == TypeOK /\ RowsInv /\ TrailInv /\ OrderInv /\ MemoryInv /\ RememberInv

\* The invariant holds initially.
LEMMA InitIInv == Init => IInv
<1> SUFFICES ASSUME Init PROVE IInv
  OBVIOUS
<1>1. TypeOK
  BY InitType
<1>2. Saved = {} /\ DOMAIN auditRecords = {}
  BY DEF Init, Saved
<1>3. RowsInv /\ TrailInv /\ OrderInv /\ MemoryInv /\ RememberInv
  BY <1>2 DEF Init, RowsInv, TrailInv, OrderInv, MemoryInv, RememberInv, PastRecall, Audited
<1> QED
  BY <1>1, <1>3 DEF IInv

(***************************************************************************)
(* Steps that touch neither table, nor what a request read or stamped,     *)
(* only move control forward or end it.                                    *)
(***************************************************************************)
LEMMA RowsStep == IInv /\ [Next]_vars => RowsInv'
<1> SUFFICES ASSUME IInv, [Next]_vars PROVE RowsInv'
  OBVIOUS
<1> USE DEF IInv, TypeOK, RowsInv, Saved, RowOf, Active
<1>1. ASSUME NEW q \in Requests, Receive(q) PROVE RowsInv'
  BY <1>1 DEF Receive
<1>2. ASSUME NEW q \in Requests, Research(q) PROVE RowsInv'
  BY <1>2 DEF Research
<1>3. ASSUME NEW q \in Requests, Recall(q) PROVE RowsInv'
  BY <1>3 DEF Recall
<1>4. ASSUME NEW q \in Requests, Synthesize(q) PROVE RowsInv'
  BY <1>4 DEF Synthesize
<1>5. ASSUME NEW q \in Requests, Save(q) PROVE RowsInv'
  BY <1>5 DEF Save
<1>6. ASSUME NEW q \in Requests, Audit(q) PROVE RowsInv'
  BY <1>6 DEF Audit
<1>7. ASSUME NEW q \in Requests, Respond(q) PROVE RowsInv'
  BY <1>7 DEF Respond
<1>8. ASSUME NEW q \in Requests, Abort(q) PROVE RowsInv'
  BY <1>8 DEF Abort
<1>9. CASE Crash
  BY <1>9 DEF Crash
<1>10. CASE Restart
  BY <1>10 DEF Restart
<1>11. CASE Tick
  BY <1>11 DEF Tick
<1>12. CASE UNCHANGED vars
  BY <1>12 DEF vars
<1> QED
  BY <1>1, <1>2, <1>3, <1>4, <1>5, <1>6, <1>7, <1>8, <1>9, <1>10, <1>11, <1>12
  DEF Next, Step

\* Every step keeps what is true of the audit trail.
LEMMA TrailStep == IInv /\ [Next]_vars => TrailInv'
<1> SUFFICES ASSUME IInv, [Next]_vars PROVE TrailInv'
  OBVIOUS
<1> USE DEF IInv, TypeOK, RowsInv, TrailInv, Saved, Audited, AuditRecord, Active
<1>1. ASSUME NEW q \in Requests, Receive(q) PROVE TrailInv'
  BY <1>1 DEF Receive
<1>2. ASSUME NEW q \in Requests, Research(q) PROVE TrailInv'
  BY <1>2 DEF Research
<1>3. ASSUME NEW q \in Requests, Recall(q) PROVE TrailInv'
  BY <1>3 DEF Recall
<1>4. ASSUME NEW q \in Requests, Synthesize(q) PROVE TrailInv'
  BY <1>4 DEF Synthesize
<1>5. ASSUME NEW q \in Requests, Save(q) PROVE TrailInv'
  BY <1>5 DEF Save
<1>6. ASSUME NEW q \in Requests, Audit(q) PROVE TrailInv'
  <2> DEFINE n == Len(auditRecords)
             e == [id |-> q, instrument |-> asked[q]]
  <2>1. /\ DOMAIN auditRecords = 1..n
        /\ DOMAIN auditRecords' = 1..(n+1)
        /\ n \in Nat
        /\ \A i \in 1..n : auditRecords'[i] = auditRecords[i]
        /\ auditRecords'[n+1] = e
    BY <1>6 DEF Audit
  <2>2. \A i \in 1..n : auditRecords[i].id # q
    BY <1>6, <2>1 DEF Audit
  <2>3. /\ pc' = [pc EXCEPT ![q] = "responding"]
        /\ UNCHANGED <<asked, recommendations>>
        /\ pc[q] = "auditing"
    BY <1>6 DEF Audit
  <2>4. q \in Saved /\ e.id = q /\ e.instrument = asked[q]
    BY <2>3
  <2>5. ASSUME NEW i \in DOMAIN auditRecords'
        PROVE  /\ auditRecords'[i].id \in Saved'
               /\ pc'[auditRecords'[i].id] \in {"responding", "answered", "failed", "lost"}
               /\ auditRecords'[i].instrument = asked'[auditRecords'[i].id]
               /\ \A j \in DOMAIN auditRecords' :
                    auditRecords'[j].id = auditRecords'[i].id => j = i
    <3>1. CASE i \in 1..n
      <4> DEFINE p == auditRecords[i].id
      <4>1. auditRecords'[i] = auditRecords[i] /\ i \in DOMAIN auditRecords /\ p # q
        BY <2>1, <2>2, <3>1
      <4>2. /\ p \in Saved' /\ p \in Requests
            /\ pc'[p] \in {"responding", "answered", "failed", "lost"}
            /\ auditRecords[i].instrument = asked'[p]
        BY <2>3, <4>1
      <4>3. ASSUME NEW j \in DOMAIN auditRecords', auditRecords'[j].id = p
            PROVE  j = i
        <5>1. j \in 1..n
          BY <2>1, <2>4, <4>1, <4>3
        <5> QED
          BY <2>1, <4>1, <4>3, <5>1
      <4> QED
        BY <4>1, <4>2, <4>3
    <3>2. CASE i = n + 1
      <4>1. auditRecords'[i] = e
        BY <2>1, <3>2
      <4>2. \A j \in DOMAIN auditRecords' : auditRecords'[j].id = q => j = i
        BY <2>1, <2>2, <3>2
      <4>3. pc'[q] = "responding" /\ q \in Saved' /\ asked'[q] = asked[q]
        BY <2>3, <2>4
      <4> QED
        BY <2>4, <4>1, <4>2, <4>3
    <3> QED
      BY <2>1, <3>1, <3>2
  <2>6. ASSUME NEW p \in Requests, pc'[p] \in {"responding", "answered"}
        PROVE  p \in Audited'
    <3>1. CASE p = q
      BY <2>1, <2>4, <3>1
    <3>2. CASE p # q
      <4>1. pc[p] \in {"responding", "answered"}
        BY <2>3, <2>6, <3>2
      <4>2. PICK i \in 1..n : auditRecords[i].id = p
        BY <2>1, <4>1
      <4> QED
        BY <2>1, <4>2
    <3> QED
      BY <3>1, <3>2
  <2> QED
    BY <2>5, <2>6
<1>7. ASSUME NEW q \in Requests, Respond(q) PROVE TrailInv'
  BY <1>7 DEF Respond
<1>8. ASSUME NEW q \in Requests, Abort(q) PROVE TrailInv'
  BY <1>8 DEF Abort
<1>9. CASE Crash
  BY <1>9 DEF Crash
<1>10. CASE Restart
  BY <1>10 DEF Restart
<1>11. CASE Tick
  BY <1>11 DEF Tick
<1>12. CASE UNCHANGED vars
  BY <1>12 DEF vars
<1> QED
  BY <1>1, <1>2, <1>3, <1>4, <1>5, <1>6, <1>7, <1>8, <1>9, <1>10, <1>11, <1>12
  DEF Next, Step

\* Every step keeps the order of the trail and the real order of requests together.
LEMMA OrderStep == IInv /\ [Next]_vars => OrderInv'
<1> SUFFICES ASSUME IInv, [Next]_vars PROVE OrderInv'
  OBVIOUS
<1> USE DEF IInv, TypeOK, TrailInv, OrderInv, AuditRecord, Active
<1>1. ASSUME NEW q \in Requests, Receive(q) PROVE OrderInv'
  BY <1>1 DEF Receive, Answered
<1>2. ASSUME NEW q \in Requests, Research(q) PROVE OrderInv'
  BY <1>2 DEF Research
<1>3. ASSUME NEW q \in Requests, Recall(q) PROVE OrderInv'
  BY <1>3 DEF Recall
<1>4. ASSUME NEW q \in Requests, Synthesize(q) PROVE OrderInv'
  BY <1>4 DEF Synthesize
<1>5. ASSUME NEW q \in Requests, Save(q) PROVE OrderInv'
  BY <1>5 DEF Save
<1>6. ASSUME NEW p \in Requests, Audit(p) PROVE OrderInv'
  <2> DEFINE n == Len(auditRecords)
  <2>1. /\ DOMAIN auditRecords = 1..n
        /\ DOMAIN auditRecords' = 1..(n+1)
        /\ n \in Nat
        /\ \A i \in 1..n : auditRecords'[i] = auditRecords[i]
        /\ auditRecords'[n+1].id = p
    BY <1>6 DEF Audit
  <2>2. /\ pc' = [pc EXCEPT ![p] = "responding"]
        /\ pc[p] = "auditing"
        /\ answeredBefore' = answeredBefore
    BY <1>6 DEF Audit
  <2> SUFFICES ASSUME NEW q \in Requests, NEW s \in answeredBefore'[q]
               PROVE  /\ pc'[s] = "answered"
                      /\ pc'[q] # "idle"
                      /\ \A i, j \in DOMAIN auditRecords' :
                           auditRecords'[i].id = s /\ auditRecords'[j].id = q => i < j
    OBVIOUS
  <2>3. s \in Requests /\ s # p /\ pc'[s] = "answered" /\ pc'[q] # "idle"
    BY <2>2
  <2>4. ASSUME NEW i \in 1..(n+1), NEW j \in 1..(n+1),
               auditRecords'[i].id = s, auditRecords'[j].id = q
        PROVE  i < j
    <3>1. i \in 1..n
      BY <2>1, <2>3, <2>4
    <3>2. CASE j \in 1..n
      BY <2>1, <2>2, <2>4, <3>1, <3>2
    <3>3. CASE j = n + 1
      BY <2>1, <3>1, <3>3
    <3> QED
      BY <2>1, <3>2, <3>3
  <2> QED
    BY <2>1, <2>3, <2>4
<1>7. ASSUME NEW q \in Requests, Respond(q) PROVE OrderInv'
  BY <1>7 DEF Respond
<1>8. ASSUME NEW q \in Requests, Abort(q) PROVE OrderInv'
  BY <1>8 DEF Abort
<1>9. CASE Crash
  BY <1>9 DEF Crash
<1>10. CASE Restart
  BY <1>10 DEF Restart
<1>11. CASE Tick
  BY <1>11 DEF Tick
<1>12. CASE UNCHANGED vars
  BY <1>12 DEF vars
<1> QED
  BY <1>1, <1>2, <1>3, <1>4, <1>5, <1>6, <1>7, <1>8, <1>9, <1>10, <1>11, <1>12
  DEF Next, Step

\* Every step keeps what is true of what the memory agent has read.
LEMMA MemoryStep == IInv /\ [Next]_vars => MemoryInv'
<1> SUFFICES ASSUME IInv, [Next]_vars PROVE MemoryInv'
  OBVIOUS
<1> USE DEF IInv, TypeOK, RowsInv, MemoryInv, Saved, Active, Times
<1>1. ASSUME NEW q \in Requests, Receive(q) PROVE MemoryInv'
  BY <1>1 DEF Receive
<1>2. ASSUME NEW q \in Requests, Research(q) PROVE MemoryInv'
  BY <1>2 DEF Research
<1>3. ASSUME NEW q \in Requests, Recall(q) PROVE MemoryInv'
  <2>1. PICK W \in RecentRows(Lookback) : window' = [window EXCEPT ![q] = W]
    BY <1>3 DEF Recall
  <2>2. W \subseteq Saved
    BY DEF RecentRows
  <2>3. q \notin Saved
    BY <1>3 DEF Recall
  <2> QED
    BY <1>3, <2>1, <2>2, <2>3 DEF Recall
<1>4. ASSUME NEW q \in Requests, Synthesize(q) PROVE MemoryInv'
  <2>1. /\ pc[q] = "debating" /\ q \notin Saved
        /\ pc' = [pc EXCEPT ![q] = "saving"]
        /\ stamp' = [stamp EXCEPT ![q] = clock]
        /\ UNCHANGED <<window, recommendations, clock>>
    BY <1>4 DEF Synthesize
  <2>2. \A p \in Requests : stamp'[p] <= clock'
    BY <2>1, MaxClockAssumption
  <2>3. ASSUME NEW p \in Requests, NEW r \in window'[p]
        PROVE  /\ r \in Saved'
               /\ p \notin window'[r]
               /\ pc'[p] \notin {"idle", "researching", "recalling"}
               /\ pc'[p] \in {"saving", "auditing", "responding", "answered"} \/ p \in Saved' =>
                    stamp'[r] <= stamp'[p]
    <3>1. r \in window[p] /\ r \in Saved /\ r \in Requests /\ r # q
      BY <2>1
    <3>2. stamp'[r] = stamp[r] /\ stamp[r] <= clock
      BY <2>1, <3>1
    <3>3. CASE p = q
      BY <2>1, <3>1, <3>2, <3>3
    <3>4. CASE p # q
      BY <2>1, <3>1, <3>2, <3>4
    <3> QED
      BY <3>3, <3>4
  <2> QED
    BY <2>2, <2>3
<1>5. ASSUME NEW q \in Requests, Save(q) PROVE MemoryInv'
  BY <1>5 DEF Save
<1>6. ASSUME NEW q \in Requests, Audit(q) PROVE MemoryInv'
  BY <1>6 DEF Audit
<1>7. ASSUME NEW q \in Requests, Respond(q) PROVE MemoryInv'
  BY <1>7 DEF Respond
<1>8. ASSUME NEW q \in Requests, Abort(q) PROVE MemoryInv'
  BY <1>8 DEF Abort
<1>9. CASE Crash
  BY <1>9 DEF Crash
<1>10. CASE Restart
  BY <1>10 DEF Restart
<1>11. CASE Tick
  BY <1>11, MaxClockAssumption DEF Tick
<1>12. CASE UNCHANGED vars
  BY <1>12 DEF vars
<1> QED
  BY <1>1, <1>2, <1>3, <1>4, <1>5, <1>6, <1>7, <1>8, <1>9, <1>10, <1>11, <1>12
  DEF Next, Step

\* Every step keeps what was answered within what is remembered.
LEMMA RememberStep == IInv /\ [Next]_vars => RememberInv'
<1> SUFFICES ASSUME IInv, [Next]_vars PROVE RememberInv'
  OBVIOUS
<1> USE DEF IInv, TypeOK, RowsInv, OrderInv, MemoryInv, RememberInv, PastRecall, Saved, Active
<1>1. ASSUME NEW q \in Requests, Receive(q) PROVE RememberInv'
  BY <1>1 DEF Receive
<1>2. ASSUME NEW q \in Requests, Research(q) PROVE RememberInv'
  BY <1>2 DEF Research
<1>3. ASSUME NEW q \in Requests, Recall(q) PROVE RememberInv'
  <2>1. PICK W \in RecentRows(Lookback) : window' = [window EXCEPT ![q] = W]
    BY <1>3 DEF Recall
  <2>2. ASSUME NEW s \in answeredBefore[q], s \notin W
        PROVE  /\ Cardinality(W) = Lookback
               /\ \A r \in W : stamp[r] >= stamp[s]
    <3>1. s \in Saved
      OBVIOUS
    <3>2. \A r \in Saved : recommendations[r].generatedAt = stamp[r]
      BY DEF RowOf
    <3> QED
      BY <2>2, <3>1, <3>2 DEF RecentRows
  <2> QED
    BY <1>3, <2>1, <2>2 DEF Recall
<1>4. ASSUME NEW q \in Requests, Synthesize(q) PROVE RememberInv'
  BY <1>4 DEF Synthesize
<1>5. ASSUME NEW q \in Requests, Save(q) PROVE RememberInv'
  BY <1>5 DEF Save
<1>6. ASSUME NEW q \in Requests, Audit(q) PROVE RememberInv'
  BY <1>6 DEF Audit
<1>7. ASSUME NEW q \in Requests, Respond(q) PROVE RememberInv'
  BY <1>7 DEF Respond
<1>8. ASSUME NEW q \in Requests, Abort(q) PROVE RememberInv'
  BY <1>8 DEF Abort
<1>9. CASE Crash
  BY <1>9 DEF Crash
<1>10. CASE Restart
  BY <1>10 DEF Restart
<1>11. CASE Tick
  BY <1>11 DEF Tick
<1>12. CASE UNCHANGED vars
  BY <1>12 DEF vars
<1> QED
  BY <1>1, <1>2, <1>3, <1>4, <1>5, <1>6, <1>7, <1>8, <1>9, <1>10, <1>11, <1>12
  DEF Next, Step

\* Every step keeps the invariant.
LEMMA NextIInv == IInv /\ [Next]_vars => IInv'
<1> SUFFICES ASSUME IInv, [Next]_vars PROVE IInv'
  OBVIOUS
<1>1. TypeOK'
  BY NextType DEF IInv
<1>2. RowsInv' /\ TrailInv' /\ OrderInv' /\ MemoryInv' /\ RememberInv'
  BY RowsStep, TrailStep, OrderStep, MemoryStep, RememberStep
<1> QED
  BY <1>1, <1>2 DEF IInv

\* The invariant holds throughout.
THEOREM Inductive == Spec => []IInv
  BY InitIInv, NextIInv, PTL DEF Spec

-----------------------------------------------------------------------------
(***************************************************************************)
(* The safety properties.                                                  *)
(***************************************************************************)
LEMMA OnRecordFromInv == IInv => AnsweredIsOnRecord
<1> SUFFICES ASSUME IInv, NEW q \in Answered
             PROVE  /\ q \in Saved
                    /\ recommendations[q] = RowOf(q)
                    /\ \E i \in DOMAIN auditRecords :
                         /\ auditRecords[i] =
                              [id |-> q, instrument |-> recommendations[q].instrument]
                         /\ \A j \in DOMAIN auditRecords : auditRecords[j].id = q => j = i
  BY DEF AnsweredIsOnRecord
<1>1. q \in Requests /\ pc[q] = "answered"
  BY DEF Answered
<1>2. q \in Saved /\ recommendations[q] = RowOf(q)
  BY <1>1 DEF IInv, RowsInv
<1>3. PICK i \in DOMAIN auditRecords : auditRecords[i].id = q
  BY <1>1 DEF IInv, TrailInv, Audited
<1>4. auditRecords[i].instrument = recommendations[q].instrument
  BY <1>2, <1>3 DEF IInv, TrailInv, RowOf
<1>5. auditRecords[i] = [id |-> q, instrument |-> recommendations[q].instrument]
  <2>1. auditRecords[i] \in AuditRecord
    BY <1>3 DEF IInv, TypeOK
  <2> QED
    BY <1>3, <1>4, <2>1 DEF AuditRecord
<1>6. \A j \in DOMAIN auditRecords : auditRecords[j].id = q => j = i
  BY <1>3 DEF IInv, TrailInv
<1> QED
  BY <1>2, <1>5, <1>6

\* A client that holds a 201 holds a stored recommendation with exactly one
\* audit record (execute saves, then appends, then returns).
THEOREM AnsweredOnRecord == Spec => []AnsweredIsOnRecord
  BY Inductive, OnRecordFromInv, PTL

\* The invariant says that the audit trail is sound.
LEMMA SoundFromInv == IInv => AuditIsSound
<1> SUFFICES ASSUME IInv, NEW i \in DOMAIN auditRecords
             PROVE  /\ auditRecords[i].id \in Saved
                    /\ recommendations[auditRecords[i].id].instrument
                         = auditRecords[i].instrument
  BY DEF AuditIsSound
<1> DEFINE p == auditRecords[i].id
<1>1. p \in Saved /\ auditRecords[i].instrument = asked[p]
  BY DEF IInv, TrailInv
<1>2. recommendations[p] = RowOf(p)
  BY <1>1 DEF IInv, RowsInv
<1> QED
  BY <1>1, <1>2 DEF RowOf

\* The audit trail only speaks of stored recommendations, and truly.
THEOREM AuditSound == Spec => []AuditIsSound
  BY Inductive, SoundFromInv, PTL

\* The invariant says that the trail follows real time.
LEMMA RealTimeFromInv == IInv => AuditFollowsRealTime
<1> SUFFICES ASSUME IInv, NEW q \in Requests, NEW s \in answeredBefore[q]
             PROVE  /\ s \in Audited
                    /\ q \in Audited => Position(s) < Position(q)
  BY DEF AuditFollowsRealTime
<1>1. s \in Audited
  BY DEF IInv, TypeOK, OrderInv, TrailInv
<1>2. ASSUME q \in Audited PROVE Position(s) < Position(q)
  <2>1. \A r \in Audited : Position(r) \in DOMAIN auditRecords
                           /\ auditRecords[Position(r)].id = r
    BY DEF Audited, Position
  <2> QED
    BY <1>1, <1>2, <2>1 DEF IInv, OrderInv
<1> QED
  BY <1>1, <1>2

\* A recommendation answered before another was asked for precedes it in the
\* audit trail.
THEOREM AuditRealTime == Spec => []AuditFollowsRealTime
  BY Inductive, RealTimeFromInv, PTL

\* The invariant says that the memory agent reads only the past.
LEMMA CausalFromInv == IInv => MemoryIsCausal
  BY DEF IInv, TypeOK, RowsInv, MemoryInv, MemoryIsCausal, RowOf

\* No two recommendations count each other as a prior look.
THEOREM MemoryCausal == Spec => []MemoryIsCausal
  BY Inductive, CausalFromInv, PTL

\* The invariant says that what was answered is remembered.
LEMMA RememberedFromInv == IInv => AnsweredIsRemembered
<1> SUFFICES ASSUME IInv, NEW q \in Requests, NEW s \in answeredBefore[q],
                    PastRecall(q), asked[s] = asked[q]
             PROVE  \/ s \in History(q)
                    \/ /\ Cardinality(window[q]) = Lookback
                       /\ \A r \in window[q] :
                            recommendations[r].generatedAt >= recommendations[s].generatedAt
  BY DEF AnsweredIsRemembered
<1>1. s \in Saved /\ recommendations[s] = RowOf(s)
  BY DEF IInv, TypeOK, OrderInv, RowsInv
<1>2. \A r \in window[q] : r \in Saved /\ recommendations[r] = RowOf(r)
  BY DEF IInv, MemoryInv, RowsInv
<1>3. CASE s \in window[q]
  BY <1>1, <1>3 DEF History, RowOf
<1>4. CASE s \notin window[q]
  <2>1. /\ Cardinality(window[q]) = Lookback
        /\ \A r \in window[q] : stamp[r] >= stamp[s]
    BY <1>4 DEF IInv, RememberInv
  <2>2. ASSUME NEW r \in window[q] \cup {s}
        PROVE  recommendations[r].generatedAt = stamp[r]
    <3>1. recommendations[r] = RowOf(r)
      BY <1>1, <1>2
    <3> QED
      BY <3>1 DEF RowOf
  <2> QED
    BY <2>1, <2>2
<1> QED
  BY <1>3, <1>4

\* An answered look at an instrument is forgotten only for Lookback later rows.
THEOREM AnsweredRemembered == Spec => []AnsweredIsRemembered
  BY Inductive, RememberedFromInv, PTL

\* The invariant says that orphans were never answered.
LEMMA OrphansFromInv == IInv => OrphansAreUnanswered
  BY DEF IInv, TypeOK, RowsInv, TrailInv, OrphansAreUnanswered

\* A row without an audit record belongs to a request that is about to write
\* it, raised, or died; never to one that was answered.
THEOREM OrphansUnanswered == Spec => []OrphansAreUnanswered
  BY Inductive, OrphansFromInv, PTL

-----------------------------------------------------------------------------
(***************************************************************************)
(* The action property and the refinement.                                 *)
(***************************************************************************)
LEMMA NothingTakenBackStep ==
  IInv /\ [Next]_vars =>
    [/\ \A r \in Saved : r \in DOMAIN recommendations'
                         /\ recommendations'[r] = recommendations[r]
     /\ Len(auditRecords') >= Len(auditRecords)
     /\ \A i \in DOMAIN auditRecords : auditRecords'[i] = auditRecords[i]]_vars
<1> SUFFICES ASSUME IInv, Next
             PROVE  /\ \A r \in Saved : r \in DOMAIN recommendations'
                                        /\ recommendations'[r] = recommendations[r]
                    /\ Len(auditRecords') >= Len(auditRecords)
                    /\ \A i \in DOMAIN auditRecords : auditRecords'[i] = auditRecords[i]
  OBVIOUS
<1>0. auditRecords \in Seq(AuditRecord) /\ Len(auditRecords) \in Nat
  BY DEF IInv, TypeOK
<1>1. ASSUME NEW q \in Requests, Save(q)
      PROVE  /\ \A r \in Saved : r \in DOMAIN recommendations'
                                 /\ recommendations'[r] = recommendations[r]
             /\ auditRecords' = auditRecords
  BY <1>1 DEF Save, IInv, RowsInv, Saved
<1>2. ASSUME NEW q \in Requests, Audit(q)
      PROVE  /\ recommendations' = recommendations
             /\ Len(auditRecords') >= Len(auditRecords)
             /\ \A i \in DOMAIN auditRecords : auditRecords'[i] = auditRecords[i]
  BY <1>0, <1>2 DEF Audit
<1>3. ASSUME NEW q \in Requests,
             Receive(q) \/ Research(q) \/ Recall(q) \/ Synthesize(q) \/ Respond(q) \/ Abort(q)
      PROVE  UNCHANGED <<recommendations, auditRecords>>
  BY <1>3 DEF Receive, Research, Recall, Synthesize, Respond, Abort
<1>4. ASSUME Crash \/ Restart \/ Tick
      PROVE  UNCHANGED <<recommendations, auditRecords>>
  BY <1>4 DEF Crash, Restart, Tick
<1>5. CASE UNCHANGED <<recommendations, auditRecords>>
  BY <1>0, <1>5 DEF Saved
<1> QED
  BY <1>0, <1>1, <1>2, <1>3, <1>4, <1>5 DEF Next, Step, Saved

\* No step, crash or restart rewrites or removes a row or an audit record.
THEOREM NothingIsTakenBack == Spec => NothingTakenBack
  BY Inductive, NothingTakenBackStep, PTL DEF Spec, NothingTakenBack

\* The initial states are initial states of the ledger.
LEMMA LedgerInit == Init => Ledger!Init
  BY DEF Init, Ledger!Init, Answered

\* Every step is a step of the ledger or leaves it as it is.
LEMMA LedgerStep == IInv /\ [Next]_vars => [Ledger!Next]_(Ledger!vars)
<1> SUFFICES ASSUME IInv, [Next]_vars PROVE [Ledger!Next]_(Ledger!vars)
  OBVIOUS
<1> USE DEF IInv, TypeOK, Ledger!vars, Answered, Active, Saved
<1>1. ASSUME NEW q \in Requests, Save(q) PROVE Ledger!Publish(q)
  <2>1. RowOf(q) \in Ledger!Recommendation
    BY DEF RowOf, Ledger!Recommendation, Times
  <2>2. q \notin Saved
    BY <1>1 DEF Save, RowsInv
  <2>3. Answered' = Answered
    BY <1>1 DEF Save
  <2> QED
    BY <1>1, <2>1, <2>2, <2>3 DEF Save, Ledger!Publish
<1>2. ASSUME NEW q \in Requests, Audit(q) PROVE Ledger!Attest(q)
  <2>1. q \in Saved /\ recommendations[q].instrument = asked[q]
    BY <1>2 DEF Audit, RowsInv, RowOf
  <2>2. q \notin Ledger!Attested
    BY <1>2 DEF Audit, TrailInv, Ledger!Attested
  <2>3. Answered' = Answered
    BY <1>2 DEF Audit
  <2> QED
    BY <1>2, <2>1, <2>2, <2>3 DEF Audit, Ledger!Attest
<1>3. ASSUME NEW q \in Requests, Respond(q) PROVE Ledger!Deliver(q)
  <2>1. q \in Ledger!Attested
    BY <1>3 DEF Respond, TrailInv, Audited, Ledger!Attested
  <2>2. Answered' = Answered \cup {q}
    BY <1>3 DEF Respond
  <2> QED
    BY <1>3, <2>1, <2>2 DEF Respond, Ledger!Deliver
<1>4. ASSUME NEW q \in Requests,
             Receive(q) \/ Research(q) \/ Recall(q) \/ Synthesize(q) \/ Abort(q)
      PROVE  UNCHANGED Ledger!vars
  BY <1>4 DEF Receive, Research, Recall, Synthesize, Abort
<1>5. CASE Crash
  BY <1>5 DEF Crash
<1>6. CASE Restart \/ Tick
  BY <1>6 DEF Restart, Tick
<1>7. CASE UNCHANGED vars
  BY <1>7 DEF vars
<1> QED
  BY <1>1, <1>2, <1>3, <1>4, <1>5, <1>6, <1>7 DEF Next, Step, Ledger!Next

\* The concurrent, crashing service implements the ledger.
THEOREM ImplementsLedger == Spec => LedgerSpec
  BY Inductive, LedgerInit, LedgerStep, PTL DEF Spec, LedgerSpec, Ledger!Spec
=============================================================================

--------------------------- MODULE Console_proofs ---------------------------
(***************************************************************************)
(* Theorems about the service on PostgreSQL, for any number of requests    *)
(* and any number of lives of the process, and about the console in front  *)
(* of it.                                                                  *)
(***************************************************************************)
EXTENDS Console, TLAPS

(***************************************************************************)
(* Every variable keeps its type.                                          *)
(***************************************************************************)
LEMMA InitType == Init => TypeOK
  BY DEF Init, TypeOK, Active, Ended, Stores

\* Every step keeps the types.
LEMMA NextType == TypeOK /\ [Next]_serverVars => TypeOK'
<1> SUFFICES ASSUME TypeOK, [Next]_serverVars PROVE TypeOK'
  OBVIOUS
<1> USE DEF TypeOK, Active, Ended, Stores
<1>1. ASSUME NEW store \in Stores, Start(store) PROVE TypeOK'
  BY <1>1 DEF Start
<1>2. CASE Crash
  BY <1>2 DEF Crash
<1>3. ASSUME NEW q \in Requests, Receive(q) PROVE TypeOK'
  BY <1>3 DEF Receive, Answered
<1>4. ASSUME NEW q \in Requests, Recall(q) PROVE TypeOK'
  <2>1. \A W \in RecentRows(Lookback) : W \subseteq Requests \cup Earlier
    BY DEF RecentRows, Table
  <2>2. RecentIds(Lookback) \subseteq Requests
    BY DEF RecentIds
  <2>3. PICK W \in SUBSET (Requests \cup Earlier) : window' = [window EXCEPT ![q] = W]
    BY <1>4, <2>1, <2>2 DEF Recall
  <2> QED
    BY <1>4, <2>3 DEF Recall
<1>5. ASSUME NEW q \in Requests, InsertRow(q) PROVE TypeOK'
  BY <1>5 DEF InsertRow
<1>13. ASSUME NEW q \in Requests, InsertAudit(q) PROVE TypeOK'
  <2>1. auditId' \in [Requests -> Nat] /\ nextId' \in Nat \ {0}
    BY <1>13 DEF InsertAudit
  <2> QED
    BY <1>13, <2>1 DEF InsertAudit
<1>6. ASSUME NEW q \in Requests, SendCommit(q) \/ Drop(q) PROVE TypeOK'
  BY <1>6 DEF SendCommit, Drop
<1>7. ASSUME NEW q \in Requests, CommitRow(q) PROVE TypeOK'
  BY <1>7 DEF CommitRow
<1>8. ASSUME NEW q \in Requests, CommitAudit(q) PROVE TypeOK'
  BY <1>8 DEF CommitAudit
<1>9. ASSUME NEW q \in Requests, Acknowledge(q) PROVE TypeOK'
  <2>1. Onward(q) \in Active
    BY DEF Onward
  <2> QED
    BY <1>9, <2>1 DEF Acknowledge
<1>14. ASSUME NEW q \in Requests, CommitRaises(q) PROVE TypeOK'
  BY <1>14 DEF CommitRaises
<1>10. ASSUME NEW q \in Requests, SaveToMemory(q) PROVE TypeOK'
  <2>1. memory' \in Seq(Requests)
    BY <1>10 DEF SaveToMemory
  <2> QED
    BY <1>10, <2>1 DEF SaveToMemory
<1>16. ASSUME NEW q \in Requests, AuditToMemory(q) PROVE TypeOK'
  BY <1>16 DEF AuditToMemory
<1>11. ASSUME NEW q \in Requests, Respond(q) \/ Abort(q) PROVE TypeOK'
  BY <1>11 DEF Respond, Abort
<1>15. ASSUME NEW q \in Requests, Synthesize(q) PROVE TypeOK'
  BY <1>15 DEF Synthesize
<1>12. CASE UNCHANGED serverVars
  BY <1>12 DEF serverVars
<1> QED
  BY <1>1, <1>2, <1>3, <1>4, <1>5, <1>6, <1>7, <1>8, <1>9, <1>10, <1>11, <1>12, <1>13,
     <1>14, <1>15, <1>16
  DEF Next, Work, Client, Server

\* Every variable keeps its type through every interleaving of requests,
\* commits, failures, crashes and starts.
THEOREM TypeCorrect == Spec => []TypeOK
  BY InitType, NextType, PTL DEF Spec

-----------------------------------------------------------------------------
(***************************************************************************)
(* The strengthening: where a request is and what is in flight for it say  *)
(* what is committed, also after the request has ended.                    *)
(***************************************************************************)
\* A thread runs in the life that received it; only a life on the database has
\* transactions.
LivesInv ==
  \A q \in Requests :
    /\ pc[q] \in Active => servedBy[q] = life
    /\ pc[q] = "idle" <=> servedBy[q] = "none"
    /\ txn[q] # "none" => servedBy[q] = "postgres"

\* What is in flight: a transaction belongs to a waiting client or to a request
\* that has ended, and a statement that is not committed has left no trace.
FlightInv ==
  \A q \in Requests :
    /\ pc[q] \in {"committing", "attesting"} => txn[q] # "none"
    /\ pc[q] \in {"idle", "recalling", "debating", "saving", "auditing", "responding",
                 "answered"} =>
         txn[q] = "none"
    /\ pc[q] \in {"idle", "recalling", "debating", "saving", "committing", "auditing"} =>
         auditId[q] = 0
    /\ pc[q] = "attesting" => auditId[q] # 0
    /\ txn[q] \in {"open", "sent"} => (q \in rows <=> auditId[q] # 0) /\ q \notin Audited

\* What is committed.
CommittedInv ==
  \A q \in Requests :
    /\ q \in Audited => q \in rows /\ auditId[q] # 0
    /\ auditId[q] # 0 => q \in rows
    /\ pc[q] \in {"idle", "recalling", "debating", "saving"} => q \notin rows
    /\ pc[q] = "committing" /\ txn[q] = "done" => q \in rows
    /\ pc[q] = "attesting" /\ txn[q] = "done" => q \in Audited
    /\ pc[q] \in {"auditing", "responding", "answered"} /\ servedBy[q] = "postgres" =>
         q \in rows
    /\ pc[q] \in {"responding", "answered"} /\ servedBy[q] = "postgres" => q \in Audited

\* Ids are drawn in an order that respects real time, and none is drawn twice.
OrderInv ==
  /\ \A q \in Requests : auditId[q] < nextId
  /\ \A q \in Requests : \A s \in answeredBefore[q] :
       /\ pc[s] = "answered"
       /\ pc[q] # "idle"
       /\ servedBy[s] = "postgres" /\ auditId[q] # 0 => auditId[s] < auditId[q]

IInv == TypeOK /\ LivesInv /\ FlightInv /\ CommittedInv /\ OrderInv /\ HistorySurvivesFallback

\* The invariant holds initially.
LEMMA InitIInv == Init => IInv
<1> SUFFICES ASSUME Init PROVE IInv
  OBVIOUS
<1>1. Audited = {}
  BY DEF Init, Audited
<1> QED
  BY <1>1, InitType
  DEF Init, IInv, LivesInv, FlightInv, CommittedInv, OrderInv, HistorySurvivesFallback, Active

\* The commit of an audit record adds it to the trail; nothing else does.
LEMMA CommitAddsRecord ==
  ASSUME TypeOK, NEW q \in Requests, CommitAudit(q)
  PROVE  Audited' = Audited \cup {q}
<1>1. trail \in Seq(Requests) /\ Len(trail) \in Nat
  BY DEF TypeOK
<1>2. trail' = Append(trail, q)
  BY DEF CommitAudit
<1>3. /\ DOMAIN trail = 1..Len(trail)
      /\ DOMAIN trail' = 1..(Len(trail) + 1)
      /\ \A i \in DOMAIN trail : trail'[i] = trail[i]
      /\ trail'[Len(trail) + 1] = q
  BY <1>1, <1>2
<1> QED
  BY <1>1, <1>3 DEF Audited

\* Every step keeps what is true of the lives of the process.
LEMMA LivesStep == IInv /\ [Next]_serverVars => LivesInv'
<1> SUFFICES ASSUME IInv, [Next]_serverVars PROVE LivesInv'
  OBVIOUS
<1> USE DEF IInv, TypeOK, LivesInv, FlightInv, Active, Stores
<1>1. ASSUME NEW store \in Stores, Start(store) PROVE LivesInv'
  BY <1>1 DEF Start
<1>2. CASE Crash
  BY <1>2 DEF Crash
<1>3. ASSUME NEW q \in Requests, Receive(q) PROVE LivesInv'
  BY <1>3 DEF Receive, Answered
<1>4. ASSUME NEW q \in Requests, Recall(q) PROVE LivesInv'
  BY <1>4 DEF Recall
<1>5. ASSUME NEW q \in Requests, InsertRow(q) PROVE LivesInv'
  BY <1>5 DEF InsertRow
<1>6. ASSUME NEW q \in Requests, InsertAudit(q) PROVE LivesInv'
  BY <1>6 DEF InsertAudit
<1>7. ASSUME NEW q \in Requests, SendCommit(q) PROVE LivesInv'
  BY <1>7 DEF SendCommit
<1>8. ASSUME NEW q \in Requests, CommitRow(q) PROVE LivesInv'
  BY <1>8 DEF CommitRow
<1>9. ASSUME NEW q \in Requests, CommitAudit(q) PROVE LivesInv'
  BY <1>9, CommitAddsRecord DEF CommitAudit
<1>10. ASSUME NEW q \in Requests, Drop(q) PROVE LivesInv'
  BY <1>10 DEF Drop
<1>11. ASSUME NEW q \in Requests, Acknowledge(q) PROVE LivesInv'
  BY <1>11 DEF Acknowledge, Onward
<1>12. ASSUME NEW q \in Requests, CommitRaises(q) PROVE LivesInv'
  BY <1>12 DEF CommitRaises
<1>13. ASSUME NEW q \in Requests, SaveToMemory(q) PROVE LivesInv'
  BY <1>13 DEF SaveToMemory
<1>14. ASSUME NEW q \in Requests, AuditToMemory(q) PROVE LivesInv'
  BY <1>14 DEF AuditToMemory
<1>15. ASSUME NEW q \in Requests, Respond(q) PROVE LivesInv'
  BY <1>15 DEF Respond
<1>16. ASSUME NEW q \in Requests, Abort(q) PROVE LivesInv'
  BY <1>16 DEF Abort
<1>18. ASSUME NEW q \in Requests, Synthesize(q) PROVE LivesInv'
  BY <1>18 DEF Synthesize
<1>17. CASE UNCHANGED serverVars
  BY <1>17 DEF serverVars
<1> QED
  BY <1>1, <1>2, <1>3, <1>4, <1>5, <1>6, <1>7, <1>8, <1>9, <1>10, <1>11, <1>12,
     <1>13, <1>14, <1>15, <1>16, <1>17, <1>18
  DEF Next, Work, Client, Server

\* Every step keeps what is true of the requests in flight.
LEMMA FlightStep == IInv /\ [Next]_serverVars => FlightInv'
<1> SUFFICES ASSUME IInv, [Next]_serverVars PROVE FlightInv'
  OBVIOUS
<1> USE DEF IInv, TypeOK, FlightInv, CommittedInv, OrderInv, Active, Audited
<1>1. ASSUME NEW store \in Stores, Start(store) PROVE FlightInv'
  BY <1>1 DEF Start
<1>2. CASE Crash
  BY <1>2 DEF Crash
<1>3. ASSUME NEW q \in Requests, Receive(q) PROVE FlightInv'
  BY <1>3 DEF Receive, Answered
<1>4. ASSUME NEW q \in Requests, Recall(q) PROVE FlightInv'
  BY <1>4 DEF Recall
<1>5. ASSUME NEW q \in Requests, InsertRow(q) PROVE FlightInv'
  BY <1>5 DEF InsertRow
<1>6. ASSUME NEW q \in Requests, InsertAudit(q) PROVE FlightInv'
  <2>1. q \in rows /\ q \notin Audited
    BY <1>6 DEF InsertAudit, LivesInv
  <2>2. auditId'[q] # 0
    BY <1>6 DEF InsertAudit
  <2>3. Audited' = Audited
    BY <1>6 DEF InsertAudit
  <2> HIDE DEF Audited
  <2> QED
    BY <1>6, <2>1, <2>2, <2>3 DEF InsertAudit
<1>7. ASSUME NEW q \in Requests, SendCommit(q) PROVE FlightInv'
  BY <1>7 DEF SendCommit
<1>8. ASSUME NEW q \in Requests, CommitRow(q) PROVE FlightInv'
  BY <1>8 DEF CommitRow
<1>9. ASSUME NEW q \in Requests, CommitAudit(q) PROVE FlightInv'
  BY <1>9, CommitAddsRecord DEF CommitAudit
<1>10. ASSUME NEW q \in Requests, Drop(q) PROVE FlightInv'
  BY <1>10 DEF Drop
<1>11. ASSUME NEW q \in Requests, Acknowledge(q) PROVE FlightInv'
  BY <1>11 DEF Acknowledge, Onward
<1>12. ASSUME NEW q \in Requests, CommitRaises(q) PROVE FlightInv'
  BY <1>12 DEF CommitRaises
<1>13. ASSUME NEW q \in Requests, SaveToMemory(q) PROVE FlightInv'
  BY <1>13 DEF SaveToMemory
<1>14. ASSUME NEW q \in Requests, AuditToMemory(q) PROVE FlightInv'
  BY <1>14 DEF AuditToMemory
<1>15. ASSUME NEW q \in Requests, Respond(q) PROVE FlightInv'
  BY <1>15 DEF Respond
<1>16. ASSUME NEW q \in Requests, Abort(q) PROVE FlightInv'
  BY <1>16 DEF Abort
<1>18. ASSUME NEW q \in Requests, Synthesize(q) PROVE FlightInv'
  BY <1>18 DEF Synthesize
<1>17. CASE UNCHANGED serverVars
  BY <1>17 DEF serverVars
<1> QED
  BY <1>1, <1>2, <1>3, <1>4, <1>5, <1>6, <1>7, <1>8, <1>9, <1>10, <1>11, <1>12,
     <1>13, <1>14, <1>15, <1>16, <1>17, <1>18
  DEF Next, Work, Client, Server

\* Every step keeps what is true of the committed rows.
LEMMA CommittedStep == IInv /\ [Next]_serverVars => CommittedInv'
<1> SUFFICES ASSUME IInv, [Next]_serverVars PROVE CommittedInv'
  OBVIOUS
<1> USE DEF IInv, TypeOK, LivesInv, FlightInv, CommittedInv, Active, Audited
<1>1. ASSUME NEW store \in Stores, Start(store) PROVE CommittedInv'
  BY <1>1 DEF Start
<1>2. CASE Crash
  BY <1>2 DEF Crash
<1>3. ASSUME NEW q \in Requests, Receive(q) PROVE CommittedInv'
  BY <1>3 DEF Receive, Answered
<1>4. ASSUME NEW q \in Requests, Recall(q) PROVE CommittedInv'
  BY <1>4 DEF Recall
<1>5. ASSUME NEW q \in Requests, InsertRow(q) PROVE CommittedInv'
  BY <1>5 DEF InsertRow
<1>6. ASSUME NEW q \in Requests, InsertAudit(q) PROVE CommittedInv'
  BY <1>6 DEF InsertAudit
<1>7. ASSUME NEW q \in Requests, SendCommit(q) PROVE CommittedInv'
  BY <1>7 DEF SendCommit
<1>8. ASSUME NEW q \in Requests, CommitRow(q) PROVE CommittedInv'
  BY <1>8 DEF CommitRow
<1>9. ASSUME NEW q \in Requests, CommitAudit(q) PROVE CommittedInv'
  <2> HIDE DEF Audited
  <2>1. q \in rows
    BY <1>9 DEF CommitAudit
  <2>2. Audited' = Audited \cup {q}
    BY <1>9, CommitAddsRecord DEF Audited
  <2> QED
    BY <1>9, <2>1, <2>2 DEF CommitAudit
<1>10. ASSUME NEW q \in Requests, Drop(q) PROVE CommittedInv'
  BY <1>10 DEF Drop
<1>11. ASSUME NEW q \in Requests, Acknowledge(q) PROVE CommittedInv'
  BY <1>11 DEF Acknowledge, Onward
<1>12. ASSUME NEW q \in Requests, CommitRaises(q) PROVE CommittedInv'
  BY <1>12 DEF CommitRaises
<1>13. ASSUME NEW q \in Requests, SaveToMemory(q) PROVE CommittedInv'
  BY <1>13 DEF SaveToMemory
<1>14. ASSUME NEW q \in Requests, AuditToMemory(q) PROVE CommittedInv'
  BY <1>14 DEF AuditToMemory
<1>15. ASSUME NEW q \in Requests, Respond(q) PROVE CommittedInv'
  BY <1>15 DEF Respond
<1>16. ASSUME NEW q \in Requests, Abort(q) PROVE CommittedInv'
  BY <1>16 DEF Abort
<1>18. ASSUME NEW q \in Requests, Synthesize(q) PROVE CommittedInv'
  BY <1>18 DEF Synthesize
<1>17. CASE UNCHANGED serverVars
  BY <1>17 DEF serverVars
<1> QED
  BY <1>1, <1>2, <1>3, <1>4, <1>5, <1>6, <1>7, <1>8, <1>9, <1>10, <1>11, <1>12,
     <1>13, <1>14, <1>15, <1>16, <1>17, <1>18
  DEF Next, Work, Client, Server

\* Every step keeps the order of the drawn ids and the real order of requests together.
LEMMA OrderStep == IInv /\ [Next]_serverVars => OrderInv'
<1> SUFFICES ASSUME IInv, [Next]_serverVars PROVE OrderInv'
  OBVIOUS
<1> USE DEF IInv, TypeOK, FlightInv, OrderInv, Active, LivesInv
<1>1. ASSUME NEW store \in Stores, Start(store) PROVE OrderInv'
  BY <1>1 DEF Start
<1>2. CASE Crash
  BY <1>2 DEF Crash
<1>3. ASSUME NEW q \in Requests, Receive(q) PROVE OrderInv'
  BY <1>3 DEF Receive, Answered
<1>4. ASSUME NEW q \in Requests, Recall(q) PROVE OrderInv'
  BY <1>4 DEF Recall
<1>5. ASSUME NEW q \in Requests, InsertRow(q) PROVE OrderInv'
  BY <1>5 DEF InsertRow
<1>6. ASSUME NEW q \in Requests, InsertAudit(q) PROVE OrderInv'
  BY <1>6 DEF InsertAudit
<1>7. ASSUME NEW q \in Requests, SendCommit(q) PROVE OrderInv'
  BY <1>7 DEF SendCommit
<1>8. ASSUME NEW q \in Requests, CommitRow(q) PROVE OrderInv'
  BY <1>8 DEF CommitRow
<1>9. ASSUME NEW q \in Requests, CommitAudit(q) PROVE OrderInv'
  BY <1>9, CommitAddsRecord DEF CommitAudit
<1>10. ASSUME NEW q \in Requests, Drop(q) PROVE OrderInv'
  BY <1>10 DEF Drop
<1>11. ASSUME NEW q \in Requests, Acknowledge(q) PROVE OrderInv'
  BY <1>11 DEF Acknowledge, Onward
<1>12. ASSUME NEW q \in Requests, CommitRaises(q) PROVE OrderInv'
  BY <1>12 DEF CommitRaises
<1>13. ASSUME NEW q \in Requests, SaveToMemory(q) PROVE OrderInv'
  BY <1>13 DEF SaveToMemory
<1>14. ASSUME NEW q \in Requests, AuditToMemory(q) PROVE OrderInv'
  BY <1>14 DEF AuditToMemory
<1>15. ASSUME NEW q \in Requests, Respond(q) PROVE OrderInv'
  BY <1>15 DEF Respond
<1>16. ASSUME NEW q \in Requests, Abort(q) PROVE OrderInv'
  BY <1>16 DEF Abort
<1>18. ASSUME NEW q \in Requests, Synthesize(q) PROVE OrderInv'
  BY <1>18 DEF Synthesize
<1>17. CASE UNCHANGED serverVars
  BY <1>17 DEF serverVars
<1> QED
  BY <1>1, <1>2, <1>3, <1>4, <1>5, <1>6, <1>7, <1>8, <1>9, <1>10, <1>11, <1>12,
     <1>13, <1>14, <1>15, <1>16, <1>17, <1>18
  DEF Next, Work, Client, Server

\* What a request has read stays what it was as long as the rows and their times do.
LEMMA HistoryKept ==
  ASSUME IInv,
         \A q \in Requests : PastRecall(q)' => /\ PastRecall(q)
                                               /\ window'[q] = window[q]
                                               /\ servedBy'[q] = servedBy[q]
                                               /\ answeredBefore'[q] = answeredBefore[q],
         rows \subseteq rows',
         \A r \in rows : stamp'[r] = stamp[r]
  PROVE  HistorySurvivesFallback'
<1> USE DEF CreatedAt, Table
<1>1. Table \subseteq Table' /\ \A r \in Table : CreatedAt(r)' = CreatedAt(r)
  OBVIOUS
<1>2. ASSUME NEW q \in Requests, PastRecall(q), NEW s \in answeredBefore[q],
             s \in DurablyAnswered'
      PROVE  s \in DurablyAnswered /\ s \in Table
  <2>1. s \in Requests /\ pc[s] = "answered"
    BY <1>2 DEF IInv, TypeOK, OrderInv
  <2>2. servedBy'[s] = servedBy[s] /\ servedBy'[s] = "postgres"
    BY <1>2 DEF DurablyAnswered, Answered, PastRecall
  <2> QED
    BY <2>1, <2>2 DEF DurablyAnswered, Answered, IInv, CommittedInv
<1> HIDE DEF CreatedAt, Table
<1>3. SUFFICES ASSUME NEW q \in Requests, servedBy'[q] = "postgres", PastRecall(q)'
               PROVE  /\ window'[q] \subseteq Table'
                      /\ \A s \in answeredBefore'[q] \cap DurablyAnswered' :
                           \/ s \in window'[q]
                           \/ /\ Cardinality(window'[q]) = Lookback
                              /\ \A r \in window'[q] : CreatedAt(r)' >= CreatedAt(s)'
  BY DEF HistorySurvivesFallback
<1>4. /\ PastRecall(q) /\ servedBy[q] = "postgres"
      /\ window'[q] = window[q] /\ answeredBefore'[q] = answeredBefore[q]
  BY <1>3
<1>5. window[q] \subseteq Table
  BY <1>4 DEF IInv, HistorySurvivesFallback
<1>6. ASSUME NEW s \in answeredBefore[q], s \in DurablyAnswered', s \notin window[q]
      PROVE  /\ Cardinality(window[q]) = Lookback
             /\ \A r \in window[q] : CreatedAt(r)' >= CreatedAt(s)'
  <2>1. s \in DurablyAnswered /\ s \in Table
    BY <1>2, <1>4, <1>6
  <2>2. /\ Cardinality(window[q]) = Lookback
        /\ \A r \in window[q] : CreatedAt(r) >= CreatedAt(s)
    BY <1>4, <1>6, <2>1 DEF IInv, HistorySurvivesFallback
  <2> QED
    BY <1>1, <1>5, <2>1, <2>2
<1> QED
  BY <1>1, <1>4, <1>5, <1>6

\* A request that reads the table reads the most recent of it, which leaves out a
\* recommendation that was answered before only for rows as recent.
LEMMA HistoryRead ==
  ASSUME IInv, NEW q \in Requests, Recall(q)
  PROVE  HistorySurvivesFallback'
<1> USE DEF IInv, TypeOK
<1>1. /\ pc' = [pc EXCEPT ![q] = "debating"] /\ pc[q] = "recalling"
      /\ servedBy[q] = life
      /\ UNCHANGED <<servedBy, rows, stamp, answeredBefore>>
  BY DEF Recall, LivesInv, Active
<1>2. \A r \in Requests : r \in DurablyAnswered' <=> r \in DurablyAnswered
  BY <1>1 DEF DurablyAnswered, Answered
<1>3. Table' = Table /\ \A r : CreatedAt(r)' = CreatedAt(r)
  BY <1>1 DEF Table, CreatedAt
<1>4. ASSUME NEW p \in Requests, p # q, servedBy'[p] = "postgres", PastRecall(p)'
      PROVE  /\ window'[p] = window[p]
             /\ servedBy[p] = "postgres" /\ PastRecall(p)
  BY <1>1, <1>4 DEF PastRecall, Recall
<1>5. ASSUME servedBy'[q] = "postgres"
      PROVE  /\ window'[q] \subseteq Table
             /\ \A s \in answeredBefore[q] \cap DurablyAnswered :
                  \/ s \in window'[q]
                  \/ /\ Cardinality(window'[q]) = Lookback
                     /\ \A r \in window'[q] : CreatedAt(r) >= CreatedAt(s)
  <2>1. life = "postgres"
    BY <1>1, <1>5
  <2>2. PICK W \in RecentRows(Lookback) : window'[q] = W
    BY <2>1 DEF Recall
  <2>3. /\ W \subseteq Table
        /\ W # Table => Cardinality(W) = Lookback
        /\ \A r \in W, s \in Table \ W : CreatedAt(r) >= CreatedAt(s)
    BY <2>2 DEF RecentRows
  <2>4. DurablyAnswered \subseteq Table
    BY DEF DurablyAnswered, Answered, CommittedInv, Table
  <2> QED
    BY <2>2, <2>3, <2>4
<1> QED
  BY <1>1, <1>2, <1>3, <1>4, <1>5 DEF HistorySurvivesFallback

\* Every step keeps the stored history visible to later lives.
LEMMA HistoryStep == IInv /\ [Next]_serverVars => HistorySurvivesFallback'
<1> SUFFICES ASSUME IInv, [Next]_serverVars PROVE HistorySurvivesFallback'
  OBVIOUS
<1>0. TypeOK /\ CommittedInv /\ LivesInv
  BY DEF IInv
<1> USE DEF TypeOK, PastRecall
<1>1. ASSUME NEW store \in Stores, Start(store) PROVE HistorySurvivesFallback'
  BY <1>1, HistoryKept DEF Start
<1>2. CASE Crash
  BY <1>0, <1>2, HistoryKept DEF Crash
<1>3. ASSUME NEW q \in Requests, Receive(q) PROVE HistorySurvivesFallback'
  BY <1>0, <1>3, HistoryKept DEF Receive, Answered
<1>4. ASSUME NEW q \in Requests, InsertRow(q) PROVE HistorySurvivesFallback'
  BY <1>0, <1>4, HistoryKept DEF InsertRow
<1>5. ASSUME NEW q \in Requests, InsertAudit(q) PROVE HistorySurvivesFallback'
  BY <1>0, <1>5, HistoryKept DEF InsertAudit
<1>6. ASSUME NEW q \in Requests, SendCommit(q) PROVE HistorySurvivesFallback'
  BY <1>0, <1>6, HistoryKept DEF SendCommit
<1>7. ASSUME NEW q \in Requests, CommitRow(q) PROVE HistorySurvivesFallback'
  BY <1>0, <1>7, HistoryKept DEF CommitRow
<1>8. ASSUME NEW q \in Requests, CommitAudit(q) PROVE HistorySurvivesFallback'
  BY <1>0, <1>8, HistoryKept DEF CommitAudit
<1>9. ASSUME NEW q \in Requests, Drop(q) PROVE HistorySurvivesFallback'
  BY <1>0, <1>9, HistoryKept DEF Drop
<1>10. ASSUME NEW q \in Requests, Acknowledge(q) PROVE HistorySurvivesFallback'
  BY <1>0, <1>10, HistoryKept DEF Acknowledge, Onward
<1>11. ASSUME NEW q \in Requests, CommitRaises(q) PROVE HistorySurvivesFallback'
  BY <1>0, <1>11, HistoryKept DEF CommitRaises
<1>12. ASSUME NEW q \in Requests, SaveToMemory(q) PROVE HistorySurvivesFallback'
  BY <1>0, <1>12, HistoryKept DEF SaveToMemory
<1>13. ASSUME NEW q \in Requests, AuditToMemory(q) PROVE HistorySurvivesFallback'
  BY <1>0, <1>13, HistoryKept DEF AuditToMemory
<1>14. ASSUME NEW q \in Requests, Respond(q) PROVE HistorySurvivesFallback'
  BY <1>0, <1>14, HistoryKept DEF Respond
<1>15. ASSUME NEW q \in Requests, Abort(q) PROVE HistorySurvivesFallback'
  BY <1>0, <1>15, HistoryKept DEF Abort, Active
<1>16. ASSUME NEW q \in Requests, Synthesize(q) PROVE HistorySurvivesFallback'
  BY <1>0, <1>16, HistoryKept DEF Synthesize, CommittedInv
<1>17. CASE UNCHANGED serverVars
  BY <1>17, HistoryKept DEF serverVars
<1> QED
  BY <1>1, <1>2, <1>3, <1>4, <1>5, <1>6, <1>7, <1>8, <1>9, <1>10,
     <1>11, <1>12, <1>13, <1>14, <1>15, <1>16, <1>17, HistoryRead
  DEF Next, Work, Client, Server

\* The invariant of the service holds throughout.
LEMMA Inductive == Spec => []IInv
<1>1. IInv /\ [Next]_serverVars => IInv'
  BY NextType, LivesStep, FlightStep, CommittedStep, OrderStep, HistoryStep DEF IInv
<1> QED
  BY InitIInv, <1>1, PTL DEF Spec

\* The invariant says that the trail follows real time.
LEMMA RealTimeFromInv == IInv => AuditFollowsRealTime
  BY DEF IInv, TypeOK, CommittedInv, OrderInv, AuditFollowsRealTime, DurablyAnswered, Answered,
         Before, Audited

\* The trail as all() reads it respects real time, over commits that overtake each
\* other and lives of the process that end in between.
THEOREM AuditRealTime == Spec => []AuditFollowsRealTime
  BY Inductive, RealTimeFromInv, PTL

\* A request served from the database has read what was answered from it before,
\* except where Lookback rows at least as recent took its place, whatever lives on
\* the in-memory store lie in between.
THEOREM HistorySurvives == Spec => []HistorySurvivesFallback
  BY Inductive, PTL DEF IInv

-----------------------------------------------------------------------------
(***************************************************************************)
(* The refinement.                                                         *)
(***************************************************************************)
LEMMA LedgerInit == Init => Ledger!Init
  BY DEF Init, Ledger!Init, DurablyAnswered, Answered

\* The entries of the ledger's trail are those of the table.
LEMMA AttestedIsAudited == Ledger!Attested = Audited
  BY DEF Ledger!Attested, Audited

\* Every step of the service is a step of the ledger or leaves it as it is.
LEMMA LedgerStep == IInv /\ [Next]_serverVars => [Ledger!Next]_(Ledger!vars)
<1> SUFFICES ASSUME IInv, [Next]_serverVars PROVE [Ledger!Next]_(Ledger!vars)
  OBVIOUS
<1> USE DEF IInv, TypeOK, Ledger!vars, DurablyAnswered, Answered, Active
<1>1. ASSUME NEW q \in Requests, CommitRow(q) PROVE Ledger!Publish(q)
  <2>1. q \notin rows
    BY <1>1 DEF CommitRow, FlightInv
  <2>2. rows' = rows \cup {q} /\ trail' = trail /\ DurablyAnswered' = DurablyAnswered
    BY <1>1 DEF CommitRow
  <2>3. [instrument |-> "some", generatedAt |-> 0] \in Ledger!Recommendation
    BY DEF Ledger!Recommendation
  <2> QED
    BY <2>1, <2>2, <2>3 DEF Ledger!Publish
<1>2. ASSUME NEW q \in Requests, CommitAudit(q) PROVE Ledger!Attest(q)
  <2>1. q \in rows /\ q \notin Ledger!Attested
    BY <1>2, AttestedIsAudited DEF CommitAudit, FlightInv
  <2>2. rows' = rows /\ trail' = Append(trail, q) /\ DurablyAnswered' = DurablyAnswered
    BY <1>2 DEF CommitAudit
  <2>3. [i \in DOMAIN trail' |-> [id |-> trail'[i], instrument |-> "some"]]
        = Append([i \in DOMAIN trail |-> [id |-> trail[i], instrument |-> "some"]],
                 [id |-> q, instrument |-> "some"])
    BY <2>2
  <2> QED
    BY <2>1, <2>2, <2>3 DEF Ledger!Attest
<1>3. ASSUME NEW q \in Requests, Respond(q), servedBy[q] = "postgres"
      PROVE  Ledger!Deliver(q)
  <2>1. q \in Ledger!Attested
    BY <1>3, AttestedIsAudited DEF Respond, CommittedInv
  <2>2. rows' = rows /\ trail' = trail /\ DurablyAnswered' = DurablyAnswered \cup {q}
    BY <1>3 DEF Respond
  <2> QED
    BY <2>1, <2>2 DEF Ledger!Deliver
<1>4. ASSUME NEW q \in Requests, Respond(q), servedBy[q] # "postgres"
      PROVE  UNCHANGED Ledger!vars
  BY <1>4 DEF Respond
<1>5. ASSUME NEW q \in Requests,
             \/ Receive(q) \/ Recall(q) \/ Synthesize(q) \/ InsertRow(q) \/ InsertAudit(q)
             \/ SendCommit(q) \/ Drop(q) \/ Acknowledge(q) \/ CommitRaises(q) \/ SaveToMemory(q)
             \/ AuditToMemory(q) \/ Abort(q)
      PROVE  UNCHANGED Ledger!vars
  <2>1. UNCHANGED <<rows, trail>>
    BY <1>5 DEF Receive, Recall, Synthesize, InsertRow, InsertAudit, SendCommit, Drop, Acknowledge,
                CommitRaises, SaveToMemory, AuditToMemory, Abort
  <2>2. \A r \in Requests : r \in DurablyAnswered' <=> r \in DurablyAnswered
    BY <1>5 DEF Receive, Recall, Synthesize, InsertRow, InsertAudit, SendCommit, Drop, Acknowledge, Onward,
                CommitRaises, SaveToMemory, AuditToMemory, Abort, LivesInv
  <2> QED
    BY <2>1, <2>2
<1>6. ASSUME NEW store \in Stores, Start(store) PROVE UNCHANGED Ledger!vars
  BY <1>6 DEF Start
<1>7. CASE Crash
  BY <1>7 DEF Crash
<1>8. CASE UNCHANGED serverVars
  BY <1>8 DEF serverVars
<1> QED
  BY <1>1, <1>2, <1>3, <1>4, <1>5, <1>6, <1>7, <1>8 DEF Next, Work, Client, Server, Ledger!Next

\* The service on PostgreSQL implements the ledger, with commits that are lost,
\* late or unacknowledged and with lives that fall back to memory.
THEOREM ImplementsLedger == Spec => LedgerSpec
  BY Inductive, LedgerInit, LedgerStep, PTL DEF Spec, LedgerSpec, Ledger!Spec

-----------------------------------------------------------------------------
(***************************************************************************)
(* The console: every step of it is a step of the service or leaves the    *)
(* service alone, so the invariants of the service hold behind it, and with*)
(* them what the page says of the database.                                *)
(***************************************************************************)
LEMMA ConsoleStepsService == [ConsoleNext]_vars => [Next]_serverVars
  BY DEF ConsoleNext, Submit, SubmitInVain, Settle, Show, Reject, Reload, Next, vars, serverVars

\* The console takes only steps of the service and its own, so the invariant holds of
\* it.
LEMMA ServiceHolds == ConsoleSpec => []IInv
<1>1. ConsoleInit => IInv
  BY InitIInv DEF ConsoleInit
<1>2. IInv /\ [ConsoleNext]_vars => IInv'
  BY ConsoleStepsService, NextType, LivesStep, FlightStep, CommittedStep, OrderStep, HistoryStep
  DEF IInv
<1> QED
  BY <1>1, <1>2, PTL DEF ConsoleSpec

-----------------------------------------------------------------------------
(***************************************************************************)
(* The strengthening: at most one handler waits, while the form is         *)
(* disabled, and the recommendation on display was answered before the     *)
(* request the handler waits for arrived.                                  *)
(***************************************************************************)
DisplayInv ==
  /\ disabled <=> status = "running"
  /\ disabled <=> handlers # {}
  /\ status = "error" => result = None
  /\ result # None => pc[result] = "answered"
  /\ \A q \in handlers :
       /\ pc[q] # "idle"
       /\ result # None => result \in answeredBefore[q]
       /\ \A r \in handlers : r = q

\* Every request that arrived is waited for, was displayed or was given up.
ReceivedInv ==
  \A q \in Requests :
    /\ pc[q] # "idle" => q \in handlers \cup shown \cup abandoned
    /\ q \in Held => pc[q] # "idle"

PageInv == PageTypeOK /\ DisplayInv /\ ReceivedInv

\* The invariant of the page holds initially.
LEMMA InitPage == ConsoleInit => PageInv
<1> SUFFICES ASSUME ConsoleInit PROVE PageInv
  OBVIOUS
<1>1. Held = {}
  BY DEF ConsoleInit, Init, Held
<1> QED
  BY <1>1 DEF ConsoleInit, Init, PageInv, PageTypeOK, DisplayInv, ReceivedInv

\* A request that was answered stays answered, and what was answered before it
\* arrived is noted once.
LEMMA WorkKeeps ==
  IInv /\ Work => \A q \in Requests : /\ pc[q] = "answered" => pc'[q] = "answered"
                                      /\ pc[q] = "idle" <=> pc'[q] = "idle"
                                      /\ answeredBefore'[q] = answeredBefore[q]
<1> SUFFICES ASSUME IInv, Work
             PROVE  \A q \in Requests : /\ pc[q] = "answered" => pc'[q] = "answered"
                                        /\ pc[q] = "idle" <=> pc'[q] = "idle"
                                        /\ answeredBefore'[q] = answeredBefore[q]
  OBVIOUS
<1> USE DEF IInv, TypeOK
<1>1. ASSUME NEW store \in Stores, Start(store)
      PROVE  UNCHANGED <<pc, answeredBefore>>
  BY <1>1 DEF Start
<1>2. CASE Crash
  BY <1>2 DEF Crash, Active
<1>3. ASSUME NEW r \in Requests, Client(r)
      PROVE  /\ answeredBefore' = answeredBefore
             /\ \E to \in Active \cup {"failed", "answered"} :
                  /\ pc' = [pc EXCEPT ![r] = to] \/ pc' = pc
                  /\ pc[r] \in Active
  BY <1>3 DEF Client, Recall, Synthesize, InsertRow, InsertAudit, SendCommit, Acknowledge, Onward,
              CommitRaises, SaveToMemory, AuditToMemory, Respond, Active
<1>4. ASSUME NEW r \in Requests, Server(r)
      PROVE  UNCHANGED <<pc, answeredBefore>>
  BY <1>4 DEF Server, CommitRow, CommitAudit, Drop
<1>5. ASSUME NEW r \in Requests, Abort(r)
      PROVE  \A q \in Requests : /\ pc[q] = "answered" => pc'[q] = "answered"
                                 /\ pc[q] = "idle" <=> pc'[q] = "idle"
                                 /\ answeredBefore'[q] = answeredBefore[q]
  BY <1>5 DEF Abort, Active
<1> QED
  BY <1>1, <1>2, <1>3, <1>4, <1>5 DEF Work, Active

\* What an in-memory store holds was received.
LEMMA WorkKeepsMemory ==
  IInv /\ Work => \A q \in Requests : q \in Held' => q \in Held \/ pc[q] = "saving"
<1> SUFFICES ASSUME IInv, Work
             PROVE  \A q \in Requests : q \in Held' => q \in Held \/ pc[q] = "saving"
  OBVIOUS
<1>1. ASSUME NEW store \in Stores, Start(store) PROVE Held' = {}
  BY <1>1 DEF Start, Held
<1>2. ASSUME Crash PROVE Held' = {}
  BY <1>2 DEF Crash, Held
<1>3. ASSUME NEW r \in Requests, SaveToMemory(r)
      PROVE  Held' = Held \cup {r} /\ pc[r] = "saving"
  <2>1. memory \in Seq(Requests) /\ Len(memory) \in Nat
    BY DEF IInv, TypeOK
  <2>2. memory' = Append(memory, r) /\ pc[r] = "saving"
    BY <1>3 DEF SaveToMemory
  <2>3. /\ DOMAIN memory = 1..Len(memory)
        /\ DOMAIN memory' = 1..(Len(memory) + 1)
        /\ \A i \in DOMAIN memory : memory'[i] = memory[i]
        /\ memory'[Len(memory) + 1] = r
    BY <2>1, <2>2
  <2> QED
    BY <2>1, <2>2, <2>3 DEF Held
<1>4. ASSUME NEW r \in Requests, Client(r), ~ SaveToMemory(r) PROVE Held' = Held
  BY <1>4 DEF Client, Recall, Synthesize, InsertRow, InsertAudit, SendCommit, Acknowledge,
              CommitRaises, AuditToMemory, Respond, Held
<1>5. ASSUME NEW r \in Requests, Server(r) \/ Abort(r) PROVE Held' = Held
  BY <1>5 DEF Server, CommitRow, CommitAudit, Drop, Abort, Held
<1> QED
  BY <1>1, <1>2, <1>3, <1>4, <1>5 DEF Work

\* Every step of the console keeps the invariant of the page.
LEMMA PageStep == IInv /\ PageInv /\ [ConsoleNext]_vars => PageInv'
<1> SUFFICES ASSUME IInv, PageInv, [ConsoleNext]_vars PROVE PageInv'
  OBVIOUS
<1> USE NoneAssumption DEF PageInv, PageTypeOK, DisplayInv, ReceivedInv
<1>1. CASE Work /\ UNCHANGED pageVars
  <2>1. UNCHANGED <<disabled, handlers, result, status, shown, abandoned>>
    BY <1>1 DEF pageVars
  <2>2. PageTypeOK' /\ DisplayInv'
    BY <1>1, <2>1, WorkKeeps
  <2>3. ReceivedInv'
    BY <1>1, <2>1, WorkKeeps, WorkKeepsMemory
  <2> QED
    BY <2>2, <2>3
<1>2. ASSUME NEW q \in Requests, Submit(q) PROVE PageInv'
  <2>1. /\ handlers = {} /\ handlers' = {q} /\ result' = result
        /\ pc[q] = "idle" /\ pc' = [pc EXCEPT ![q] = "recalling"]
        /\ answeredBefore'[q] = Answered
        /\ Held' = Held
    BY <1>2 DEF Submit, Receive, IInv, TypeOK, Held
  <2>2. result # None => result \in Answered /\ result # q
    BY <2>1 DEF Answered
  <2>3. PageTypeOK' /\ DisplayInv'
    BY <1>2, <2>1, <2>2 DEF Submit, IInv, TypeOK
  <2>4. ReceivedInv'
    BY <1>2, <2>1 DEF Submit, IInv, TypeOK
  <2> QED
    BY <2>3, <2>4
<1>3. ASSUME NEW q \in Requests, Show(q) PROVE PageInv'
  BY <1>3 DEF Show, serverVars, Held
<1>4. ASSUME NEW q \in Requests, Reject(q) PROVE PageInv'
  BY <1>4 DEF Reject, serverVars, Held
<1>5. CASE SubmitInVain
  BY <1>5 DEF SubmitInVain, serverVars, Held
<1>6. CASE Reload
  BY <1>6 DEF Reload, serverVars, Held
<1>7. CASE UNCHANGED vars
  BY <1>7 DEF vars, Held
<1> QED
  BY <1>1, <1>2, <1>3, <1>4, <1>5, <1>6, <1>7 DEF ConsoleNext, Settle

\* Both invariants hold of the console throughout.
LEMMA PageHolds == ConsoleSpec => [](IInv /\ PageInv)
  BY InitPage, PageStep, ServiceHolds, PTL DEF ConsoleSpec

\* A recommendation on display that was answered from the database is in it.
LEMMA DisplayFromInv == IInv /\ PageInv => DisplayIsTrue
  BY DEF IInv, CommittedInv, PageInv, DisplayInv, DisplayIsTrue, DurablyAnswered, Answered

\* The page says what is true: about its form, its error, and the database.
THEOREM DisplayTrue == ConsoleSpec => []DisplayIsTrue
  BY PageHolds, DisplayFromInv, PTL

\* Nothing is stored behind the user's back.
THEOREM StoredExplained == ConsoleSpec => []StoredIsExplained
<1>1. IInv => Held \subseteq Requests
  BY DEF IInv, TypeOK, Held
<1>2. IInv /\ PageInv => StoredIsExplained
  BY <1>1 DEF IInv, TypeOK, CommittedInv, PageInv, ReceivedInv, StoredIsExplained
<1> QED
  BY PageHolds, <1>2, PTL

\* A newer result is never overwritten by the late answer to an older request.
THEOREM NewestStands == ConsoleSpec => OldNeverReplacesNew
<1>1. IInv /\ PageInv /\ [ConsoleNext]_vars =>
        [result' # result /\ result # None /\ result' # None =>
           result \in answeredBefore'[result']]_vars
  <2> SUFFICES ASSUME PageInv, [ConsoleNext]_vars, result' # result, result # None,
                      result' # None
               PROVE  result \in answeredBefore'[result']
    OBVIOUS
  <2>1. PICK q \in Requests : Show(q)
    BY DEF ConsoleNext, pageVars, Submit, SubmitInVain, Settle, Reject, Reload, vars
  <2> QED
    BY <2>1 DEF Show, serverVars, PageInv, DisplayInv
<1> QED
  BY PageHolds, <1>1, PTL DEF ConsoleSpec, OldNeverReplacesNew
=============================================================================

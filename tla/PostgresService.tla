--------------------------- MODULE PostgresService ---------------------------
(***************************************************************************)
(* The recommendation service on PostgreSQL, over many lives of its        *)
(* process.  Each call of a repository opens a connection of its own and   *)
(* runs one statement in one transaction, which commits when the with      *)
(* block is left: the client sends COMMIT, the server carries it out, the  *)
(* client learns of it.  A COMMIT that was sent is out of the client's     *)
(* hands: it may be carried out after the request has failed, or after the *)
(* process that sent it has died.                                          *)
(*                                                                         *)
(* A start that cannot reach the database gives the process an in-memory   *)
(* store instead, for as long as it lives.  What an in-memory save does    *)
(* step by step is in InMemoryStore; here it is one step.                  *)
(*                                                                         *)
(* Instruments are left out (RecommendationService has them).              *)
(***************************************************************************)
EXTENDS Naturals, Sequences, FiniteSets

CONSTANTS Requests,     \* POSTs, each made at most once
          Earlier,      \* rows of the table from before the first of these lives
          Lookback      \* rows the memory agent reads (200 in the code)

ASSUME LookbackAssumption == Lookback \in Nat \ {0}
ASSUME EarlierAssumption == Earlier \cap Requests = {}

VARIABLES
  pc,             \* where the thread of each request is
  life,           \* "down", or which store the running process writes to
  servedBy,       \* the life that received each request, "none" before
  window,         \* the rows list_recent returned to each request
  stamp,          \* governance.generated_at of each request's recommendation
  latest,         \* the last of these that was taken
  txn,            \* the transaction of each request's current statement
  rows,           \* table recommendations: ids of the rows committed by these lives
  trail,          \* table audit_records: committed records, in commit order
  auditId,        \* the BIGSERIAL id each request's audit insert drew, or 0
  nextId,         \* the sequence behind it
  memory,         \* ids in the in-memory store of this life, in save order
  answeredBefore  \* history: requests already answered when this one arrived

serverVars == <<pc, life, servedBy, window, stamp, latest, txn, rows, trail,
                auditId, nextId, memory, answeredBefore>>

Stores == {"postgres", "memory"}
Active == {"recalling", "debating", "saving", "committing", "auditing", "attesting",
           "responding"}
Ended  == {"answered", "failed", "lost"}

Audited  == {trail[i] : i \in DOMAIN trail}
Held     == {memory[i] : i \in DOMAIN memory}
Answered == {q \in Requests : pc[q] = "answered"}

\* Requests whose 201 came from a process that wrote to the database.
DurablyAnswered == {q \in Answered : servedBy[q] = "postgres"}

Init ==
  /\ pc = [q \in Requests |-> "idle"]
  /\ life = "down"
  /\ servedBy = [q \in Requests |-> "none"]
  /\ window = [q \in Requests |-> {}]
  /\ stamp = [q \in Requests |-> 0]
  /\ latest = 0
  /\ txn = [q \in Requests |-> "none"]
  /\ rows = {}
  /\ trail = << >>
  /\ auditId = [q \in Requests |-> 0]
  /\ nextId = 1
  /\ memory = << >>
  /\ answeredBefore = [q \in Requests |-> {}]

-----------------------------------------------------------------------------
\* A process starts: create_schema reaches the database, or the container
\* falls back to an empty in-memory store.
Start(store) ==
  /\ life = "down"
  /\ life' = store
  /\ memory' = << >>
  /\ UNCHANGED <<pc, servedBy, window, stamp, latest, txn, rows, trail, auditId,
                 nextId, answeredBefore>>

\* The process dies.  An open transaction is rolled back by the server; a
\* COMMIT that was sent stays on its way.
Crash ==
  /\ life # "down"
  /\ life' = "down"
  /\ memory' = << >>
  /\ pc' = [q \in Requests |-> IF pc[q] \in Active THEN "lost" ELSE pc[q]]
  /\ txn' = [q \in Requests |-> IF txn[q] = "sent" THEN "sent" ELSE "none"]
  /\ UNCHANGED <<servedBy, window, stamp, latest, rows, trail, auditId, nextId,
                 answeredBefore>>

\* A POST reaches the endpoint and gets a thread.
Receive(q) ==
  /\ life # "down"
  /\ pc[q] = "idle"
  /\ pc' = [pc EXCEPT ![q] = "recalling"]
  /\ servedBy' = [servedBy EXCEPT ![q] = life]
  /\ answeredBefore' = [answeredBefore EXCEPT ![q] = Answered]
  /\ UNCHANGED <<life, window, stamp, latest, txn, rows, trail, auditId, nextId,
                 memory>>

\* The table recommendations, and the created_at of a row of it.
Table == rows \cup Earlier
CreatedAt(r) == IF r \in Earlier THEN 0 ELSE stamp[r]

\* Bug: the LIMIT comes before the ORDER BY.
AnyRows(n) ==
  {W \in SUBSET Table : Cardinality(W) <= n /\ (W # Table => Cardinality(W) = n)}

\* What SELECT ... ORDER BY created_at DESC LIMIT n may return; ties are broken
\* as the server likes.
RecentRows(n) ==
  {W \in SUBSET Table :
     /\ Cardinality(W) <= n
     /\ W # Table => Cardinality(W) = n
     /\ \A r \in W, s \in Table \ W : CreatedAt(r) >= CreatedAt(s)}

\* _order[-n:] of the in-memory store.
RecentIds(n) == {memory[i] : i \in {k \in DOMAIN memory : k > Len(memory) - n}}

\* The agents up to memory, whose list_recent reads the most recent of what is
\* committed at that moment, or of what this life's store holds.
Recall(q) ==
  /\ pc[q] = "recalling"
  /\ pc' = [pc EXCEPT ![q] = "debating"]
  /\ \E W \in IF life = "postgres" THEN RecentRows(Lookback)
                                   ELSE {RecentIds(Lookback)} :
       window' = [window EXCEPT ![q] = W]
  /\ UNCHANGED <<life, servedBy, stamp, latest, txn, rows, trail, auditId,
                 nextId, memory, answeredBefore>>

\* The rest of the pipeline, and synthesis, which takes the time: the clock has
\* ticked since it was last taken, or has not.
Synthesize(q) ==
  /\ pc[q] = "debating"
  /\ pc' = [pc EXCEPT ![q] = "saving"]
  /\ latest' \in {latest, latest + 1}
  /\ stamp' = [stamp EXCEPT ![q] = latest']
  /\ UNCHANGED <<life, servedBy, window, txn, rows, trail, auditId, nextId,
                 memory, answeredBefore>>

-----------------------------------------------------------------------------
\* INSERT INTO recommendations ... ON CONFLICT DO UPDATE, not yet committed.
InsertRow(q) ==
  /\ life = "postgres"
  /\ pc[q] = "saving"
  /\ pc' = [pc EXCEPT ![q] = "committing"]
  /\ txn' = [txn EXCEPT ![q] = "open"]
  /\ UNCHANGED <<life, servedBy, window, stamp, latest, rows, trail, auditId,
                 nextId, memory, answeredBefore>>

\* INSERT INTO audit_records: nextval is drawn now and never given back.
InsertAudit(q) ==
  /\ life = "postgres"
  /\ pc[q] = "auditing"
  /\ pc' = [pc EXCEPT ![q] = "attesting"]
  /\ txn' = [txn EXCEPT ![q] = "open"]
  /\ auditId' = [auditId EXCEPT ![q] = nextId]
  /\ nextId' = nextId + 1
  /\ UNCHANGED <<life, servedBy, window, stamp, latest, rows, trail, memory,
                 answeredBefore>>

\* The with block ends: psycopg sends COMMIT.
SendCommit(q) ==
  /\ pc[q] \in {"committing", "attesting"}
  /\ txn[q] = "open"
  /\ txn' = [txn EXCEPT ![q] = "sent"]
  /\ UNCHANGED <<pc, life, servedBy, window, stamp, latest, rows, trail,
                 auditId, nextId, memory, answeredBefore>>

\* The server carries out the COMMIT of a row, whoever still waits for it.
CommitRow(q) ==
  /\ txn[q] = "sent"
  /\ auditId[q] = 0
  /\ txn' = [txn EXCEPT ![q] = "done"]
  /\ rows' = rows \cup {q}
  /\ UNCHANGED <<pc, life, servedBy, window, stamp, latest, trail, auditId,
                 nextId, memory, answeredBefore>>

\* The server carries out the COMMIT of an audit record.
CommitAudit(q) ==
  /\ txn[q] = "sent"
  /\ auditId[q] # 0
  /\ txn' = [txn EXCEPT ![q] = "done"]
  /\ trail' = Append(trail, q)
  /\ UNCHANGED <<pc, life, servedBy, window, stamp, latest, rows, auditId,
                 nextId, memory, answeredBefore>>

\* The server never gets the COMMIT, or dies before it is durable.
Drop(q) ==
  /\ txn[q] = "sent"
  /\ txn' = [txn EXCEPT ![q] = "dropped"]
  /\ UNCHANGED <<pc, life, servedBy, window, stamp, latest, rows, trail,
                 auditId, nextId, memory, answeredBefore>>

\* Where a request goes on when its current statement is committed.
Onward(q) == IF pc[q] = "committing" THEN "auditing" ELSE "responding"

\* Bug: the connection is left without waiting for the commit.
AcknowledgeEarly(q) ==
  /\ pc[q] \in {"committing", "attesting"}
  /\ txn[q] \in {"sent", "done"}
  /\ pc' = [pc EXCEPT ![q] = Onward(q)]
  /\ UNCHANGED <<life, servedBy, window, stamp, latest, txn, rows, trail,
                 auditId, nextId, memory, answeredBefore>>

\* The client learns that its COMMIT was carried out.
Acknowledge(q) ==
  /\ pc[q] \in {"committing", "attesting"}
  /\ txn[q] = "done"
  /\ pc' = [pc EXCEPT ![q] = Onward(q)]
  /\ txn' = [txn EXCEPT ![q] = "none"]
  /\ UNCHANGED <<life, servedBy, window, stamp, latest, rows, trail, auditId,
                 nextId, memory, answeredBefore>>

\* The client learns that it was not: save or append raises PostgresError.
CommitRaises(q) ==
  /\ pc[q] \in {"committing", "attesting"}
  /\ txn[q] = "dropped"
  /\ pc' = [pc EXCEPT ![q] = "failed"]
  /\ txn' = [txn EXCEPT ![q] = "none"]
  /\ UNCHANGED <<life, servedBy, window, stamp, latest, rows, trail, auditId,
                 nextId, memory, answeredBefore>>

\* save and append of the in-memory store.
SaveToMemory(q) ==
  /\ life = "memory"
  /\ pc[q] = "saving"
  /\ pc' = [pc EXCEPT ![q] = "auditing"]
  /\ memory' = Append(memory, q)
  /\ UNCHANGED <<life, servedBy, window, stamp, latest, txn, rows, trail,
                 auditId, nextId, answeredBefore>>

AuditToMemory(q) ==
  /\ life = "memory"
  /\ pc[q] = "auditing"
  /\ pc' = [pc EXCEPT ![q] = "responding"]
  /\ UNCHANGED <<life, servedBy, window, stamp, latest, txn, rows, trail,
                 auditId, nextId, memory, answeredBefore>>

Respond(q) ==
  /\ pc[q] = "responding"
  /\ pc' = [pc EXCEPT ![q] = "answered"]
  /\ UNCHANGED <<life, servedBy, window, stamp, latest, txn, rows, trail,
                 auditId, nextId, memory, answeredBefore>>

\* A feed, the model, the database or the rendering raises, or the connection
\* breaks while the client waits for its COMMIT: the client gets a 500.  An open
\* transaction is rolled back; what was sent or carried out stays.
Abort(q) ==
  /\ pc[q] \in Active
  /\ pc' = [pc EXCEPT ![q] = "failed"]
  /\ txn' = [txn EXCEPT ![q] = IF @ = "sent" THEN "sent" ELSE "none"]
  /\ UNCHANGED <<life, servedBy, window, stamp, latest, rows, trail, auditId,
                 nextId, memory, answeredBefore>>

-----------------------------------------------------------------------------
Client(q) ==
  \/ Recall(q) \/ Synthesize(q) \/ InsertRow(q) \/ InsertAudit(q)
  \/ SendCommit(q) \/ Acknowledge(q) \/ CommitRaises(q) \/ SaveToMemory(q)
  \/ AuditToMemory(q) \/ Respond(q)

Server(q) == CommitRow(q) \/ CommitAudit(q) \/ Drop(q)

\* Everything but the arrival of requests.
Work ==
  \/ \E store \in Stores : Start(store)
  \/ Crash
  \/ \E q \in Requests : Client(q) \/ Server(q) \/ Abort(q)

Next == Work \/ \E q \in Requests : Receive(q)

Spec == Init /\ [][Next]_serverVars

-----------------------------------------------------------------------------
TypeOK ==
  /\ pc \in [Requests -> {"idle"} \cup Active \cup Ended]
  /\ life \in {"down"} \cup Stores
  /\ servedBy \in [Requests -> {"none"} \cup Stores]
  /\ window \in [Requests -> SUBSET (Requests \cup Earlier)]
  /\ stamp \in [Requests -> Nat]
  /\ latest \in Nat
  /\ txn \in [Requests -> {"none", "open", "sent", "done", "dropped"}]
  /\ rows \subseteq Requests
  /\ trail \in Seq(Requests)
  /\ auditId \in [Requests -> Nat]
  /\ nextId \in Nat \ {0}
  /\ memory \in Seq(Requests)
  /\ answeredBefore \in [Requests -> SUBSET Requests]

PastRecall(q) == pc[q] \in {"debating", "saving", "committing", "auditing", "attesting",
                            "responding", "answered"}

\* Bug: ORDER BY id DESC.
BeforeDescending(q, s) == auditId[q] > auditId[s]

\* What all() returns puts the record of q before that of s: ORDER BY id ASC.
Before(q, s) == auditId[q] < auditId[s]

\* The trail as all() reads it respects real time, although ids are drawn before
\* records are committed and commits overtake each other: a recommendation
\* answered from the database before another was asked for is audited before it,
\* whatever lives of the process lie between.
AuditFollowsRealTime ==
  \A q \in Requests : \A s \in answeredBefore[q] \cap DurablyAnswered :
    /\ s \in Audited
    /\ q \in Audited => Before(s, q)

\* A life that runs on the in-memory store interrupts the history but does not
\* damage it: a request that is served from the database has read what is in the
\* database, and every recommendation that was answered from it before the
\* request arrived, unless Lookback rows at least as recent took its place.
HistorySurvivesFallback ==
  \A q \in Requests :
    servedBy[q] = "postgres" /\ PastRecall(q) =>
      /\ window[q] \subseteq Table
      /\ \A s \in answeredBefore[q] \cap DurablyAnswered :
           \/ s \in window[q]
           \/ /\ Cardinality(window[q]) = Lookback
              /\ \A r \in window[q] : CreatedAt(r) >= CreatedAt(s)

\* The service implements the ledger over all lives of the process: what was
\* answered from the database is in it with its one audit record, commits that
\* arrive late add to it and no life takes anything back.
Ledger == INSTANCE ResearchLedger
            WITH Ids <- Requests, Instruments <- {"some"}, Times <- {0},
                 ledger <- [q \in rows |-> [instrument |-> "some", generatedAt |-> 0]],
                 trail <- [i \in DOMAIN trail |-> [id |-> trail[i], instrument |-> "some"]],
                 delivered <- DurablyAnswered
LedgerSpec == Ledger!Spec
=============================================================================

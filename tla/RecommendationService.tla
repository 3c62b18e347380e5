----------------------- MODULE RecommendationService ------------------------
(***************************************************************************)
(* Concurrent POST /api/v1/recommendations requests against the durable    *)
(* (DuckDB) store.  FastAPI runs the synchronous endpoint on a thread per  *)
(* request; all threads share the container's two repositories, each of    *)
(* whose operations is one SQL statement behind the connection's lock      *)
(* (DuckDbStore models that lock).  A thread                               *)
(*                                                                         *)
(*   researching  gathers market data and runs the agents before memory    *)
(*   recalling    reads list_recent for the memory agent                   *)
(*   debating     runs learning, risk, debate, forecast, evidence and      *)
(*                synthesises the recommendation                           *)
(*   saving       upserts the recommendation                               *)
(*   auditing     inserts the audit record                                 *)
(*   responding   returns it to the client                                 *)
(*                                                                         *)
(* and any call on the way may raise (500).  The process may crash and     *)
(* start again between any two steps; the tables survive.                  *)
(* The id of a recommendation is a fresh uuid, so it is identified with    *)
(* the request that produces it.                                           *)
(***************************************************************************)
EXTENDS Naturals, Sequences, FiniteSets

CONSTANTS Requests,     \* POSTs, each made at most once
          Instruments,  \* instruments a client may ask about
          Lookback,     \* rows the memory agent reads (200 in the code)
          MaxClock      \* bound on the wall clock, for model checking

ASSUME LookbackAssumption == Lookback \in Nat \ {0}
ASSUME MaxClockAssumption == MaxClock \in Nat

VARIABLES
  pc,               \* where the thread of each request is
  asked,            \* the instrument each request asks about
  window,           \* the rows list_recent returned to each request
  stamp,            \* governance.generated_at of each request's recommendation
  recommendations,  \* table recommendations: row by id
  auditRecords,     \* table audit_records, in seq order
  clock,            \* wall clock
  up,               \* the server process is running
  answeredBefore    \* history: requests already answered when this one arrived

vars == <<pc, asked, window, stamp, recommendations, auditRecords, clock, up,
          answeredBefore>>

Active == {"researching", "recalling", "debating", "saving", "auditing",
           "responding"}
Ended  == {"answered", "failed", "lost"}

Times == 0..MaxClock
Row == [instrument : Instruments, generatedAt : Times]
AuditRecord == [id : Requests, instrument : Instruments]

Saved    == DOMAIN recommendations
Audited  == {auditRecords[i].id : i \in DOMAIN auditRecords}
Answered == {q \in Requests : pc[q] = "answered"}

Init ==
  /\ pc = [q \in Requests |-> "idle"]
  /\ asked \in [Requests -> Instruments]
  /\ window = [q \in Requests |-> {}]
  /\ stamp = [q \in Requests |-> 0]
  /\ recommendations = [q \in {} |-> 0]
  /\ auditRecords = << >>
  /\ clock = 0
  /\ up = TRUE
  /\ answeredBefore = [q \in Requests |-> {}]

-----------------------------------------------------------------------------
\* A POST reaches the endpoint and gets a thread.
Receive(q) ==
  /\ up
  /\ pc[q] = "idle"
  /\ pc' = [pc EXCEPT ![q] = "researching"]
  /\ answeredBefore' = [answeredBefore EXCEPT ![q] = Answered]
  /\ UNCHANGED <<asked, window, stamp, recommendations, auditRecords, clock, up>>

\* Bug: a row is reserved for the recommendation before memory is read.
ResearchReserves(q) ==
  /\ up
  /\ pc[q] = "researching"
  /\ pc' = [pc EXCEPT ![q] = "recalling"]
  /\ recommendations' = [r \in Saved \cup {q} |->
                           IF r = q THEN [instrument |-> asked[q], generatedAt |-> clock]
                           ELSE recommendations[r]]
  /\ UNCHANGED <<asked, window, stamp, auditRecords, clock, up, answeredBefore>>

\* Quote, candles, fundamentals, and the agents the graph runs before memory:
\* all of it local to the request.
Research(q) ==
  /\ up
  /\ pc[q] = "researching"
  /\ pc' = [pc EXCEPT ![q] = "recalling"]
  /\ UNCHANGED <<asked, window, stamp, recommendations, auditRecords, clock, up,
                 answeredBefore>>

\* Bug: ORDER BY created_at without DESC.
OldestRows(n) ==
  {W \in SUBSET Saved :
     /\ Cardinality(W) <= n
     /\ W # Saved => Cardinality(W) = n
     /\ \A r \in W, s \in Saved \ W :
          recommendations[r].generatedAt <= recommendations[s].generatedAt}

\* What list_recent(limit=n) may return: n rows (all, if there are fewer) that
\* come first in ORDER BY created_at DESC; SQL breaks ties as it likes.
RecentRows(n) ==
  {W \in SUBSET Saved :
     /\ Cardinality(W) <= n
     /\ W # Saved => Cardinality(W) = n
     /\ \A r \in W, s \in Saved \ W :
          recommendations[r].generatedAt >= recommendations[s].generatedAt}

\* The memory agent reads the most recent rows of the whole house.
Recall(q) ==
  /\ up
  /\ pc[q] = "recalling"
  /\ \E W \in RecentRows(Lookback) : window' = [window EXCEPT ![q] = W]
  /\ pc' = [pc EXCEPT ![q] = "debating"]
  /\ UNCHANGED <<asked, stamp, recommendations, auditRecords, clock, up,
                 answeredBefore>>

\* Learning, risk, debate, forecast and evidence, then synthesis: the
\* recommendation gets its uuid and its generated_at here, not when saved.
Synthesize(q) ==
  /\ up
  /\ pc[q] = "debating"
  /\ pc' = [pc EXCEPT ![q] = "saving"]
  /\ stamp' = [stamp EXCEPT ![q] = clock]
  /\ UNCHANGED <<asked, window, recommendations, auditRecords, clock, up,
                 answeredBefore>>

\* The row a request writes.
RowOf(q) == [instrument |-> asked[q], generatedAt |-> stamp[q]]

\* INSERT ... ON CONFLICT (id) DO UPDATE: one row per id.
Save(q) ==
  /\ up
  /\ pc[q] = "saving"
  /\ recommendations' = [r \in Saved \cup {q} |->
                           IF r = q THEN RowOf(q) ELSE recommendations[r]]
  /\ pc' = [pc EXCEPT ![q] = "auditing"]
  /\ UNCHANGED <<asked, window, stamp, auditRecords, clock, up, answeredBefore>>

\* Bug: a failed audit write is swallowed.
AuditSwallowed(q) ==
  /\ up
  /\ pc[q] = "auditing"
  /\ pc' = [pc EXCEPT ![q] = "responding"]
  /\ UNCHANGED <<asked, window, stamp, recommendations, auditRecords, clock, up,
                 answeredBefore>>

\* Bug: the trail is read newest first.
AuditInFront(q) ==
  /\ up
  /\ pc[q] = "auditing"
  /\ auditRecords' = <<[id |-> q, instrument |-> asked[q]]>> \o auditRecords
  /\ pc' = [pc EXCEPT ![q] = "responding"]
  /\ UNCHANGED <<asked, window, stamp, recommendations, clock, up, answeredBefore>>

\* INSERT INTO audit_records: the sequence default puts it last.
Audit(q) ==
  /\ up
  /\ pc[q] = "auditing"
  /\ auditRecords' = Append(auditRecords, [id |-> q, instrument |-> asked[q]])
  /\ pc' = [pc EXCEPT ![q] = "responding"]
  /\ UNCHANGED <<asked, window, stamp, recommendations, clock, up, answeredBefore>>

\* Bug: the answer does not wait for the audit record.
RespondEarly(q) ==
  /\ up
  /\ pc[q] \in {"auditing", "responding"}
  /\ pc' = [pc EXCEPT ![q] = "answered"]
  /\ UNCHANGED <<asked, window, stamp, recommendations, auditRecords, clock, up,
                 answeredBefore>>

\* execute returns and the endpoint answers 201.
Respond(q) ==
  /\ up
  /\ pc[q] = "responding"
  /\ pc' = [pc EXCEPT ![q] = "answered"]
  /\ UNCHANGED <<asked, window, stamp, recommendations, auditRecords, clock, up,
                 answeredBefore>>

\* Bug: a request that fails removes the row it saved.
AbortUndoes(q) ==
  /\ up
  /\ pc[q] \in Active
  /\ pc' = [pc EXCEPT ![q] = "failed"]
  /\ recommendations' = [r \in Saved \ {q} |-> recommendations[r]]
  /\ UNCHANGED <<asked, window, stamp, auditRecords, clock, up, answeredBefore>>

\* A feed, the language model, the store or the rendering of the response
\* raises: nothing catches it between execute and the framework, so the client
\* gets a 500.  A statement that raised wrote nothing; what earlier statements
\* wrote stays.
Abort(q) ==
  /\ up
  /\ pc[q] \in Active
  /\ pc' = [pc EXCEPT ![q] = "failed"]
  /\ UNCHANGED <<asked, window, stamp, recommendations, auditRecords, clock, up,
                 answeredBefore>>

-----------------------------------------------------------------------------
\* The process dies with every thread in it.
Crash ==
  /\ up
  /\ up' = FALSE
  /\ pc' = [q \in Requests |-> IF pc[q] \in Active THEN "lost" ELSE pc[q]]
  /\ UNCHANGED <<asked, window, stamp, recommendations, auditRecords, clock,
                 answeredBefore>>

\* A new Container opens the same DuckDB file; CREATE ... IF NOT EXISTS.
Restart ==
  /\ ~up
  /\ up' = TRUE
  /\ UNCHANGED <<pc, asked, window, stamp, recommendations, auditRecords, clock,
                 answeredBefore>>

Tick ==
  /\ clock < MaxClock
  /\ clock' = clock + 1
  /\ UNCHANGED <<pc, asked, window, stamp, recommendations, auditRecords, up,
                 answeredBefore>>

\* The call the thread that serves q is in returns.
Step(q) ==
  \/ Research(q) \/ Recall(q) \/ Synthesize(q) \/ Save(q) \/ Audit(q)
  \/ Respond(q)

Next ==
  \/ \E q \in Requests : Receive(q) \/ Step(q) \/ Abort(q)
  \/ Crash \/ Restart \/ Tick

Spec == Init /\ [][Next]_vars

-----------------------------------------------------------------------------
PastRecall(q) == pc[q] \in {"debating", "saving", "auditing", "responding", "answered"}

\* What the memory agent keeps of the rows it read: those of its instrument.
History(q) == {r \in window[q] : recommendations[r].instrument = asked[q]}

\* The memory agent reports "This is the first recorded look at this instrument."
FirstLook(q) == PastRecall(q) /\ History(q) = {}

\* Where a recommendation stands in the audit trail.
Position(q) == CHOOSE i \in DOMAIN auditRecords : auditRecords[i].id = q

TypeOK ==
  /\ pc \in [Requests -> {"idle"} \cup Active \cup Ended]
  /\ asked \in [Requests -> Instruments]
  /\ window \in [Requests -> SUBSET Requests]
  /\ stamp \in [Requests -> Times]
  /\ Saved \subseteq Requests
  /\ recommendations \in [Saved -> Row]
  /\ auditRecords \in Seq(AuditRecord)
  /\ clock \in Times
  /\ up \in BOOLEAN
  /\ answeredBefore \in [Requests -> SUBSET Requests]

\* A client that holds a 201 holds a recommendation that is stored as it was
\* synthesised and has exactly one audit record, which names its instrument;
\* restarts do not change that.
AnsweredIsOnRecord ==
  \A q \in Answered :
    /\ q \in Saved
    /\ recommendations[q] = RowOf(q)
    /\ \E i \in DOMAIN auditRecords :
         /\ auditRecords[i] = [id |-> q, instrument |-> recommendations[q].instrument]
         /\ \A j \in DOMAIN auditRecords : auditRecords[j].id = q => j = i

\* The audit trail never speaks of a recommendation that is not stored, or
\* misnames its instrument, whatever failed or crashed in between.
AuditIsSound ==
  \A i \in DOMAIN auditRecords :
    /\ auditRecords[i].id \in Saved
    /\ recommendations[auditRecords[i].id].instrument = auditRecords[i].instrument

\* The trail respects real time: a recommendation answered before another was
\* even asked for is audited before it, whatever else ran concurrently.
AuditFollowsRealTime ==
  \A q \in Requests : \A s \in answeredBefore[q] :
    /\ s \in Audited
    /\ q \in Audited => Position(s) < Position(q)

\* Memory has no cycles: no two recommendations each count the other as a
\* prior look, and none counts one generated after it.
MemoryIsCausal ==
  \A q \in Requests : \A r \in window[q] :
    /\ q \notin window[r]
    /\ q \in Saved => recommendations[r].generatedAt <= recommendations[q].generatedAt

\* A prior look answered before the request arrived is in its history, unless
\* Lookback rows at least as recent, of any instruments, took its place.
AnsweredIsRemembered ==
  \A q \in Requests : \A s \in answeredBefore[q] :
    PastRecall(q) /\ asked[s] = asked[q] =>
      \/ s \in History(q)
      \/ /\ Cardinality(window[q]) = Lookback
         /\ \A r \in window[q] :
              recommendations[r].generatedAt >= recommendations[s].generatedAt

\* Nothing recorded is taken back or rewritten, by any step, crash or restart:
\* rows keep their content and the audit trail only grows at its end.
NothingTakenBack ==
  [][/\ \A r \in Saved : r \in DOMAIN recommendations'
                         /\ recommendations'[r] = recommendations[r]
     /\ Len(auditRecords') >= Len(auditRecords)
     /\ \A i \in DOMAIN auditRecords : auditRecords'[i] = auditRecords[i]]_vars

\* A row without an audit record is the mark of a request that raised or died
\* between the two statements; as long as the request lives, the gap is its own.
OrphansAreUnanswered ==
  \A r \in Saved \ Audited : pc[r] \in {"auditing", "failed", "lost"}

\* The service implements the ledger.
Ledger == INSTANCE ResearchLedger
            WITH Ids <- Requests, ledger <- recommendations,
                 trail <- auditRecords, delivered <- Answered
LedgerSpec == Ledger!Spec

-----------------------------------------------------------------------------
\* A claim of the code that it does not keep.

\* memory_agent.py:129: "This is the first recorded look at this instrument."
FirstLookIsFirst ==
  \A q \in Requests : FirstLook(q) =>
    \A s \in answeredBefore[q] : asked[s] # asked[q]
=============================================================================

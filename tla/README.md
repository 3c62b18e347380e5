# Atlas AI: verification models

TLA+ modules, TLC configurations and TLAPS proofs for Project Atlas AI, a
FastAPI service that answers `POST /api/v1/recommendations` by running a
pipeline of analysis agents over market data, persisting the recommendation and
appending an audit record. Paths below are relative to `src/atlas_ai/` of the
repository unless they start with `docs/` or `README.md`.

Run a check with `tlc -config <run>.cfg <module>.tla` and the proofs with
`tlapm <module>.tla` for each of the seven `*_proofs` modules. `PROJECT.json` maps
every definition to the lines it stands for.

## The system

| Component | State | Operations | Talks to |
|---|---|---|---|
| Endpoint `api/routes/recommendations.py` | none | POST creates, GET reads one | use case, repository |
| Use case `generate_recommendation.py` | none; one thread per request | gather, run pipeline, synthesise, save, append audit | ports, pipeline, both repositories |
| Pipeline and graph | the request's `AgentContext` | ten agents in order, then risk, debate, forecast, evidence | agents, LLM, repository (memory agent) |
| Memory agent | none | reads the 200 most recent rows, keeps those of its instrument | repository |
| DuckDB repositories | one connection with one pending result, a lock, two tables | save, get, list_recent; append, for_recommendation, all | a file |
| PostgreSQL repositories | two tables, an id sequence; a connection per call | the same, each in a transaction of its own | a database server |
| In-memory repositories | a dict and two lists, unlocked | the same | nothing |
| Serialization and domain objects | none | payload of a recommendation and back; constructors that refuse | repositories |
| Container | the bound adapters, three flags | one builder per port, then the orchestrator | settings, environment |
| Orchestrator | data basis, readiness notes | `status()` | built from settings and flags |
| Market, macro, news, options, fundamentals, broker adapters | HTTP client, `_today`, token cache, cookies | get_* | the network |
| LLM adapters | SDK client | complete | the network |
| Trend use cases | none | weekly trend, all indices | market data |
| Console `api/static/app.js` | the form, a result, a status line, panels | submit, show, report an error; load fleet, load trends | the API |

The container builds everything once; all requests share the adapters and the
two repositories. The endpoint is a plain `def`, so FastAPI runs each request on
a thread of its pool: the repositories are the one place where requests meet,
the memory agent is how one request sees another, and nothing between `execute`
and the framework catches an exception.

What is hard about it, and what would make each part right:

- **Two writes, no transaction.** `save` and `append` are separate statements.
  Whatever fails or dies in between, an answered request must have both, the
  trail must not name what is not stored, and nothing recorded may vanish.
- **Commits out of the client's hands.** On PostgreSQL a COMMIT that was sent may
  be carried out after its request failed or its process died, and audit ids are
  drawn before the commit; the order the trail is read in must still respect real
  time.
- **Requests that overlap.** Memory reads, stamps (`generated_at`), saves and
  audits of several requests interleave. Memory must not have cycles, the trail
  must respect the order of requests that do not overlap, and a prior look must
  be remembered unless the limit pushed it out.
- **The unlocked in-memory store.** `save` is two steps and `list_recent` many.
- **The shared DuckDB connection.** It has one pending result; the lock has to
  cover `execute` and `fetchall`, and to be released when either raises.
- **Degraded starts.** Some builders fall back, others raise, a life may run on the
  in-memory store between two on the database, and the status report is derived
  from settings and flags instead of from what was bound.
- **Feeds that may be missing.** Some adapters swallow a failure, others raise;
  a swallowed one must not speak, and nothing that can fail should come after the
  paid model calls without need.
- **Two readers of the reports.** The debate and the evidence select from them
  independently, and risk joins them late.
- **An answer that does not arrive.** The page gives up, or is reloaded, while the
  service goes on; the user asks again. What is on display must be true, a late
  answer must not replace a newer one, and the form must come back.
- **Objects written and read elsewhere.** What a constructor refuses on reading
  fails every later request, and the page builds its two sides from two fields.
- **Days that pass.** The market adapters take their construction's day for today.
- **Boundaries.** Sizing, weights, max pain, the backtest's windows, recency,
  sentiment and the thresholds of the call are short formulas with clamps and
  off-by-one traps.

`PROJECT.json` lists the hazards line by line with the properties aimed at them.

## Modules

| Module | Models | Run or proof |
|---|---|---|
| `ResearchLedger` | what a client is promised: publish, attest, deliver | the abstract side of three refinements |
| `RecommendationService` | concurrent requests on the DuckDB file, with failures, crashes and restarts | `Service*` |
| `InMemoryStore` | the same requests on the unlocked in-memory store, step by step | `InMemory*` |
| `PostgresService` | the same requests on PostgreSQL over many lives of the process | through `Console` |
| `Console` | the page in front of `PostgresService` | `Console` |
| `AtomicTables` | linearizable tables | the abstract side of `DuckDb` |
| `DuckDbStore` | threads, lock, connection and pending result | `DuckDb` |
| `Container` | composition root and status report | `Container*` |
| `Pipeline` | one request call by call: feeds, agents, debate, evidence, writes | `Pipeline*` |
| `AnalystRules` | what the analysts compute, as operators over exact numbers | used by `Analysts` |
| `TrendRules` | candle windows, the direction of a week, many indices | used by `Analysts` |
| `RecordRules` | synthesis, constructors, payload, response and page of a recommendation | used by `Analysts` |
| `Analysts` | one call of one of these rules on bounded inputs | `Analysts`, `StaleWeek` |
| `Lists` | a comprehension with a condition | used by `TrendRules`, `RecordRules` |
| `MCRecommendationService` | a symmetry set for TLC | `Service*` |
| `RecommendationService_proofs`, `InMemoryStore_proofs`, `Console_proofs`, `DuckDbStore_proofs`, `Container_proofs`, `Pipeline_proofs`, `Analysts_proofs` | theorems about the module they extend (`Console_proofs` about `PostgresService` too) | TLAPS |
| `OperatorTheorems` | lemmas about sums, minima, maxima, folds and lists, for `Analysts_proofs` | TLAPS |

Composition:

- `RecommendationService`, `InMemoryStore` and `PostgresService` each implement
  `ResearchLedger` (`LedgerSpec`), whatever the store.
- `DuckDbStore` implements `AtomicTables`: that is why a statement is one step in
  `RecommendationService`.
- `Pipeline` is one request of `RecommendationService` seen closely (`ServiceSpec`).
- `Console` extends `PostgresService`: every action of the service is one of
  `Console`, and the page adds its own.
- `Container` decides at each start which store a life has; `PostgresService` takes
  that decision as the choice in `Start`.

`MCRecommendationService` adds nothing but symmetry; every other run uses the
component's own module. Operators under a comment that begins with "Bug:" are mutated forms
of the definition below them; no specification uses them. They document, for
each property, a change of the code that the property would catch.

### RecommendationService

A request is at `pc[q]`: `researching` (quote, candles, fundamentals and the
agents before memory), `recalling` (`list_recent`), `debating` (learning, risk,
debate, forecast, evidence, and synthesis at its end), `saving`, `auditing`,
`responding`. `Recall` takes any set of `Lookback` rows that comes first in
`ORDER BY created_at DESC`: SQL does not fix ties. `Synthesize` takes the stamp,
`Save` upserts the row, `Audit` appends to the trail. `Abort` is the exception of
any call: it ends the request and leaves the tables alone, since a statement that
raised wrote nothing. `Crash` loses all threads, `Restart` opens the same file
again. The id is a fresh uuid, so rows are indexed by the request that makes
them. A statement is one step: `DuckDbStore` justifies that. The clock ticks
independently.

Abstracted: what the agents compute, the content of a recommendation beyond its
instrument and its stamp, the content of an audit record beyond id and
instrument. The clock does not go backwards (as `datetime.now(UTC)` may when the
host's clock is set); `MemoryIsCausal` depends on that in its second conjunct.

### InMemoryStore

`save` is `Enlist` (`_order.append`) and `Place` (`_store[id] = ...`);
`list_recent` is `Slice` (`_order[-n:][::-1]`), then one `Look` per id, then
`Listed`; a missing key is `LookRaises`. `append` is one list append. Ids are
fresh, so the membership test of `save` always succeeds here; the model keeps it.
One behaviour is one life of the process: the store does not survive it.

### PostgresService

Each call of a repository is a connection, a statement and a COMMIT sent when the
`with` block ends. `txn[q]` is the transaction of the request's current statement:
`open` from the insert to `SendCommit`, then `sent` until the server carries it out
(`CommitRow`, `CommitAudit`: `done`) or does not (`Drop`: `dropped`), and the client
learns of it (`Acknowledge`, `CommitRaises`) or gives up (`Abort`, `Crash`). What was
sent stays on its way whoever is still there: a row or an audit record may appear
after its request failed or its process died. `auditId` is the `BIGSERIAL` value
the insert drew, before its commit, from `nextId`, which never goes back; `all()`
reads the trail in its order. `life` is the store of the running process: `Start`
picks the database or, when it cannot be reached, an empty in-memory store
(`_build_persistence`), which lasts as long as the life. In-memory saves are one
step here; `InMemoryStore` has them in detail.

`Recall` is the memory agent's `list_recent`: on the database any `Lookback` rows that
come first in `ORDER BY created_at DESC` (`RecentRows`: ties are broken as the server
likes), on the in-memory store the last `Lookback` ids saved (`RecentIds`).
`created_at` is the stamp `Synthesize` took, on a clock that stands still or ticks but
does not go back; `Earlier` are rows that the table held before the first of these
lives, older than any of theirs. Instruments are left out (`RecommendationService` has
them). A statement other than a commit is one step, as PostgreSQL's own isolation
provides.

### Console

`Submit` is the handler of the form up to its `await`, `Show` and `Reject` are the
two ways it goes on, each with the `finally` that enables the form; `Reload` is the
browser's. `result` and `status` are what `#result` and `#research-status` show;
the earlier result stays while a submission runs. A fetch may be rejected wherever
the request is, answered included. `SubmitInVain` is a submission no process hears.
`shown` and `abandoned` are history. The handler of `Show` hides the status line
before it renders; rendering is part of `Show` and does not fail.

### DuckDbStore

`Invoke` picks one of the calls: save, append, and the two queries that read a
whole table (`get` and `for_recommendation` are queries with a WHERE clause and
take the same steps). `Acquire` and `Leave` are the two ends of the `with` block,
`ExecuteQuery` leaves its result pending on the connection, `Fetch` takes it,
`Raise` is an exception of either. Every `execute` replaces the pending result,
as DuckDB's shared connection does. The rows are ids only.

### Container

One action per builder, in the order of `__init__`; `boot` names the builder
that runs next. `settings` is what the environment variables say and stays for
all lives of the process; `env` is what packages, credentials, files and
databases offer and may change with each start. `isReal` are the three flags
the builders set (`_broker_is_real` before the constructor that may raise).
`Basis` and `Notes` transcribe how the orchestrator's report is derived;
`ServeStatus` is `Orchestrator.status()`. The three key-less feed builders are one
action (`BuildFeeds`): they cannot fail.

### Pipeline

`stage` is the position in `Stages`, the calls of `execute` and `ResearchPipeline.run`
in their order; `Gathering`, `Agents` and `Debate` are the sets of calls that gather
data, file reports and call the model. A report is `[agent, views]`, `views` the
directions of its signals. `outage` remembers feeds whose adapter swallowed a failure
(`NewsOut`, `OptionsOut`); `Raise` is an exception of any call that nothing shields,
and `NewsUnsortable` one of the news agent itself. `points` is what the debate gives
to the bull and the bear, `evidence` what is kept, both by agent and direction.
Strengths within a direction, weights, scores and texts are left out, and so is
the stand-in evidence for an empty list: `Risk` always contributes a bullish
signal, since the target is set two stop distances away and `_report` calls 2.0
constructive. `quant` and `behavioral` may raise because they divide by an
earlier close.

### AnalystRules, TrendRules, RecordRules and Analysts

Prices and capital are in ticks of 0.01; ratios are a numerator and a
denominator compared with thresholds in percent; stances and sentiments are in
halves; recency weights are powers of 4 and 5. The code computes in floating
point, so a ratio that meets a threshold to the last bit may be graded
differently. `SmaPeriod`, `Horizon`, `RecentWindow` and `PageLimit` are 20, 5, 3
and 8 in the code. `SectorOf` is an excerpt of the table, with its bucket `OTHER`.

`TrendRules` counts days from a Monday; `Window` is what both market adapters ask
for, ending on the day the adapter takes for today, `Today`: the one it was built
on. `Candles` takes a feed that has a candle for every weekday that is no holiday.
For the trends of many indices a feed's answer is a list of days, one a row, and a
partial function with the close of some of the rows, or it raises. `Bars` is `_candles`
and the cut of `get_candles`: rows without a close are skipped, and the last `sessions`
of the others are handed on, each with its own day. `Trend` is `GetWeeklyTrend` on
these, `Fails` when it raises, `IndexTrends` the loop that isolates failures.

`RecordRules` follows a recommendation from `Synthesize` (`_synthesize` with the
evidence agent's `Evidence` and `CounterArguments` and `_classify_action`) through
`ToDict` and `FromDict` to `Response` and `Page`. A value object or an enum member
is `[kind, value]`, and `Accepts` and `Valid` say what constructors refuse. Fields
that are copied as they are (names, texts, prices, versions) are represented by one
or two of each class; a time keeps its zone through its ISO form.

`Analysts` has one action per analyst, endpoint or chain of rules; its properties
restate results independently (largest affordable quantity, least owed at any
price) or compare them with the result for a neighbouring input.

## Runs

| Run | Instance | Shows |
|---|---|---|
| `ServiceSafety` | 3 requests, 2 instruments, lookback 1, clock 0..2 | what clients, trail and memory may rely on; the service implements `ResearchLedger` |
| `ServiceFirstLook` | violation | a "first look" that is not one |
| `InMemory` | 3 requests, 2 instruments, lookback 2 | order, rows and listings agree; ledger |
| `InMemoryKeyError` | violation | a listing raises between the steps of a save |
| `Console` | 2 requests, an earlier row, lookback 1, any crashes, reloads and lives | page, store and trail agree; ledger; the form comes back |
| `DuckDb` | 3 threads, 2 calls each | the connection is serial, calls are linearizable and return |
| `ContainerBoot` | all settings and environments | the status describes what was bound; the default sources come up |
| `ContainerHonest` | violation | "All agents live on real data." over mocks |
| `Pipeline` | one request, reports bullish or bearish, any failure | evidence is what was argued, outages have no say, model calls last, refinement of the service |
| `PipelineNews` | violation | the news agent fails a request |
| `Analysts` | windows 2, 1 and 2, two claims to a side; see below | the rules against reference definitions and neighbouring inputs |
| `StaleWeek` | violation | a week that ended when the server was started |

Why the bounds are enough for what is checked. `AnsweredIsRemembered` and
`FirstLookIsFirst` need one answered look, one look at something else, and a
third request whose window the second fills: three requests, two instruments and
`Lookback = 1` are the smallest instance where the window overflows, and two
ticks let stamps differ on both sides. Cycles of memory need two requests, audit
order two. `InMemory` needs a lister with two ids in its slice, one of which is
between the steps of its save: three requests, lookback 2. What `Console` can get
wrong needs two requests: the late commit of one against the insert or the answer
of the other, the late answer of one against the result of the other, a retry after
an abandoned one; lives and crashes are not bounded. With the earlier row and
`Lookback = 1` the table overflows the window at the first commit, and a second row
with the same stamp may take the place of an answered one. Three requests are too many
for TLC, and the theorems hold for any number. In `DuckDbStore` two
threads make the hazard (an execute between another's execute and fetchall) and
the third waits on the lock; two calls let a thread come back after a raise.
`MaxClock` and `MaxCalls` are bounds for model checking only; the theorems hold
for all their values. Container is finite as it is: settings, environments and
builders are all of the code's.
`Pipeline` gives every report of the graph one direction (`Views`), and the risk
report both; the properties treat directions alike, so a report with both adds
nothing that two reports do not, and the theorems hold for any `Views`.

In `Analysts`, prices from one tick to seven
rupees with and without candles reach both clamps and the limit by capital; books
of three holdings in three sectors, some of them worth nothing, put duplicates, a
candidate and a crowd side by side; three strikes, each listed or not on either side, put the least pain at any
of them; seven days hold every pattern of a two-day average and a one-day trade;
four looks and three headlines overflow the recent window. The candle window is
tried on every day of the week, on the day of its adapter's construction and up to
three days later, with spans up to the 260 days a request asks for and
up to five holidays among the last seven days, where a short span has least to
spare; three indices in two groups hold every pattern of failures. Each feed has three
rows, a weekend between the last two, and a close in any of them or in none: every
gap that can shift closes against days, shorten a week below the one or two sessions
asked for, or make two indices cover different days. The closes move by just half a
percent or a tick more. Outlooks lie on both sides of every threshold of the call, and
up to three signals of every strength from each of two agents fill a side of two
claims and more.

Symmetry is used over requests and instruments in the two runs of the service, which
check no liveness; the ledger does not tell requests or instruments apart. Deadlock
checking is off where requests or calls are used up and the system rightly stops;
the runs of the service and the console keep it on (a process can always crash or
start again).

### Properties

- Service: `AnsweredIsOnRecord`, `AuditFollowsRealTime`, `MemoryIsCausal`,
  `AnsweredIsRemembered`, `OrphansAreUnanswered` (invariants), `LedgerSpec`
  (refinement). `NothingTakenBack` and `AuditIsSound` follow and are proved only.
- In-memory store: `OrderMatchesStore`, `ListingIsComplete`, `LedgerSpec`.
- PostgreSQL and console: `AuditFollowsRealTime`, `HistorySurvivesFallback`,
  `DisplayIsTrue`, `StoredIsExplained`, `OldNeverReplacesNew` (a property of every
  step), `LedgerSpec`, `FormComesBack` (liveness).
- DuckDB: `ConnectionIsSerial`, `AtomicSpec` (refinement), `CallsReturn` (liveness).
- Container: `BasisIsBinding`, `ReportIsTrue`, `KeylessBootServes` (liveness).
- Pipeline: `OutagesDegrade`, `EvidenceWasArgued`, `StoredIsSupported`,
  `NarrativeIsLast`, `ServiceSpec` (refinement).
- Analysts: `PlanIsLargestAffordable`, `CrowdingNeverHelps`, `MaxPainIsGlobal`,
  `BacktestIsCausal`, `RecencyCounts`, `NewsIsEvenHanded`; days:
  `SessionsAreComplete`, `TrendsAreIsolated`, `TrendsAreDated`; records:
  `StoredReadsBack`, `PageIsTwoSided`, `CallFollowsOutlook`.

Each is stated in words above its definition. The type invariants are proved
(`TypeCorrect`, and `PageInv` for the console) and are not properties of runs.

### Where code and claims disagree

1. `ServiceFirstLook`: `memory_agent.py:129` reports a first look although an
   earlier one is stored, once 200 rows of any instruments are more recent.
2. `InMemoryKeyError`: `list_recent` of the in-memory store can raise under
   concurrent saves (`in_memory.py:22,30`).
3. `ContainerHonest`: mock macro, news or options in real mode get no readiness
   note (`container.py:243-252`), so the report may say all agents are live.
4. `PipelineNews`: `google_news.py:111` says news must never break a
   recommendation; the agent's sort (`news_agent.py:47`) raises when some
   headlines are dated with a zone and some without, after the adapter's guard.
5. `StaleWeek`: `yahoo_market_data.py:46` takes the date when the adapter is built,
   so "the last week's price trend" (`get_weekly_trend.py:1`, `trend.py:50`) of a
   server that stays up ends on the day it was started.

Seen while modelling, without a run of their own:

- `docs/DISCLAIMER.md:19-22` says every recommendation object is written to the
  audit trail; between `save` and `append` (`generate_recommendation.py:89-90`) a
  failure leaves one that is not. `OrphansAreUnanswered` shows the extent: nobody
  was handed it.
- `sectors.py:6` says callers treat each unmapped symbol as its own bucket, but the
  portfolio agent sums all of them as one sector.
- The bear's text, which may be empty, becomes the only counter-argument when no
  evidence is counter-evidence (`evidence_agent.py:72-74`); the fixed unknown risks
  say macro is not modelled (`evidence_agent.py:76`) although the macro agent has
  reported.
- A comment (`container.py:317-318`) says real mode never crashes, but both Kite
  keys set and the `kiteconnect` package missing end the start; `ContainerBoot`
  visits these starts too, and `KeylessBootServes` is the promise that holds.
- `app.js:210-211` hides the status line before it renders: should rendering raise,
  the message is written into a hidden element. `loadFleet` (`app.js:222`) reads the
  status once, so the panel keeps describing a process that has been restarted.
- Kite's window is cut at `_MAX_DAYS` (`kite_market_data.py:106`); no caller asks
  for as much.

## Fairness

- `RecommendationService`, `InMemoryStore`, `Pipeline` and `Analysts` are checked for
  safety only.
- `Console`: weak fairness of the next step of each thread (its calls return or
  raise, which the timeouts of the feeds' HTTP clients and the libraries of the model
  and the stores are trusted for; nothing checks it), of the fate of a COMMIT that was sent (it is carried out or fails), and of a
  fetch whose request has ended (it resolves or rejects). The user's actions, starts,
  crashes and failures are not fair: a process that stays down has lost its
  requests, whose fetches reject.
- `DuckDbStore`: weak fairness of the steps inside the lock (they return or
  raise) and of `Acquire`: a free lock is taken by some waiter. A
  `threading.Lock` is not fair among waiters; `CallsReturn` holds because the
  other threads' calls are bounded (`MaxCalls`), so it says that no call is
  blocked by a lock that is never released, not that contention is fair.
- `Container`: weak fairness of the builders, which wait for nothing.

## Proofs

Every theorem holds for all values of the constants under the named assumptions
of the module (`LookbackAssumption`, `EarlierAssumption`, `MaxClockAssumption`, `MaxCallsAssumption`,
`NoneAssumption`, `ViewsAssumption`, `WindowAssumption`, `PageLimitAssumption`).
Every invariant that a passing run checks is proved.

| Module | Theorem | Establishes |
|---|---|---|
| `RecommendationService_proofs` | `TypeCorrect`, `Inductive` | `TypeOK`, `IInv` |
| | `AnsweredOnRecord`, `AuditSound`, `AuditRealTime`, `MemoryCausal`, `AnsweredRemembered`, `OrphansUnanswered` | the invariants of these names |
| | `NothingIsTakenBack` | `NothingTakenBack`, a property of every step |
| | `ImplementsLedger` | `LedgerSpec` |
| `InMemoryStore_proofs` | `TypeCorrect`, `OrderAgrees`, `ListingComplete` | `TypeOK`, `OrderMatchesStore`, `ListingIsComplete` |
| | `ImplementsLedger` | `LedgerSpec` |
| `Console_proofs`, about the service | `TypeCorrect`, `AuditRealTime`, `HistorySurvives` | `TypeOK`, `AuditFollowsRealTime`, `HistorySurvivesFallback` |
| | `ImplementsLedger` | `LedgerSpec` |
| `Console_proofs`, about the page | `DisplayTrue`, `StoredExplained` | `DisplayIsTrue`, `StoredIsExplained` |
| | `NewestStands` | `OldNeverReplacesNew` |
| `DuckDbStore_proofs` | `TypeCorrect`, `Serial` | `TypeOK`, `ConnectionIsSerial` |
| | `Linearizable` | `AtomicSpec` |
| `Pipeline_proofs` | `TypeCorrect`, `Degraded`, `Argued`, `Supported`, `NarratedLast` | `TypeOK`, `OutagesDegrade`, `EvidenceWasArgued`, `StoredIsSupported`, `NarrativeIsLast` |
| | `ImplementsService` | `ServiceSpec`: the pipeline implements a request of the service |
| `Container_proofs` | `TypeCorrect`, `BasisHonest`, `ReportHonest` | `TypeOK`, `BasisIsBinding`, `ReportIsTrue` |
| | `StartsUnlessRaised` | why a start may fail, and that the default one does not |
| `Analysts_proofs` | `PlanIsSound`, `PlansAreLargestAffordable` | the plan for any price, range and capital; `PlanIsLargestAffordable` |
| | `CallIsMonotone`, `CallsFollowOutlook` | the call for any two outlooks; `CallFollowsOutlook` |
| | `BacktestIgnoresTheFuture`, `BacktestsAreCausal` | the backtest of any closes; `BacktestIsCausal` |
| | `MaxPainIsLeastAnywhere`, `MaxPainsAreGlobal` | any chain and any price; `MaxPainIsGlobal` |
| | `MirroredNews`, `TrustedNews`, `NewsAreEvenHanded` | any feed; `NewsIsEvenHanded` |
| | `WindowHoldsTheSessions`, `SessionsAreAlwaysComplete` | any day, number of sessions and holidays; `SessionsAreComplete` |
| | `HeavierIsNoBetter`, `CrowdingHelpsNever` | any book and any amount; `CrowdingNeverHelps` |
| | `RecentLooksCountMore`, `RecentCount` | any number of looks; `RecencyCounts` |
| | `IndexIsOnItsOwn`, `TrendsIsolated` | any answers; `TrendsAreIsolated` |
| | `WeeksAreDated`, `TrendsDated` | any rows of a feed, whichever lack a close; `TrendsAreDated` |
| | `DedupeKeepsEveryText`, `EvidenceIsWhatIsSaid`, `PageShowsBothSides`, `PagesAreTwoSided` | any reports; `PageIsTwoSided` |
| | `ReadsBack`, `SynthesisIsValid`, `WhatIsStoredIsWhatWasSaid`, `StoresReadBack` | any recommendation and any sound result; `StoredReadsBack` |

**RecommendationService.** The properties speak of answered requests, so none is
inductive. `IInv` says for
every control state what the request has written by then: `RowsInv` (who has a
row, and that it is the one synthesised), `TrailInv` (one record per request past
its audit, none before), `OrderInv` (what was answered before a request arrived
stands ahead of it), `MemoryInv` (what was read was stored, is not later, and has
not read its reader), `RememberInv` (a window that misses an answered row is full
of rows at least as recent). Each conjunct has a lemma with one step per action;
`Inductive` combines them, and each property follows from `IInv`. `RememberInv`
is stated over stamps rather than rows, so that it survives steps that change the
tables: the rows are immutable once written (`RowsInv`). For the refinement each
action maps to one ledger action or a stutter: `Save` to `Publish`, `Audit` to
`Attest`, `Respond` to `Deliver`; `IInv` supplies the ledger's guards (a fresh id,
a published and not yet attested row, an attested one).

**InMemoryStore.** `ListingIsComplete` compares a finished listing with an order
that has grown since the slice was taken, so the invariant must remember the
slice: `SliceInv` says there is an `n` such that the copy is the end of the first
`n` ids, `n` large enough for everything that was answered before. `LookInv` says
that what was looked up and what was not make up the copy, `PlacesInv` which
control states have enlisted, placed and audited their ids. The order only grows,
so the `n` survives every step.

**PostgresService** (in `Console_proofs`). `LivesInv` ties a thread to its life and a transaction to a
life on the database, `FlightInv` says what may be in flight in each control state
and that a statement without a commit has left no trace, `CommittedInv` what is
committed in each, `OrderInv` that ids are drawn in an order that respects real time.
The last holds although commits overtake each other because a request that was
answered drew its id before, and `nextId` only grows. `HistorySurvivesFallback` is
established by the read itself (`HistoryRead`: a row that `RecentRows` leaves out stands
behind a full window) and kept since committed rows and their stamps do not change
(`HistoryKept`). In the refinement `CommitRow`
is `Publish`, `CommitAudit` is `Attest`, `Respond` of a life on the database is
`Deliver`, and everything else, crashes included, a stutter.

**Console.** Each of its steps is a step of the service or leaves it alone
(`ConsoleStepsService`), so the service's `IInv` holds behind the page. `PageInv`
adds that at most one handler waits, just while the form is disabled, and that the
result on display was answered before the request it waits for arrived: the reason
why no late answer replaces a newer one.

**DuckDbStore.** A pending result exists only while the thread that executed its
query holds the lock and is about to fetch it, and it is what the query returns,
since nobody executes or writes in between. A write therefore takes effect at its
execute, and a query at its fetch, where the tables still are what it read.

**Pipeline.** The position in `Stages` determines everything else: which agents have
a report (`FiledInv`), that the points and the evidence are those of all reports
once they are drawn (`DrawnInv`), how many model calls were made and where a
request may have failed (`ProgressInv`); `RiskInv` and `OutageInv` say what the
reports of risk and of a feed that was out look like.
For the refinement `NextMoves` reduces every step to a
move of `stage`, `status` and `store`, each of which is an action of the service or
a stutter; `WrittenInv` ties what is stored to the stage.

**Container.** The orchestrator never looks at an adapter: it derives each agent's
basis from settings and flags. `FollowsSettings` says that every builder that has run
has bound what settings and environment call for (`ExpectedBinding`), `FlagsFollow`
when the three flags may be up, `DescribesItself` that basis, notes and report were
computed from the present settings and flags. Basis and readiness notes are then
compared with the expected bindings, port by port. `CrashHasACause` is part of the
invariant; that a default start does not fail follows.

**Analysts.** `Answered` is the inductive invariant: the input is one of `Inputs`, and
a result is what its rule makes of it. Each property is then a fact about a rule,
stated first for every input of its kind, beyond the bounded ones of the run:

- *Sizing.* `FloorDivision` gives the two bounds of a quotient; the smaller of the
  quotients by risk and by price is within both limits and one more is not
  (`QuantityIsLargest`); the clamps keep the stop in `1..entry`.
- *Max pain.* What buyers are owed is straight at a price that is no strike
  (`StraightBetweenStrikes`), and such a function is nowhere less than at some strike
  of the range (`LeastAtAStrike`); beyond the outermost strikes moving inwards never
  costs more (`LessPainInside`).
- *News.* The tone counts the thresholds that the weighted mean reaches on either side
  (`ToneIs`), so it is odd in the sum of sentiments and rises with it.
- *Memory.* Exchanging two looks changes a weighted sum in two places, by the difference
  of two weights that fall with age (`RecentWeighsMore`).
- *Book.* The values of a symbol, of a sector and of the book are sums over sets of
  holdings (`HeavierValue`); a share of at most one that has reached a threshold stays
  there when the same amount is added to both (`ExposureGrows`).
- *Sessions.* `WeekdaysBefore` counts the weekdays up to a day, and `WindowIsWide` says
  that the calendar window has a seventh more of them than the sessions asked for, and
  five; that many may be holidays. `GreatestAreSoMany` and `GreatestAreUpward` are
  about the latest of a set of days.
- *Weeks.* The rows with a close keep their order (`OnlyStaysAscending`), and the bars
  are the last of them (`BarsAreRows`), so a day that is left out lies before all that
  are named, and only when as many are named as were asked for.
- *Evidence and page.* The evidence is a filtered flattening: `EvidenceIsWhatIsSaid`
  says what is in it, and a side of the page is the beginning of a filter of it,
  as long as the page allows (`FirstOfSome`). Two things are assumed that the page needs: no claim is made in
  both directions, and the bear's thesis is not a claim of a bullish signal. They
  hold for the run's reports (`Numbered`); in the code a claim carries the name, the
  detail and the value of its signal (`evidence_agent.py:57`). Without the first a
  claim stands on both sides.
- *Records.* `ReadsBack` follows the nesting: each converter is undone by its
  counterpart on values of its kind, and a sequence is undone element by element.
  `Sound` says what the pipeline hands over (values in their ranges, reports with an
  assumption), and `SynthesisIsValid` that no constructor refuses what is made of it;
  that its assumptions survive deduplication is `DedupeKeepsEveryText`.

`OperatorTheorems` has what these need about the community modules' folds. The
library's induction theorems take an operator as a parameter, which the provers cannot
instantiate; `NatSetInduction` and `FiniteSetInduction` state the same for a *set* of
numbers or of subsets, and follow from well-foundedness. From them: a sum over a set
exists, is unique and can be taken apart element by element (`SumUnfolds`,
`SumTakesOut`), a left fold is a recursive function (`LeftFoldExists`), and so are
`Only` (`OnlyKeeps`, `OnlySplits`) and flattening (`FlattenKeeps`). Sums are therefore
written `SumFunction`, filters `Only` and powers `Power` in the models: an
operator with a predicate or a recursion of its own could not be reasoned about.

Only model-checked: liveness (`FormComesBack`, `CallsReturn`,
`KeylessBootServes`), which needs fairness and ENABLED, beyond the prover.

## Not modelled

Floating-point analysis (indicators, Monte Carlo, Black-Scholes), HTTP parsing
(its failure is a call that raises), prompts and texts, the health routes, the
panels of the console that only read, and its markup. `PROJECT.json` has the reason
for each component, and what is left out of those that are modelled in part.

## Plan

What would add most next, in this order:

1. The linearizable tables under the service: `RecommendationService` over the calls of
   `AtomicTables`, composed with the refinement of `DuckDbStore`.
2. `AnalystRules`: the prediction engine's blend and clamps, the greed index and
   RSI of the behavioral agent, the grading of fundamentals and macro.
3. The token cache of the Kite adapters over a process that lives for days.
4. The panels of the console that read the status and the trends.

Runs are merged where two instances can answer one question, so that new modules
do not add runs for their own sake.

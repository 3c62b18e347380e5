------------------------------ MODULE Container -----------------------------
(***************************************************************************)
(* The composition root: Container.__init__ binds every port to an adapter *)
(* from the settings and from what the environment offers (packages,       *)
(* files, a database), in the order of the code.  Some builders fall back  *)
(* to a mock or to the in-memory store, others raise and the process does  *)
(* not start.  The orchestrator it builds last reports which agent runs on *)
(* which data; GET /api/v1/status serves that report.  A stopped process   *)
(* may be started again in a changed environment.                          *)
(***************************************************************************)
EXTENDS Naturals, FiniteSets

VARIABLES
  settings,    \* Settings, read once per process (constant here)
  env,         \* what the environment offers this process
  boot,        \* the builder that runs next, "serving" or "crashed"
  bound,       \* the adapter bound to each port
  isReal,      \* the flags _broker_is_real, _llm_is_real, _persistence_is_durable
  basis,       \* the orchestrator's data_basis, by agent
  notes,       \* the orchestrator's readiness_notes, each the surfaces it names
  report       \* the last status report served

vars == <<settings, env, boot, bound, isReal, basis, notes, report>>

Ports == {"market", "fundamentals", "macro", "news", "options", "broker", "llm",
          "persistence"}
DataPorts == Ports \ {"llm", "persistence"}

\* The agents whose data_basis depends on what is bound, and the port of each.
PortOf == [fundamental |-> "fundamentals", technical |-> "market", macro |-> "macro",
           news |-> "news", options |-> "options", portfolio |-> "broker",
           memory |-> "persistence", debate |-> "llm"]
Agents == DOMAIN PortOf

\* Adapters over a live feed, marked "(real)" in a data_basis.
RealAdapters == {"yahoo", "kite", "file", "google", "nse", "anthropic"}
\* Adapters that are neither mock nor in-memory.
GenuineAdapters == RealAdapters \cup {"duckdb", "postgres"}
Adapters == GenuineAdapters \cup {"mock", "memory", "none"}

Settings ==
  [adapter_mode : {"mock", "real"},
   market_data_source : {"yahoo", "kite"},
   fundamentals_source : {"yahoo", "file", "mock"},
   macro_source : {"yahoo", "mock"},
   news_source : {"google", "mock"},
   options_source : {"nse", "mock"},
   broker_source : {"kite", "mock"},
   kite_keys : BOOLEAN,          \* kite_api_key and kite_access_token are set
   fundamentals_path : BOOLEAN,  \* ... is set
   llm_provider : {"anthropic", "mock"},
   persistence_backend : {"memory", "duckdb", "postgres"},
   database_url : BOOLEAN]       \* ... is set

Environments ==
  [kiteconnect : BOOLEAN,        \* the package is installed
   dataset : BOOLEAN,            \* fundamentals_path is a readable JSON object
   claude : BOOLEAN,             \* package and credentials are there
   store : BOOLEAN]              \* the configured store opens and takes the schema

NoReport == [cto |-> "none", live |-> 0, degraded |-> 0]

Init ==
  /\ settings \in Settings
  /\ env \in Environments
  /\ boot = "market"
  /\ bound = [p \in Ports |-> "none"]
  /\ isReal = [p \in {"broker", "llm", "persistence"} |-> FALSE]
  /\ basis = [a \in Agents |-> "none"]
  /\ notes = {}
  /\ report = NoReport

-----------------------------------------------------------------------------
\* A builder that succeeds binds its port and hands over to the next one.
Bind(port, adapter, next) ==
  /\ bound' = [bound EXCEPT ![port] = adapter]
  /\ boot' = next
  /\ UNCHANGED <<settings, env, basis, notes, report>>

\* A builder that raises ends the process: create_app has no handler.
Raise ==
  /\ boot' = "crashed"
  /\ UNCHANGED <<settings, env, bound, isReal, basis, notes, report>>

Real == settings.adapter_mode = "real"

\* adapter_mode=mock binds the six data ports at once.
BindMocks ==
  /\ boot = "market"
  /\ ~Real
  /\ bound' = [p \in Ports |-> IF p \in DataPorts THEN "mock" ELSE bound[p]]
  /\ boot' = "llm"
  /\ UNCHANGED <<settings, env, isReal, basis, notes, report>>

\* _build_market_data: KiteMarketData needs keys and the package.
BuildMarketData ==
  /\ boot = "market"
  /\ Real
  /\ \/ /\ settings.market_data_source = "yahoo"
        /\ Bind("market", "yahoo", "fundamentals")
        /\ UNCHANGED isReal
     \/ /\ settings.market_data_source = "kite"
        /\ settings.kite_keys /\ env.kiteconnect
        /\ Bind("market", "kite", "fundamentals")
        /\ UNCHANGED isReal
     \/ /\ settings.market_data_source = "kite"
        /\ ~(settings.kite_keys /\ env.kiteconnect)
        /\ Raise

\* _build_fundamentals: the file source needs a path to a JSON object.
BuildFundamentals ==
  /\ boot = "fundamentals"
  /\ \/ /\ settings.fundamentals_source # "file"
        /\ Bind("fundamentals", settings.fundamentals_source, "feeds")
        /\ UNCHANGED isReal
     \/ /\ settings.fundamentals_source = "file"
        /\ settings.fundamentals_path /\ env.dataset
        /\ Bind("fundamentals", "file", "feeds")
        /\ UNCHANGED isReal
     \/ /\ settings.fundamentals_source = "file"
        /\ ~(settings.fundamentals_path /\ env.dataset)
        /\ Raise

\* _build_macro, _build_news, _build_options: constructed without the network.
BuildFeeds ==
  /\ boot = "feeds"
  /\ bound' = [bound EXCEPT !["macro"] = settings.macro_source,
                            !["news"] = settings.news_source,
                            !["options"] = settings.options_source]
  /\ boot' = "broker"
  /\ UNCHANGED <<settings, env, isReal, basis, notes, report>>

\* Bug: the flag is set from the setting, before the credentials are looked at.
BuildBrokerEager ==
  /\ boot = "broker"
  /\ isReal' = [isReal EXCEPT !["broker"] = settings.broker_source = "kite"]
  /\ Bind("broker",
          IF settings.broker_source = "kite" /\ settings.kite_keys THEN "kite" ELSE "mock",
          "llm")

\* _build_broker: Kite with keys (set before the constructor runs, which needs
\* the package and raises without it), else the mock.
BuildBroker ==
  /\ boot = "broker"
  /\ \/ /\ settings.broker_source = "kite" /\ settings.kite_keys
        /\ \/ /\ env.kiteconnect
              /\ isReal' = [isReal EXCEPT !["broker"] = TRUE]
              /\ Bind("broker", "kite", "llm")
           \/ /\ ~env.kiteconnect
              /\ Raise
     \/ /\ ~(settings.broker_source = "kite" /\ settings.kite_keys)
        /\ UNCHANGED isReal
        /\ Bind("broker", "mock", "llm")

\* Bug: the constructor is called outside the try.
BuildLlmUnguarded ==
  /\ boot = "llm"
  /\ \/ /\ settings.llm_provider = "anthropic" /\ env.claude
        /\ isReal' = [isReal EXCEPT !["llm"] = TRUE]
        /\ Bind("llm", "anthropic", "persistence")
     \/ /\ settings.llm_provider = "anthropic" /\ ~env.claude
        /\ Raise
     \/ /\ settings.llm_provider = "mock"
        /\ UNCHANGED isReal
        /\ Bind("llm", "mock", "persistence")

\* _build_llm: any failure of the Claude adapter falls back to the mock.
BuildLlm ==
  /\ boot = "llm"
  /\ LET claude == settings.llm_provider = "anthropic" /\ env.claude
     IN  /\ isReal' = [isReal EXCEPT !["llm"] = claude]
         /\ Bind("llm", IF claude THEN "anthropic" ELSE "mock", "persistence")

\* The durable store the settings ask for can be had.
StoreOpens ==
  /\ env.store
  /\ \/ settings.persistence_backend = "duckdb"
     \/ settings.persistence_backend = "postgres" /\ settings.database_url

\* Bug: durability is read off the setting.
BuildPersistenceHopeful ==
  /\ boot = "persistence"
  /\ isReal' = [isReal EXCEPT !["persistence"] = settings.persistence_backend # "memory"]
  /\ Bind("persistence",
          IF StoreOpens THEN settings.persistence_backend ELSE "memory", "orchestrator")

\* _build_persistence: a durable backend that cannot be had falls back to the
\* in-memory store.
BuildPersistence ==
  /\ boot = "persistence"
  /\ isReal' = [isReal EXCEPT !["persistence"] = StoreOpens]
  /\ Bind("persistence",
          IF StoreOpens THEN settings.persistence_backend ELSE "memory", "orchestrator")

-----------------------------------------------------------------------------
\* data_basis of the orchestrator: from the settings and the flags, not from
\* what is bound.
Basis ==
  [a \in Agents |->
     CASE a \in {"fundamental", "technical", "macro", "news", "options", "portfolio"}
            /\ ~Real                -> "mock"
       [] a = "fundamental" /\ Real -> settings.fundamentals_source
       [] a = "technical" /\ Real   -> settings.market_data_source
       [] a = "macro" /\ Real       -> settings.macro_source
       [] a = "news" /\ Real        -> settings.news_source
       [] a = "options" /\ Real     -> settings.options_source
       [] a = "portfolio" /\ Real   -> IF isReal["broker"] THEN "kite" ELSE "mock"
       [] a = "memory"              -> IF isReal["persistence"]
                                         THEN settings.persistence_backend ELSE "memory"
       [] a = "debate"              -> IF isReal["llm"] THEN "anthropic" ELSE "mock"]

\* The readiness notes, each as the set of surfaces it names.
Notes ==
  {n \in SUBSET Ports :
     \/ ~Real /\ n = {"market", "fundamentals", "macro", "news", "options"}
     \/ Real /\ settings.fundamentals_source = "mock" /\ n = {"fundamentals"}
     \/ Real /\ ~isReal["broker"] /\ n = {"broker"}
     \/ ~isReal["llm"] /\ n = {"llm"}
     \/ ~isReal["persistence"] /\ n = {"persistence"}}

\* _build_orchestrator: the application is complete and serves.
BuildOrchestrator ==
  /\ boot = "orchestrator"
  /\ basis' = Basis
  /\ notes' = Notes
  /\ boot' = "serving"
  /\ UNCHANGED <<settings, env, bound, isReal, report>>

\* GET /api/v1/status, Orchestrator.status(): the agents whose basis says
\* "(real)" are counted, and the readiness line counts the notes.
ServeStatus ==
  /\ boot = "serving"
  /\ report' = [cto |-> IF notes = {} THEN "all" ELSE "some",
                live |-> Cardinality({a \in Agents : basis[a] \in RealAdapters}),
                degraded |-> Cardinality(notes)]
  /\ UNCHANGED <<settings, env, boot, bound, isReal, basis, notes>>

\* The process ends, for whatever reason, and is started again later, when the
\* environment may have changed; a new Container starts from nothing.
Restart ==
  /\ boot \in {"serving", "crashed"}
  /\ env' \in Environments
  /\ boot' = "market"
  /\ bound' = [p \in Ports |-> "none"]
  /\ isReal' = [p \in {"broker", "llm", "persistence"} |-> FALSE]
  /\ basis' = [a \in Agents |-> "none"]
  /\ notes' = {}
  /\ report' = NoReport
  /\ UNCHANGED settings

Build ==
  \/ BindMocks \/ BuildMarketData \/ BuildFundamentals \/ BuildFeeds \/ BuildBroker
  \/ BuildLlm \/ BuildPersistence \/ BuildOrchestrator

Next == Build \/ ServeStatus \/ Restart

Spec == Init /\ [][Next]_vars

\* The constructors do not wait for anything.
FairSpec == Spec /\ WF_vars(Build)

-----------------------------------------------------------------------------
TypeOK ==
  /\ settings \in Settings /\ env \in Environments
  /\ boot \in {"market", "fundamentals", "feeds", "broker", "llm", "persistence",
               "orchestrator", "serving", "crashed"}
  /\ bound \in [Ports -> Adapters]
  /\ isReal \in [{"broker", "llm", "persistence"} -> BOOLEAN]
  /\ basis \in [Agents -> Adapters]
  /\ notes \subseteq SUBSET Ports
  /\ report \in [cto : {"none", "all", "some"}, live : 0..7, degraded : 0..4]

\* What the status says an agent runs on, computed from settings and flags, is
\* the adapter the builders bound to the agent's port.
BasisIsBinding ==
  boot = "serving" => \A a \in Agents : basis[a] = bound[PortOf[a]]

\* Readiness notes are true, none of the surfaces the code falls back on (broker
\* in real mode, language model, persistence) goes without its note, and the
\* number of live agents in the report is the number of agents whose port is
\* bound to a live feed.
ReportIsTrue ==
  boot = "serving" =>
    /\ \A p \in UNION notes : bound[p] \notin GenuineAdapters
    /\ \A p \in {"broker", "llm", "persistence"} :
         bound[p] \notin GenuineAdapters /\ (p = "broker" => Real) => p \in UNION notes
    /\ report # NoReport =>
         report.live = Cardinality({a \in Agents : bound[PortOf[a]] \in RealAdapters})

\* Without any key, package, file or database the default sources start: the
\* language model and the store fall back, whatever is missing.
Keyless ==
  /\ settings.market_data_source = "yahoo"
  /\ settings.fundamentals_source # "file"
  /\ ~settings.kite_keys
KeylessBootServes == (boot = "market" /\ Keyless) ~> (boot = "serving")

-----------------------------------------------------------------------------
\* Claims of comments and docstrings that the code does not keep.

\* orchestrator.py:8,60: the status is honest about the data authenticity of
\* each agent and any degraded surfaces; "All agents live on real data."
AllLiveIsTrue ==
  report.cto = "all" => \A p \in Ports : bound[p] \in GenuineAdapters
=============================================================================

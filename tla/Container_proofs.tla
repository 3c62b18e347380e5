--------------------------- MODULE Container_proofs ---------------------------
(***************************************************************************)
(* Theorems about Container, for all settings, any environment at every    *)
(* start and any number of restarts.                                       *)
(***************************************************************************)
EXTENDS Container, FiniteSetTheorems, TLAPS

Flags == {"broker", "llm", "persistence"}

(***************************************************************************)
(* The counts of a report: at most seven of the eight agents can run on a  *)
(* live feed (memory cannot), and at most four notes hold together, since  *)
(* mock mode has one note for all its ports.                               *)
(***************************************************************************)
AtMost(S, n) == n \in Nat /\ IsFiniteSet(S) /\ Cardinality(S) <= n

\* One more member makes a set larger by one at most.
LEMMA OneMore ==
  ASSUME NEW S, NEW x, NEW n, NEW m, AtMost(S, n), m = n + 1
  PROVE  AtMost(S \cup {x}, m)
<1>1. Cardinality(S) \in Nat
  BY FS_CardinalityType DEF AtMost
<1> QED
  BY <1>1, FS_AddElement DEF AtMost

\* A counted set that is part of another has at most its bound.
LEMMA CountedWithin ==
  ASSUME NEW S, NEW n, AtMost(S, n), NEW T \in SUBSET S
  PROVE  Cardinality(T) \in 0..n
<1>1. IsFiniteSet(T) /\ Cardinality(T) <= Cardinality(S)
  BY FS_Subset DEF AtMost
<1>2. Cardinality(T) \in Nat /\ Cardinality(S) \in Nat
  BY <1>1, FS_CardinalityType DEF AtMost
<1> QED
  BY <1>1, <1>2 DEF AtMost

\* Four named members are at most four.
LEMMA AtMostFour ==
  ASSUME NEW a, NEW b, NEW c, NEW d
  PROVE  AtMost({a, b, c, d}, 4)
<1>0. 2 = 1 + 1 /\ 3 = 2 + 1 /\ 4 = 3 + 1
  OBVIOUS
<1>1. AtMost({a}, 1)
  BY FS_Singleton DEF AtMost
<1>2. AtMost({a} \cup {b}, 2)
  BY <1>0, <1>1, OneMore, Zenon
<1>3. AtMost(({a} \cup {b}) \cup {c}, 3)
  BY <1>0, <1>2, OneMore, Zenon
<1>4. AtMost((({a} \cup {b}) \cup {c}) \cup {d}, 4)
  BY <1>0, <1>3, OneMore, Zenon
<1>5. (({a} \cup {b}) \cup {c}) \cup {d} = {a, b, c, d}
  OBVIOUS
<1> QED
  BY <1>4, <1>5

\* All agents but the memory agent are at most seven.
LEMMA FeedAgents == AtMost(Agents \ {"memory"}, 7)
<1> DEFINE Four == {"fundamental", "technical", "macro", "news"}
<1>0. 5 = 4 + 1 /\ 6 = 5 + 1 /\ 7 = 6 + 1
  OBVIOUS
<1>1. AtMost(Four, 4)
  BY AtMostFour
<1> HIDE DEF Four
<1>2. AtMost(Four \cup {"options"}, 5)
  BY <1>0, <1>1, OneMore, Zenon
<1>3. AtMost((Four \cup {"options"}) \cup {"portfolio"}, 6)
  BY <1>0, <1>2, OneMore, Zenon
<1>4. AtMost(((Four \cup {"options"}) \cup {"portfolio"}) \cup {"debate"}, 7)
  BY <1>0, <1>3, OneMore, Zenon
<1>5. Agents \ {"memory"} = ((Four \cup {"options"}) \cup {"portfolio"}) \cup {"debate"}
  BY DEF Agents, PortOf, Four
<1> QED
  BY <1>4, <1>5

-----------------------------------------------------------------------------
(***************************************************************************)
(* The inductive invariant.  What a port that has been built is bound to   *)
(* follows from the settings and the flags of the adapters that fall back; *)
(* which ports have been built follows from the builder that runs next.    *)
(* The orchestrator's basis and notes are computed from the same settings  *)
(* and flags, which no step changes before the process ends.               *)
(***************************************************************************)
ExpectedBinding ==
  [p \in Ports |->
     CASE p \in DataPorts \ {"broker"} /\ ~Real -> "mock"
       [] p = "market" /\ Real       -> settings.market_data_source
       [] p = "fundamentals" /\ Real -> settings.fundamentals_source
       [] p = "macro" /\ Real        -> settings.macro_source
       [] p = "news" /\ Real         -> settings.news_source
       [] p = "options" /\ Real      -> settings.options_source
       [] p = "broker"               -> IF isReal["broker"] THEN "kite" ELSE "mock"
       [] p = "llm"                  -> IF isReal["llm"] THEN "anthropic" ELSE "mock"
       [] p = "persistence"          -> IF isReal["persistence"]
                                          THEN settings.persistence_backend ELSE "memory"]

BuiltBefore ==
  [market       |-> {},
   fundamentals |-> {"market"},
   feeds        |-> {"market", "fundamentals"},
   broker       |-> DataPorts \ {"broker"},
   llm          |-> DataPorts,
   persistence  |-> DataPorts \cup {"llm"},
   orchestrator |-> Ports,
   serving      |-> Ports,
   crashed      |-> {}]

FollowsSettings == \A p \in BuiltBefore[boot] : bound[p] = ExpectedBinding[p]

\* A flag is down before its builder has run, the broker's throughout mock mode,
\* and the store's is up only for a durable backend.
FlagsFollow ==
  /\ \A p \in Flags \ BuiltBefore[boot] : boot = "crashed" \/ ~isReal[p]
  /\ isReal["broker"] => Real
  /\ isReal["persistence"] => settings.persistence_backend # "memory"

DescribesItself ==
  /\ boot = "serving" => (basis = Basis /\ notes = Notes)
  /\ report # NoReport =>
       /\ boot = "serving"
       /\ report.live = Cardinality({a \in Agents : basis[a] \in RealAdapters})

\* Only the builders that raise end a start, each for its reason.
CrashHasACause ==
  boot = "crashed" =>
    /\ Real
    /\ \/ settings.market_data_source = "kite" /\ ~(settings.kite_keys /\ env.kiteconnect)
       \/ settings.fundamentals_source = "file" /\ ~(settings.fundamentals_path /\ env.dataset)
       \/ settings.broker_source = "kite" /\ settings.kite_keys /\ ~env.kiteconnect

\* The default sources without keys do not fail to start.
KeylessIsUp == Keyless => boot # "crashed"

\* In mock mode no builder of a data port runs.
MockSkips == ~Real => boot \notin {"fundamentals", "feeds", "broker", "crashed"}

IInv ==
  TypeOK /\ FollowsSettings /\ FlagsFollow /\ DescribesItself /\ MockSkips /\ CrashHasACause
-----------------------------------------------------------------------------
(***************************************************************************)
(* Types.                                                                  *)
(***************************************************************************)
LEMMA NotesAreFew ==
  ASSUME isReal["broker"] => Real
  PROVE  Cardinality(Notes) \in 0..4
<1>1. CASE Real
  <2>1. Notes \subseteq {{"fundamentals"}, {"broker"}, {"llm"}, {"persistence"}}
    BY <1>1 DEF Notes
  <2> QED
    BY <2>1, AtMostFour, CountedWithin
<1>2. CASE ~Real
  <2>1. Notes \subseteq {{"market", "fundamentals", "macro", "news", "options"}, {"llm"},
                         {"persistence"}, {"broker"}}
    BY <1>2 DEF Notes
  <2> QED
    BY <2>1, AtMostFour, CountedWithin
<1> QED
  BY <1>1, <1>2

\* Every agent is bound to some adapter.
LEMMA BasisType == TypeOK => Basis \in [Agents -> Adapters \ {"none"}]
  BY DEF TypeOK, Basis, Settings, Agents, PortOf, Adapters, GenuineAdapters, RealAdapters

\* A note names ports.
LEMMA NotesType == Notes \subseteq SUBSET Ports
  BY DEF Notes

\* The memory agent never counts as live: no store is a feed.
LEMMA LiveIsCounted ==
  ASSUME TypeOK, DescribesItself, boot = "serving"
  PROVE  Cardinality({a \in Agents : basis[a] \in RealAdapters}) \in 0..7
<1>1. basis["memory"] \in {"memory", "duckdb", "postgres"}
  BY DEF DescribesItself, Basis, TypeOK, Settings, Agents, PortOf
<1>2. {a \in Agents : basis[a] \in RealAdapters} \subseteq Agents \ {"memory"}
  BY <1>1 DEF RealAdapters
<1> QED
  BY <1>2, FeedAgents, CountedWithin

\* The invariant holds initially.
LEMMA InitInvariant == Init => IInv
<1> SUFFICES ASSUME Init PROVE IInv
  OBVIOUS
<1>1. TypeOK
  BY DEF Init, TypeOK, NoReport, Adapters
<1>2. FollowsSettings /\ FlagsFollow /\ MockSkips /\ CrashHasACause
  BY DEF Init, FollowsSettings, FlagsFollow, MockSkips, CrashHasACause, BuiltBefore, Flags
<1>3. DescribesItself
  BY DEF Init, DescribesItself
<1> QED
  BY <1>1, <1>2, <1>3 DEF IInv

-----------------------------------------------------------------------------
(***************************************************************************)
(* Every step keeps the invariant.                                         *)
(***************************************************************************)
LEMMA KeepsType == IInv /\ [Next]_vars => TypeOK'
<1> SUFFICES ASSUME IInv, [Next]_vars PROVE TypeOK'
  OBVIOUS
<1> USE DEF IInv, TypeOK
<1>1. CASE BindMocks
  BY <1>1 DEF BindMocks, Adapters
<1>2. CASE BuildMarketData
  BY <1>2 DEF BuildMarketData, Bind, Raise, Adapters, GenuineAdapters, RealAdapters
<1>3. CASE BuildFundamentals
  <2>1. settings.fundamentals_source \in Adapters
    BY DEF Settings, Adapters, GenuineAdapters, RealAdapters
  <2>2. "file" \in Adapters
    BY DEF Adapters, GenuineAdapters, RealAdapters
  <2> QED
    BY <1>3, <2>1, <2>2 DEF BuildFundamentals, Bind, Raise
<1>4. CASE BuildFeeds
  <2>1. /\ settings.macro_source \in Adapters
        /\ settings.news_source \in Adapters
        /\ settings.options_source \in Adapters
    BY DEF Settings, Adapters, GenuineAdapters, RealAdapters
  <2> QED
    BY <1>4, <2>1 DEF BuildFeeds
<1>5. CASE BuildBroker
  <2>1. isReal' \in [Flags -> BOOLEAN]
    BY <1>5 DEF BuildBroker, Raise, Flags
  <2>2. "kite" \in Adapters /\ "mock" \in Adapters
    BY DEF Adapters, GenuineAdapters, RealAdapters
  <2> QED
    BY <1>5, <2>1, <2>2 DEF BuildBroker, Bind, Raise, Flags
<1>6. CASE BuildLlm
  <2>1. "anthropic" \in Adapters /\ "mock" \in Adapters
    BY DEF Adapters, GenuineAdapters, RealAdapters
  <2>2. (settings.llm_provider = "anthropic" /\ env.claude) \in BOOLEAN
    OBVIOUS
  <2> QED
    BY <1>6, <2>1, <2>2 DEF BuildLlm, Bind
<1>7. CASE BuildPersistence
  <2>1. settings.persistence_backend \in Adapters /\ "memory" \in Adapters
    BY DEF Settings, Adapters, GenuineAdapters, RealAdapters
  <2>2. StoreOpens \in BOOLEAN
    BY DEF StoreOpens, Settings, Environments
  <2> QED
    BY <1>7, <2>1, <2>2 DEF BuildPersistence, Bind
<1>8. CASE BuildOrchestrator
  BY <1>8, BasisType, NotesType DEF BuildOrchestrator
<1>9. CASE ServeStatus
  <2>1. Cardinality({a \in Agents : basis[a] \in RealAdapters}) \in 0..7
    BY <1>9, LiveIsCounted DEF ServeStatus
  <2>2. Cardinality(notes) \in 0..4
    BY <1>9, NotesAreFew DEF ServeStatus, DescribesItself, FlagsFollow
  <2> QED
    BY <1>9, <2>1, <2>2 DEF ServeStatus
<1>10. CASE Restart
  BY <1>10 DEF Restart, NoReport, Adapters
<1>11. CASE UNCHANGED vars
  BY <1>11 DEF vars
<1> QED
  BY <1>1, <1>2, <1>3, <1>4, <1>5, <1>6, <1>7, <1>8, <1>9, <1>10, <1>11 DEF Next, Build

\* A port bound earlier stays bound as it was, and the flags its binding follows
\* do not change after its builder.
LEMMA KeepsBinding == IInv /\ [Next]_vars => FollowsSettings'
<1> SUFFICES ASSUME IInv, [Next]_vars PROVE FollowsSettings'
  OBVIOUS
<1> USE DEF IInv, TypeOK, FollowsSettings, ExpectedBinding, BuiltBefore, Real, Ports, DataPorts
<1>1. CASE BindMocks
  BY <1>1 DEF BindMocks, FlagsFollow, Flags
<1>2. CASE BuildMarketData
  BY <1>2 DEF BuildMarketData, Bind, Raise
<1>3. CASE BuildFundamentals
  BY <1>3 DEF BuildFundamentals, Bind, Raise, MockSkips
<1>4. CASE BuildFeeds
  BY <1>4 DEF BuildFeeds, MockSkips
<1>5. CASE BuildBroker
  <2>1. boot = "broker" /\ Real
    BY <1>5 DEF BuildBroker, MockSkips
  <2>2. CASE Raise
    BY <2>2 DEF Raise
  <2>3. CASE isReal' = [isReal EXCEPT !["broker"] = TRUE] /\ Bind("broker", "kite", "llm")
    BY <2>1, <2>3 DEF Bind
  <2>4. CASE UNCHANGED isReal /\ Bind("broker", "mock", "llm")
    BY <2>1, <2>4 DEF Bind, FlagsFollow, Flags
  <2> QED
    BY <1>5, <2>2, <2>3, <2>4 DEF BuildBroker
<1>6. CASE BuildLlm
  BY <1>6 DEF BuildLlm, Bind
<1>7. CASE BuildPersistence
  BY <1>7 DEF BuildPersistence, Bind
<1>8. CASE BuildOrchestrator
  BY <1>8 DEF BuildOrchestrator
<1>9. CASE ServeStatus
  BY <1>9 DEF ServeStatus
<1>10. CASE Restart
  BY <1>10 DEF Restart
<1>11. CASE UNCHANGED vars
  BY <1>11 DEF vars
<1> QED
  BY <1>1, <1>2, <1>3, <1>4, <1>5, <1>6, <1>7, <1>8, <1>9, <1>10, <1>11 DEF Next, Build

\* Every step keeps the flags in line with what was built.
LEMMA KeepsFlags == IInv /\ [Next]_vars => FlagsFollow' /\ MockSkips' /\ CrashHasACause'
<1> SUFFICES ASSUME IInv, [Next]_vars PROVE FlagsFollow' /\ MockSkips' /\ CrashHasACause'
  OBVIOUS
<1> USE DEF IInv, TypeOK, FlagsFollow, MockSkips, CrashHasACause, BuiltBefore, Real, Ports,
            DataPorts, Flags
<1>1. CASE BindMocks
  BY <1>1 DEF BindMocks
<1>2. CASE BuildMarketData
  BY <1>2 DEF BuildMarketData, Bind, Raise
<1>3. CASE BuildFundamentals
  BY <1>3 DEF BuildFundamentals, Bind, Raise
<1>4. CASE BuildFeeds
  BY <1>4 DEF BuildFeeds
<1>5. CASE BuildBroker
  BY <1>5 DEF BuildBroker, Bind, Raise
<1>6. CASE BuildLlm
  BY <1>6 DEF BuildLlm, Bind
<1>7. CASE BuildPersistence
  BY <1>7 DEF BuildPersistence, Bind, StoreOpens
<1>8. CASE BuildOrchestrator
  BY <1>8 DEF BuildOrchestrator
<1>9. CASE ServeStatus
  BY <1>9 DEF ServeStatus
<1>10. CASE Restart
  BY <1>10 DEF Restart
<1>11. CASE UNCHANGED vars
  BY <1>11 DEF vars
<1> QED
  BY <1>1, <1>2, <1>3, <1>4, <1>5, <1>6, <1>7, <1>8, <1>9, <1>10, <1>11 DEF Next, Build

\* Every step keeps the description in line with what was bound.
LEMMA KeepsDescription == IInv /\ [Next]_vars => DescribesItself'
<1> SUFFICES ASSUME IInv, [Next]_vars PROVE DescribesItself'
  OBVIOUS
<1> USE DEF IInv, DescribesItself
<1>1. CASE BindMocks
  BY <1>1 DEF BindMocks
<1>2. CASE BuildMarketData
  BY <1>2 DEF BuildMarketData, Bind, Raise
<1>3. CASE BuildFundamentals
  BY <1>3 DEF BuildFundamentals, Bind, Raise
<1>4. CASE BuildFeeds
  BY <1>4 DEF BuildFeeds
<1>5. CASE BuildBroker
  BY <1>5 DEF BuildBroker, Bind, Raise
<1>6. CASE BuildLlm
  BY <1>6 DEF BuildLlm, Bind
<1>7. CASE BuildPersistence
  BY <1>7 DEF BuildPersistence, Bind
<1>8. CASE BuildOrchestrator
  <2>1. Basis' = Basis /\ Notes' = Notes
    BY <1>8 DEF BuildOrchestrator, Basis, Notes, Real
  <2> QED
    BY <1>8, <2>1 DEF BuildOrchestrator
<1>9. CASE ServeStatus
  <2>1. Basis' = Basis /\ Notes' = Notes
    BY <1>9 DEF ServeStatus, Basis, Notes, Real
  <2> QED
    BY <1>9, <2>1 DEF ServeStatus
<1>10. CASE Restart
  BY <1>10 DEF Restart
<1>11. CASE UNCHANGED vars
  <2>1. Basis' = Basis /\ Notes' = Notes
    BY <1>11 DEF vars, Basis, Notes, Real
  <2> QED
    BY <1>11, <2>1 DEF vars
<1> QED
  BY <1>1, <1>2, <1>3, <1>4, <1>5, <1>6, <1>7, <1>8, <1>9, <1>10, <1>11 DEF Next, Build

\* The invariant holds throughout.
LEMMA Invariant == Spec => []IInv
<1>1. IInv /\ [Next]_vars => IInv'
  BY KeepsType, KeepsBinding, KeepsFlags, KeepsDescription DEF IInv
<1> QED
  BY <1>1, InitInvariant, PTL DEF Spec

-----------------------------------------------------------------------------
(***************************************************************************)
(* What the invariant says of a container that serves.                     *)
(***************************************************************************)
LEMMA ServingBinds ==
  ASSUME IInv, boot = "serving"
  PROVE  /\ \A p \in Ports : bound[p] = ExpectedBinding[p]
         /\ basis = Basis
         /\ notes = Notes
  BY DEF IInv, FollowsSettings, BuiltBefore, DescribesItself

\* The invariant says that the basis is what is bound.
LEMMA BasisFromInvariant == IInv => BasisIsBinding
<1> SUFFICES ASSUME IInv, boot = "serving", NEW a \in Agents
             PROVE  basis[a] = bound[PortOf[a]]
  BY DEF BasisIsBinding
<1>1. basis = Basis /\ PortOf[a] \in Ports /\ bound[PortOf[a]] = ExpectedBinding[PortOf[a]]
  BY ServingBinds DEF Agents, PortOf, Ports
<1>2. settings.adapter_mode \in {"mock", "real"} /\ (isReal["broker"] => Real)
  BY DEF IInv, TypeOK, Settings, FlagsFollow
<1> QED
  BY <1>1, <1>2 DEF Basis, ExpectedBinding, Agents, PortOf, Ports, DataPorts, Real

\* The invariant says that the status report is true.
LEMMA ReportFromInvariant == IInv => ReportIsTrue
<1> SUFFICES ASSUME IInv, boot = "serving" PROVE ReportIsTrue
  BY DEF ReportIsTrue
<1> USE DEF GenuineAdapters, RealAdapters, Ports, DataPorts
<1>1. \A p \in UNION notes : bound[p] \notin GenuineAdapters
  <2> SUFFICES ASSUME NEW n \in notes, NEW p \in n PROVE bound[p] \notin GenuineAdapters
    OBVIOUS
  <2>1. n \in Notes
    BY ServingBinds
  <2>2. p \in Ports
    BY <2>1 DEF Notes
  <2>3. bound[p] = ExpectedBinding[p]
    BY <2>2, ServingBinds
  <2> QED
    BY <2>1, <2>2, <2>3 DEF Notes, ExpectedBinding
<1>2. \A p \in {"broker", "llm", "persistence"} :
        bound[p] \notin GenuineAdapters /\ (p = "broker" => Real) => p \in UNION notes
  <2> SUFFICES ASSUME NEW p \in {"broker", "llm", "persistence"},
                      bound[p] \notin GenuineAdapters, p = "broker" => Real
               PROVE  {p} \in Notes
    BY ServingBinds
  <2>1. ~isReal[p]
    BY ServingBinds DEF ExpectedBinding, IInv, FlagsFollow, TypeOK, Settings
  <2> QED
    BY <2>1 DEF Notes
<1>3. report # NoReport =>
        report.live = Cardinality({a \in Agents : bound[PortOf[a]] \in RealAdapters})
  <2>1. \A a \in Agents : basis[a] = bound[PortOf[a]]
    BY BasisFromInvariant DEF BasisIsBinding
  <2>2. {a \in Agents : bound[PortOf[a]] \in RealAdapters}
          = {a \in Agents : basis[a] \in RealAdapters}
    BY <2>1
  <2> QED
    BY <2>2 DEF IInv, DescribesItself
<1> QED
  BY <1>1, <1>2, <1>3 DEF ReportIsTrue

\* Every variable keeps its type, the counts of a report included.
THEOREM TypeCorrect == Spec => []TypeOK
<1>1. IInv => TypeOK
  BY DEF IInv
<1> QED
  BY <1>1, Invariant, PTL

\* What the status says an agent runs on is the adapter that was bound, although
\* the orchestrator reads settings and flags and never the adapters.
THEOREM BasisHonest == Spec => []BasisIsBinding
  BY BasisFromInvariant, Invariant, PTL

\* The readiness notes and the live count of a status report are true.
THEOREM ReportHonest == Spec => []ReportIsTrue
  BY ReportFromInvariant, Invariant, PTL

\* A start fails only for a reason a user can act on, and never with the default
\* sources and no keys: the language model and the store fall back.
THEOREM StartsUnlessRaised == Spec => [](CrashHasACause /\ KeylessIsUp)
<1>1. IInv => CrashHasACause /\ KeylessIsUp
  BY DEF IInv, CrashHasACause, KeylessIsUp, Keyless
<1> QED
  BY <1>1, Invariant, PTL
=============================================================================

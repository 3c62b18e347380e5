------------------------------ MODULE Pipeline ------------------------------
(***************************************************************************)
(* One POST from arrival to answer, call by call: the data gathering of    *)
(* GenerateRecommendation.execute, the ten agents of the graph in their    *)
(* order, risk, the three model calls of the debate, forecast, evidence,   *)
(* synthesis and the two writes.                                           *)
(*                                                                         *)
(* Calls that leave the process may fail.  The news and options adapters   *)
(* turn a failure into "nothing" and their agents into a neutral report;   *)
(* every other failure is raised through to the framework.                 *)
(*                                                                         *)
(* A report is abstracted to the directions of its signals: "bull" for a   *)
(* signal that is BULLISH or STRONG_BULLISH, "bear" likewise; NEUTRAL ones *)
(* leave no mark.  RecommendationService runs many of these requests at    *)
(* once with the pipeline folded into three steps; ServiceSpec says that   *)
(* the folding is right.                                                   *)
(***************************************************************************)
EXTENDS Naturals, Sequences, SequencesExt

CONSTANT Views   \* the directions the signals of a report may have

Directions == {"bull", "bear"}

ASSUME ViewsAssumption == Views \subseteq SUBSET Directions

VARIABLES
  status,    \* "idle", "running", "answered" or "failed"
  stage,     \* position in Stages of the call being made
  reports,   \* reports collected so far
  outage,    \* optional feeds whose adapter swallowed a failure
  narrated,  \* model calls made
  points,    \* which agents' signals the debate gave to each side
  evidence,  \* (agent, direction) of each piece of evidence
  store      \* "recommendation" and "audit" once written

vars == <<status, stage, reports, outage, narrated, points, evidence, store>>

\* The data a request gathers before the graph runs.
Gathering == {"quote", "candles", "fundamentals"}

\* The agents registered with the graph, and risk, which runs on their reports.
Agents == {"fundamental", "technical", "quant", "macro", "news", "behavioral",
           "options", "portfolio", "memory", "learning", "risk"}

\* The debate's calls of the language model.
Debate == {"bullCase", "bearCase", "verdict"}

\* Bug: the debate is held before the book and the memory are consulted.
DebateFirst ==
  <<"quote", "candles", "fundamentals",
    "fundamental", "technical", "quant", "macro", "news", "behavioral", "options",
    "bullCase", "bearCase", "verdict", "portfolio", "memory", "learning", "risk",
    "forecast", "evidence", "synthesis", "save", "audit", "respond">>

\* Every call of a request, the agents in the order ResearchPipeline registers
\* them with the graph.
Stages ==
  <<"quote", "candles", "fundamentals",
    "fundamental", "technical", "quant", "macro", "news", "behavioral",
    "options", "portfolio", "memory", "learning", "risk",
    "bullCase", "bearCase", "verdict",
    "forecast", "evidence", "synthesis", "save", "audit", "respond">>

At(s) == status = "running" /\ Stages[stage] = s

Stage(s) == CHOOSE i \in DOMAIN Stages : Stages[i] = s

Report(a, v) == [agent |-> a, views |-> v]

Init ==
  /\ status = "idle"
  /\ stage = 1
  /\ reports = << >>
  /\ outage = {}
  /\ narrated = 0
  /\ points = [d \in Directions |-> {}]
  /\ evidence = {}
  /\ store = {}

-----------------------------------------------------------------------------
Receive ==
  /\ status = "idle"
  /\ status' = "running"
  /\ UNCHANGED <<stage, reports, outage, narrated, points, evidence, store>>

\* Quote, candles and fundamentals: data for the context, no report.
Gather ==
  /\ \E s \in Gathering : At(s)
  /\ stage' = stage + 1
  /\ UNCHANGED <<status, reports, outage, narrated, points, evidence, store>>

\* The graph files the report of agent a and goes on.
File(a, v) ==
  /\ At(a)
  /\ reports' = Append(reports, Report(a, v))
  /\ stage' = stage + 1
  /\ UNCHANGED <<status, narrated, points, evidence, store>>

Analyze(a, views) == (\E v \in views : File(a, v)) /\ UNCHANGED outage

\* Agents that judge what is in the context already.
Fundamental == Analyze("fundamental", Views)
Quant       == Analyze("quant", Views)
Behavioral  == Analyze("behavioral", Views)

\* Without the history for any indicator, the report is neutral.
Technical == Analyze("technical", Views \cup {{}})

\* A snapshot of indicators that are always there: the feed answers or raises.
Macro == Analyze("macro", Views)

\* Headlines were found and can be ordered by date, or the feed had none.
News == Analyze("news", Views \cup {{}})

\* The feed failed: the adapter returns no items, the agent's report is neutral.
NewsOut == File("news", {}) /\ outage' = outage \cup {"news"}

\* Some headlines are dated with a zone and some without: sorting raises.
NewsUnsortable ==
  /\ At("news")
  /\ status' = "failed"
  /\ UNCHANGED <<stage, reports, outage, narrated, points, evidence, store>>

\* A chain with calls and puts, or the feed lists none.
Options == Analyze("options", Views \cup {{}})

\* Bug: the adapter lets the exception through.
OptionsOutRaises ==
  /\ At("options")
  /\ outage' = outage \cup {"options"}
  /\ status' = "failed"
  /\ UNCHANGED <<stage, reports, narrated, points, evidence, store>>

\* The chain could not be fetched or read: the adapter returns None.
OptionsOut == File("options", {}) /\ outage' = outage \cup {"options"}

\* An empty book is "BULLISH: a new position adds no concentration".
Portfolio == Analyze("portfolio", Views \cup {{"bull"}})

\* Without a history, the report is neutral; PriorStance is its only direction.
Memory == Analyze("memory", {{}, {"bull"}, {"bear"}})

\* With fewer than ten trades to calibrate on, the report is neutral.
Learning == Analyze("learning", Views \cup {{}})

\* Bug: a reward:risk at the threshold counts as neutral.
RiskAtThreshold == Analyze("risk", {{}, {"bear"}})

\* The target is set reward_to_risk = 2 stop distances away, so RewardRisk is
\* always BULLISH; VaR is BEARISH or NEUTRAL.
Risk == Analyze("risk", {{"bull"}, {"bull", "bear"}})

\* The agents that have a signal in direction d.
Pointing(d) == {r.agent : r \in {s \in ToSet(reports) : d \in s.views}}

\* DebateAgent: the points of both sides are drawn up, then one model call each
\* for the bull, the bear and the judge.  A refusal is a text like any other.
Argue ==
  /\ \E s \in Debate : At(s)
  /\ points' = IF At("bullCase") THEN [d \in Directions |-> Pointing(d)] ELSE points
  /\ narrated' = narrated + 1
  /\ stage' = stage + 1
  /\ UNCHANGED <<status, reports, outage, evidence, store>>

\* The forecast computes from the reports what nothing here depends on.
Forecast ==
  /\ At("forecast")
  /\ stage' = stage + 1
  /\ UNCHANGED <<status, reports, outage, narrated, points, evidence, store>>

\* Bug: evidence is taken from the graph's reports, before risk was added.
AssembleGraphOnly ==
  /\ At("evidence")
  /\ evidence' = UNION {{r.agent} \X r.views : r \in ToSet(Front(reports))}
  /\ stage' = stage + 1
  /\ UNCHANGED <<status, reports, outage, narrated, points, store>>

\* One piece of evidence per signal that is not NEUTRAL.
Assemble ==
  /\ At("evidence")
  /\ evidence' = UNION {{r.agent} \X r.views : r \in ToSet(reports)}
  /\ stage' = stage + 1
  /\ UNCHANGED <<status, reports, outage, narrated, points, store>>

Synthesize ==
  /\ At("synthesis")
  /\ stage' = stage + 1
  /\ UNCHANGED <<status, reports, outage, narrated, points, evidence, store>>

\* Bug: the audit record is written first and names what is not stored yet.
WriteAuditFirst ==
  /\ \/ At("save")  /\ store' = store \cup {"audit"}
     \/ At("audit") /\ store' = store \cup {"recommendation"}
  /\ stage' = stage + 1
  /\ UNCHANGED <<status, reports, outage, narrated, points, evidence>>

Write ==
  /\ \/ At("save")  /\ store' = store \cup {"recommendation"}
     \/ At("audit") /\ store' = store \cup {"audit"}
  /\ stage' = stage + 1
  /\ UNCHANGED <<status, reports, outage, narrated, points, evidence>>

Respond ==
  /\ At("respond")
  /\ status' = "answered"
  /\ UNCHANGED <<stage, reports, outage, narrated, points, evidence, store>>

\* A call that is not shielded raises: market data, fundamentals, macro,
\* holdings or margins, the repository, the model, the two writes, rendering.
\* The risk plan refuses a price that is not positive, and two agents divide by
\* an earlier close.
Raise ==
  /\ \E s \in {"quote", "candles", "fundamentals", "quant", "macro", "behavioral",
               "portfolio", "memory", "risk", "bullCase", "bearCase", "verdict",
               "save", "audit", "respond"} : At(s)
  /\ status' = "failed"
  /\ UNCHANGED <<stage, reports, outage, narrated, points, evidence, store>>

Next ==
  \/ Receive \/ Gather \/ Fundamental \/ Technical \/ Quant \/ Macro \/ Behavioral
  \/ News \/ NewsOut \/ NewsUnsortable
  \/ Options \/ OptionsOut \/ Portfolio \/ Memory \/ Learning \/ Risk
  \/ Argue \/ Forecast \/ Assemble \/ Synthesize \/ Write \/ Respond \/ Raise

Spec == Init /\ [][Next]_vars

-----------------------------------------------------------------------------
TypeOK ==
  /\ status \in {"idle", "running", "answered", "failed"}
  /\ stage \in DOMAIN Stages
  /\ reports \in Seq([agent : Agents, views : SUBSET Directions])
  /\ outage \subseteq {"news", "options"}
  /\ narrated \in 0..3
  /\ points \in [Directions -> SUBSET Agents]
  /\ evidence \subseteq Agents \X Directions
  /\ store \subseteq {"recommendation", "audit"}

\* An outage of the news or the options feed never ends the request, and the
\* report that stands in for it has no say: no side of the debate argues with
\* it and no evidence cites it.
OutagesDegrade ==
  \A a \in outage :
    /\ stage > Stage(a)
    /\ Report(a, {}) \in ToSet(reports)
    /\ \A d \in Directions : a \notin points[d] /\ <<a, d>> \notin evidence

\* What is kept as evidence is what was argued: the agents cited in support are
\* those the bull case drew on, the agents cited against those of the bear case.
\* (DebateAgent._points and EvidenceAgent.assemble select independently.)
EvidenceWasArgued ==
  stage > Stage("evidence") =>
    \A d \in Directions : {a \in Agents : <<a, d>> \in evidence} = points[d]

\* Every stored recommendation cites evidence in support (docs/DISCLAIMER.md:
\* 8-9), although every specialist may be bearish.
StoredIsSupported ==
  "recommendation" \in store => \E a \in Agents : <<a, "bull">> \in evidence

\* No model call is spent on a request that a feed, the broker or the memory
\* can still fail, and the verdict is given with all reports in.
NarrativeIsLast ==
  narrated > 0 =>
    /\ {r.agent : r \in ToSet(reports)} = Agents
    /\ status = "failed" => Stages[stage] \in Debate \cup {"save", "audit", "respond"}

\* The request goes through the steps RecommendationService gives it: memory is
\* read after the data is gathered and before the recommendation is synthesised,
\* and the writes follow in their order.
ServicePc ==
  CASE status # "running" -> status
    [] stage < Stage("memory") /\ status = "running" -> "researching"
    [] At("memory") -> "recalling"
    [] status = "running" /\ stage > Stage("memory") /\ stage < Stage("save") -> "debating"
    [] At("save") -> "saving"
    [] At("audit") -> "auditing"
    [] At("respond") -> "responding"

Service ==
  INSTANCE RecommendationService
    WITH Requests <- {"q"}, Instruments <- {"i"}, Lookback <- 1, MaxClock <- 0,
         pc <- [q \in {"q"} |-> ServicePc], asked <- [q \in {"q"} |-> "i"],
         window <- [q \in {"q"} |-> {}], stamp <- [q \in {"q"} |-> 0],
         recommendations <- [q \in IF "recommendation" \in store THEN {"q"} ELSE {} |->
                               [instrument |-> "i", generatedAt |-> 0]],
         auditRecords <- IF "audit" \in store THEN <<[id |-> "q", instrument |-> "i"]>>
                         ELSE << >>,
         clock <- 0, up <- TRUE, answeredBefore <- [q \in {"q"} |-> {}]
ServiceSpec == Service!Spec

-----------------------------------------------------------------------------
\* A claim of a comment that the code does not keep.

\* google_news.py:111: "news must never break a recommendation".
NewsNeverBreaks == ~(status = "failed" /\ Stages[stage] = "news")
=============================================================================

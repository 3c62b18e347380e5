--------------------------- MODULE Pipeline_proofs ---------------------------
(***************************************************************************)
(* Theorems about Pipeline, whatever directions the signals of a report    *)
(* may have.  The run takes two of them for the agents that always point   *)
(* somewhere; here Views is any set.                                       *)
(***************************************************************************)
EXTENDS Pipeline, FiniteSetTheorems, TLAPS

(***************************************************************************)
(* Where the stages are.                                                   *)
(***************************************************************************)
LEMMA StagesDomain == DOMAIN Stages = 1..23
  BY DEF Stages

\* The stages the steps refer to are at these places.
LEMMA Positions ==
  /\ Stages[1] = "quote" /\ Stages[2] = "candles" /\ Stages[3] = "fundamentals"
  /\ Stages[4] = "fundamental" /\ Stages[5] = "technical" /\ Stages[6] = "quant"
  /\ Stages[7] = "macro" /\ Stages[8] = "news" /\ Stages[9] = "behavioral"
  /\ Stages[10] = "options" /\ Stages[11] = "portfolio" /\ Stages[12] = "memory"
  /\ Stages[13] = "learning" /\ Stages[14] = "risk" /\ Stages[15] = "bullCase"
  /\ Stages[16] = "bearCase" /\ Stages[17] = "verdict" /\ Stages[18] = "forecast"
  /\ Stages[19] = "evidence" /\ Stages[20] = "synthesis" /\ Stages[21] = "save"
  /\ Stages[22] = "audit" /\ Stages[23] = "respond"
  BY DEF Stages

\* No stage is listed twice.
LEMMA StagesDiffer == \A i, j \in 1..23 : Stages[i] = Stages[j] => i = j
  BY Positions

\* The agents are the stages from the fourth to the fourteenth.
LEMMA AgentStages == \A i \in 1..23 : Stages[i] \in Agents <=> i \in 4..14
  BY Positions DEF Agents

\* A stage is at its place.
LEMMA StageOf == \A i \in 1..23 : Stage(Stages[i]) = i
  BY StagesDomain, StagesDiffer DEF Stage

\* Every stage has a place.
LEMMA StagesOf ==
  /\ Stage("news") = 8 /\ Stage("options") = 10 /\ Stage("risk") = 14
  /\ Stage("bullCase") = 15 /\ Stage("evidence") = 19 /\ Stage("save") = 21
<1>1. /\ Stage(Stages[8]) = 8 /\ Stage(Stages[10]) = 10 /\ Stage(Stages[14]) = 14
      /\ Stage(Stages[15]) = 15 /\ Stage(Stages[19]) = 19 /\ Stage(Stages[21]) = 21
  BY StageOf
<1> QED
  BY <1>1, Positions

\* Every agent has a place of its own among the agents.
LEMMA AgentStage == \A a \in Agents : Stage(a) \in 4..14 /\ Stages[Stage(a)] = a
<1>1. \A a \in Agents : \E i \in 4..14 : Stages[i] = a
  BY Positions DEF Agents
<1> QED
  BY <1>1, StageOf

-----------------------------------------------------------------------------
(***************************************************************************)
(* The strengthening.  The position in Stages says which agents have       *)
(* reported, how many model calls were made, what the debate and the       *)
(* evidence were drawn from and what may be stored.                        *)
(***************************************************************************)
Filed == ToSet(reports)

\* One report per agent the graph has passed.
FiledInv ==
  /\ \A r \in Filed : stage > Stage(r.agent)
  /\ \A a \in Agents : stage > Stage(a) => \E r \in Filed : r.agent = a

\* Reward:risk is always a bullish signal.
RiskInv == \A r \in Filed : r.agent = "risk" => "bull" \in r.views

\* A feed that was out has filed the neutral report and no other.
OutageInv ==
  \A a \in outage : /\ stage > Stage(a)
                    /\ Report(a, {}) \in Filed
                    /\ \A r \in Filed : r.agent = a => r.views = {}

\* The debate and the evidence draw on all reports.
DrawnInv ==
  /\ \A d \in Directions :
       points[d] = IF stage > Stage("bullCase") THEN Pointing(d) ELSE {}
  /\ \A a \in Agents, d \in Directions :
       <<a, d>> \in evidence <=> stage > Stage("evidence") /\ a \in Pointing(d)

ProgressInv ==
  /\ narrated = IF stage <= 15 THEN 0 ELSE IF stage >= 18 THEN 3 ELSE stage - 15
  /\ store # {} => stage > Stage("save")
  /\ status = "failed" =>
       stage \in 1..14 \/ Stages[stage] \in Debate \cup {"save", "audit", "respond"}

IInv == TypeOK /\ FiledInv /\ RiskInv /\ OutageInv /\ DrawnInv /\ ProgressInv

\* The invariant holds initially.
LEMMA InitIInv == Init => IInv
<1> SUFFICES ASSUME Init PROVE IInv
  OBVIOUS
<1>1. Filed = {} /\ reports \in Seq([agent : Agents, views : SUBSET Directions])
  BY DEF Init, Filed, ToSet
<1>2. \A d \in Directions : Pointing(d) = {}
  BY <1>1 DEF Pointing, Filed
<1>3. TypeOK
  <2>1. stage \in DOMAIN Stages /\ points \in [Directions -> SUBSET Agents]
    BY StagesDomain DEF Init
  <2> QED
    BY <1>1, <2>1 DEF Init, TypeOK
<1>4. FiledInv
  BY <1>1, AgentStage DEF Init, FiledInv
<1>5. DrawnInv
  BY <1>2, StagesOf DEF Init, DrawnInv
<1> QED
  BY <1>1, <1>3, <1>4, <1>5 DEF Init, IInv, RiskInv, OutageInv, ProgressInv

-----------------------------------------------------------------------------
(***************************************************************************)
(* Every agent, by whatever it judges, files one report of its own.        *)
(***************************************************************************)
Filing(a, v) ==
  /\ a \in Agents /\ v \subseteq Directions
  /\ File(a, v)
  /\ a = "risk" => "bull" \in v
  /\ \/ outage' = outage
     \/ a \in {"news", "options"} /\ v = {} /\ outage' = outage \cup {a}

AgentStep ==
  \/ Fundamental \/ Technical \/ Quant \/ Macro \/ Behavioral \/ News \/ NewsOut
  \/ Options \/ OptionsOut \/ Portfolio \/ Memory \/ Learning \/ Risk

\* A step of an agent files a report.
LEMMA AgentsFile == AgentStep => \E a \in Agents, v \in SUBSET Directions : Filing(a, v)
<1> SUFFICES ASSUME AgentStep
             PROVE  \E a \in Agents, v \in SUBSET Directions : Filing(a, v)
  OBVIOUS
<1>1. ASSUME NEW a \in Agents \ {"risk"}, NEW V \in SUBSET (SUBSET Directions), Analyze(a, V)
      PROVE  \E b \in Agents, v \in SUBSET Directions : Filing(b, v)
  BY <1>1 DEF Analyze, Filing
<1>2. {Views, Views \cup {{}}, Views \cup {{"bull"}}, {{}, {"bull"}, {"bear"}}}
        \subseteq SUBSET (SUBSET Directions)
  BY ViewsAssumption DEF Directions
<1>3. CASE Fundamental \/ Quant \/ Behavioral \/ Macro
  BY <1>1, <1>2, <1>3 DEF Fundamental, Quant, Behavioral, Macro, Agents
<1>4. CASE Technical \/ News \/ Options \/ Learning
  BY <1>1, <1>2, <1>4 DEF Technical, News, Options, Learning, Agents
<1>5. CASE Portfolio \/ Memory
  BY <1>1, <1>2, <1>5 DEF Portfolio, Memory, Agents
<1>6. CASE NewsOut \/ OptionsOut
  <2>1. "news" \in Agents /\ "options" \in Agents
    BY DEF Agents
  <2> QED
    BY <1>6, <2>1 DEF NewsOut, OptionsOut, Filing
<1>7. CASE Risk
  <2>1. "risk" \in Agents
    BY DEF Agents
  <2>2. PICK v \in {{"bull"}, {"bull", "bear"}} : File("risk", v)
    BY <1>7 DEF Risk, Analyze
  <2>3. v \subseteq Directions /\ "bull" \in v /\ outage' = outage
    BY <1>7, <2>2 DEF Risk, Analyze, Directions
  <2> QED
    BY <2>1, <2>2, <2>3 DEF Filing
<1> QED
  BY <1>3, <1>4, <1>5, <1>6, <1>7 DEF AgentStep

\* A filed report is a report.
LEMMA FiledType ==
  ASSUME TypeOK
  PROVE  \A r \in Filed : r.agent \in Agents /\ r.views \subseteq Directions
<1> DEFINE Reports == [agent : Agents, views : SUBSET Directions]
<1>1. reports \in Seq(Reports)
  BY DEF TypeOK
<1> HIDE DEF Reports
<1>2. \A i \in DOMAIN reports : reports[i] \in Reports
  BY <1>1
<1>3. \A r \in Reports : r.agent \in Agents /\ r.views \subseteq Directions
  BY DEF Reports
<1> QED
  BY <1>2, <1>3 DEF Filed, ToSet

\* What filing a report does to the set of reports and to the position.
LEMMA FilingAdds ==
  ASSUME TypeOK, NEW a \in Agents, NEW v \in SUBSET Directions, Filing(a, v)
  PROVE  /\ stage = Stage(a) /\ stage \in 4..14 /\ stage' = stage + 1
         /\ status = "running"
         /\ reports' \in Seq([agent : Agents, views : SUBSET Directions])
         /\ Filed' = Filed \cup {Report(a, v)}
         /\ Report(a, v).agent = a /\ Report(a, v).views = v
         /\ UNCHANGED <<status, narrated, points, evidence, store>>
<1>1. /\ stage \in 1..23 /\ Stages[stage] = a /\ status = "running" /\ stage' = stage + 1
      /\ reports' = Append(reports, Report(a, v))
      /\ UNCHANGED <<status, narrated, points, evidence, store>>
  BY StagesDomain DEF Filing, File, At, TypeOK
<1>2. stage = Stage(a) /\ stage \in 4..14
  BY <1>1, StageOf, AgentStages
<1>3. /\ Report(a, v) \in [agent : Agents, views : SUBSET Directions]
      /\ Report(a, v).agent = a /\ Report(a, v).views = v
  BY DEF Report
<1>4. /\ reports \in Seq([agent : Agents, views : SUBSET Directions])
      /\ Len(reports) \in Nat
      /\ DOMAIN reports = 1..Len(reports)
  BY DEF TypeOK
<1>5. /\ reports' \in Seq([agent : Agents, views : SUBSET Directions])
      /\ DOMAIN reports' = 1..(Len(reports) + 1)
      /\ \A i \in 1..Len(reports) : reports'[i] = reports[i]
      /\ reports'[Len(reports) + 1] = Report(a, v)
  BY <1>1, <1>3, <1>4
<1>6. Filed' = Filed \cup {Report(a, v)}
  BY <1>4, <1>5 DEF Filed, ToSet
<1> QED
  BY <1>1, <1>2, <1>3, <1>5, <1>6

\* The stage after one that is not the last is a stage.
LEMMA NextStage ==
  ASSUME NEW s \in 4..14
  PROVE  s + 1 \in DOMAIN Stages
BY StagesDomain

\* A step that files a report keeps the invariant.
LEMMA FilingStep ==
  ASSUME IInv, NEW a \in Agents, NEW v \in SUBSET Directions, Filing(a, v)
  PROVE  IInv'
<1>0. TypeOK /\ FiledInv /\ RiskInv /\ OutageInv /\ DrawnInv /\ ProgressInv
  BY DEF IInv
<1>1. /\ stage = Stage(a) /\ stage \in 4..14 /\ stage' = stage + 1
      /\ status = "running"
      /\ reports' \in Seq([agent : Agents, views : SUBSET Directions])
      /\ Filed' = Filed \cup {Report(a, v)}
      /\ Report(a, v).agent = a /\ Report(a, v).views = v
      /\ UNCHANGED <<status, narrated, points, evidence, store>>
  BY <1>0, FilingAdds
<1>2. \A r \in Filed : r.agent \in Agents /\ r.agent # a
  <2>1. \A r \in Filed : r.agent \in Agents
    BY <1>0, FiledType
  <2> QED
    BY <1>0, <1>1, <2>1, AgentStage DEF FiledInv
<1>3. TypeOK'
  <2>1. outage' \subseteq {"news", "options"}
    BY <1>0 DEF TypeOK, Filing
  <2>2. stage' \in DOMAIN Stages
    <3>1. stage \in 4..14 /\ stage' = stage + 1
      BY <1>1
    <3> QED
      BY <3>1, NextStage
  <2> QED
    BY <1>0, <1>1, <2>1, <2>2 DEF TypeOK
<1>4. FiledInv'
  <2>1. \A r \in Filed' : stage' > Stage(r.agent)
    BY <1>0, <1>1, <1>2, AgentStage DEF FiledInv
  <2>2. ASSUME NEW b \in Agents, stage' > Stage(b) PROVE \E r \in Filed' : r.agent = b
    <3>1. CASE b = a
      BY <1>1, <3>1
    <3>2. CASE b # a
      <4>1. Stage(b) # Stage(a) /\ Stage(b) \in 4..14
        BY <3>2, AgentStage
      <4>2. stage > Stage(b)
        BY <1>1, <2>2, <4>1
      <4> QED
        BY <1>0, <1>1, <4>2 DEF FiledInv
    <3> QED
      BY <3>1, <3>2
  <2> QED
    BY <2>1, <2>2 DEF FiledInv
<1>5. RiskInv'
  BY <1>0, <1>1 DEF RiskInv, Filing
<1>6. OutageInv'
  <2>1. ASSUME NEW b \in outage
        PROVE  /\ stage' > Stage(b) /\ Report(b, {}) \in Filed'
               /\ \A r \in Filed' : r.agent = b => r.views = {}
    <3>1. stage > Stage(b) /\ Report(b, {}) \in Filed /\ b # a
          /\ \A r \in Filed : r.agent = b => r.views = {}
      BY <1>0, <1>1, <2>1 DEF OutageInv
    <3>2. outage \subseteq {"news", "options"}
      BY <1>0 DEF TypeOK
    <3>3. Stage(b) \in Nat /\ stage \in Nat
      BY <1>1, <2>1, <3>2, StagesOf
    <3> QED
      BY <1>1, <3>1, <3>3
  <2>2. ASSUME v = {}
        PROVE  /\ stage' > Stage(a) /\ Report(a, {}) \in Filed'
               /\ \A r \in Filed' : r.agent = a => r.views = {}
    BY <1>1, <1>2, <2>2
  <2>3. outage' = outage \/ (v = {} /\ outage' = outage \cup {a})
    BY DEF Filing
  <2> QED
    BY <2>1, <2>2, <2>3 DEF OutageInv
<1>7. DrawnInv'
  <2>1. ~(stage > 15) /\ ~(stage' > 15) /\ ~(stage > 19) /\ ~(stage' > 19)
    BY <1>1
  <2> QED
    BY <1>0, <1>1, <2>1, StagesOf DEF DrawnInv
<1>8. ProgressInv'
  <2>1. stage <= 15 /\ stage' <= 15 /\ ~(stage > 21)
    BY <1>1
  <2>2. narrated = 0 /\ store = {}
    BY <1>0, <2>1, StagesOf DEF ProgressInv
  <2> QED
    BY <1>1, <2>1, <2>2 DEF ProgressInv
<1> QED
  BY <1>3, <1>4, <1>5, <1>6, <1>7, <1>8 DEF IInv

-----------------------------------------------------------------------------
(***************************************************************************)
(* The other steps file no report.                                         *)
(***************************************************************************)
\* What every step that files no report keeps, wherever it moves the request to.
LEMMA QuietStep ==
  ASSUME IInv, UNCHANGED <<reports, outage>>, stage \in 1..23, stage' \in 1..23,
         stage' = stage \/ stage' = stage + 1,
         stage' # stage => stage \notin 4..14
  PROVE  FiledInv' /\ RiskInv' /\ OutageInv'
<1>0. TypeOK /\ FiledInv /\ RiskInv /\ OutageInv
  BY DEF IInv
<1>1. Filed' = Filed
  BY DEF Filed
<1>2. \A a \in Agents : stage' > Stage(a) <=> stage > Stage(a)
  BY AgentStage
<1>3. \A r \in Filed : r.agent \in Agents
  BY <1>0, FiledType
<1>4. outage \subseteq Agents
  BY <1>0 DEF TypeOK, Agents
<1> QED
  BY <1>0, <1>1, <1>2, <1>3, <1>4 DEF FiledInv, RiskInv, OutageInv

\* What a side of the debate may draw on does not change either.
LEMMA QuietPointing ==
  ASSUME UNCHANGED reports
  PROVE  \A d \in Directions : Pointing(d)' = Pointing(d)
  BY DEF Pointing

\* The agents that point in a direction are agents.
LEMMA PointingType ==
  ASSUME TypeOK
  PROVE  \A d \in Directions : Pointing(d) \subseteq Agents
  BY FiledType DEF Pointing, Filed

\* They are those whose report has that direction.
LEMMA PointingMeans ==
  ASSUME NEW d, NEW a
  PROVE  a \in Pointing(d) <=> \E r \in Filed : r.agent = a /\ d \in r.views
  BY DEF Pointing, Filed

\* The guards of the steps name the stage they are taken at.
LEMMA AtStage ==
  ASSUME TypeOK, NEW i \in 1..23, At(Stages[i])
  PROVE  stage = i /\ status = "running"
  BY StagesDomain, StagesDiffer DEF At, TypeOK

\* A step outside the graph that neither argues nor assembles evidence.
Plain ==
  /\ UNCHANGED <<reports, outage, points, evidence, narrated>>
  /\ stage' = stage \/ (stage' = stage + 1 /\ stage \in {1, 2, 3, 18, 20, 21, 22})
  /\ status' \in {"idle", "running", "answered", "failed"}
  /\ store' \subseteq {"recommendation", "audit"}
  /\ store' # store => stage' > 21
  /\ status' = "failed" =>
       stage' \in 1..14 \/ Stages[stage'] \in Debate \cup {"save", "audit", "respond"}

\* A step that files nothing and cites nothing keeps the invariant.
LEMMA PlainStep == IInv /\ Plain => IInv'
<1> SUFFICES ASSUME IInv, Plain PROVE IInv'
  OBVIOUS
<1>0. TypeOK /\ DrawnInv /\ ProgressInv /\ stage \in 1..23
  BY StagesDomain DEF IInv, TypeOK
<1>1. /\ stage' \in 1..23
      /\ stage' = stage \/ (stage' = stage + 1 /\ stage \in {1, 2, 3, 18, 20, 21, 22})
  BY <1>0 DEF Plain
<1>2. FiledInv' /\ RiskInv' /\ OutageInv'
  BY <1>0, <1>1, QuietStep DEF Plain
<1>3. TypeOK'
  BY <1>0, <1>1, StagesDomain DEF Plain, TypeOK
<1>4. DrawnInv'
  <2>1. (stage' > 15 <=> stage > 15) /\ (stage' > 19 <=> stage > 19)
    BY <1>0, <1>1
  <2> QED
    BY <1>0, <2>1, QuietPointing, StagesOf DEF Plain, DrawnInv
<1>5. ProgressInv'
  <2>1. narrated = IF stage <= 15 THEN 0 ELSE IF stage >= 18 THEN 3 ELSE stage - 15
    BY <1>0 DEF ProgressInv
  <2>2. narrated' = IF stage' <= 15 THEN 0 ELSE IF stage' >= 18 THEN 3 ELSE stage' - 15
    <3>1. narrated' = narrated
      BY DEF Plain
    <3>2. CASE stage' = stage
      BY <2>1, <3>1, <3>2
    <3>3. CASE stage' = stage + 1 /\ stage \in {1, 2, 3}
      BY <2>1, <3>1, <3>3
    <3>4. CASE stage' = stage + 1 /\ stage \in {18, 20, 21, 22}
      BY <2>1, <3>1, <3>4
    <3> QED
      BY <1>1, <3>2, <3>3, <3>4
  <2>3. store' # {} => stage' > 21
    <3>1. store # {} => stage > 21
      BY <1>0, StagesOf DEF ProgressInv
    <3> QED
      BY <1>0, <1>1, <3>1 DEF Plain
  <2>4. status' = "failed" =>
          stage' \in 1..14 \/ Stages[stage'] \in Debate \cup {"save", "audit", "respond"}
    BY DEF Plain
  <2> QED
    BY <2>2, <2>3, <2>4, StagesOf DEF ProgressInv
<1> QED
  BY <1>2, <1>3, <1>4, <1>5 DEF IInv

\* The debate keeps the invariant.
LEMMA ArgueStep == IInv /\ Argue => IInv'
<1> SUFFICES ASSUME IInv, Argue PROVE IInv'
  OBVIOUS
<1>0. TypeOK /\ DrawnInv /\ ProgressInv
  BY DEF IInv
<1>1. /\ stage \in {15, 16, 17} /\ stage' = stage + 1 /\ narrated' = narrated + 1
      /\ status = "running"
      /\ UNCHANGED <<status, reports, outage, evidence, store>>
      /\ At("bullCase") <=> stage = 15
  <2>1. \E i \in {15, 16, 17} : At(Stages[i])
    BY Positions DEF Argue, Debate
  <2>2. stage \in {15, 16, 17} /\ status = "running"
    BY <1>0, <2>1, AtStage
  <2>3. At("bullCase") <=> stage = 15
    BY <1>0, <2>2, Positions, AtStage DEF At
  <2> QED
    BY <2>2, <2>3 DEF Argue
<1>2. FiledInv' /\ RiskInv' /\ OutageInv'
  BY <1>1, QuietStep
<1>3. points' = [d \in Directions |-> Pointing(d)]
  <2>1. CASE stage = 15
    BY <1>1, <2>1 DEF Argue
  <2>2. CASE stage # 15
    <3>1. points' = points /\ stage > 15
      BY <1>1, <2>2 DEF Argue
    <3>2. \A d \in Directions : points[d] = Pointing(d)
      BY <1>0, <3>1, StagesOf DEF DrawnInv
    <3>3. points \in [Directions -> SUBSET Agents]
      BY <1>0 DEF TypeOK
    <3> QED
      BY <3>1, <3>2, <3>3
  <2> QED
    BY <2>1, <2>2
<1>4. narrated = stage - 15 /\ narrated' = stage' - 15 /\ store = {}
  BY <1>0, <1>1, StagesOf DEF ProgressInv
<1>5. TypeOK'
  <2>1. points' \in [Directions -> SUBSET Agents]
    BY <1>0, <1>3, PointingType
  <2>2. narrated' \in 0..3
    BY <1>1, <1>4
  <2>3. stage' \in DOMAIN Stages
    BY <1>1, StagesDomain
  <2> QED
    BY <1>0, <1>1, <2>1, <2>2, <2>3 DEF TypeOK
<1>6. DrawnInv'
  <2>1. stage' > 15 /\ ~(stage > 19) /\ ~(stage' > 19)
    BY <1>1
  <2> QED
    BY <1>0, <1>1, <1>3, <2>1, QuietPointing, StagesOf DEF DrawnInv
<1>7. ProgressInv'
  BY <1>1, <1>4, StagesOf DEF ProgressInv
<1> QED
  BY <1>2, <1>5, <1>6, <1>7 DEF IInv

\* Assembling the evidence keeps the invariant.
LEMMA AssembleStep == IInv /\ Assemble => IInv'
<1> SUFFICES ASSUME IInv, Assemble PROVE IInv'
  OBVIOUS
<1>0. TypeOK /\ DrawnInv /\ ProgressInv
  BY DEF IInv
<1>1. /\ stage = 19 /\ stage' = 20 /\ status = "running"
      /\ UNCHANGED <<status, reports, outage, narrated, points, store>>
  <2>1. At(Stages[19])
    BY Positions DEF Assemble
  <2> QED
    BY <1>0, <2>1, AtStage DEF Assemble
<1>2. FiledInv' /\ RiskInv' /\ OutageInv'
  BY <1>1, QuietStep
<1>3. evidence' = UNION {{r.agent} \X r.views : r \in Filed}
  BY DEF Assemble, Filed
<1>4. \A a, d : <<a, d>> \in evidence' <=> \E r \in Filed : r.agent = a /\ d \in r.views
  BY <1>3
<1>5. \A a \in Agents, d \in Directions : <<a, d>> \in evidence' <=> a \in Pointing(d)
  BY <1>4, PointingMeans
<1>6. evidence' \subseteq Agents \X Directions
  BY <1>0, <1>3, FiledType
<1>7. TypeOK'
  BY <1>0, <1>1, <1>6, StagesDomain DEF TypeOK
<1>8. DrawnInv'
  BY <1>0, <1>1, <1>5, QuietPointing, StagesOf DEF DrawnInv
<1>9. ProgressInv'
  BY <1>0, <1>1, StagesOf DEF ProgressInv
<1> QED
  BY <1>2, <1>7, <1>8, <1>9 DEF IInv

\* The remaining steps, each from the position it is taken at.
LEMMA OtherSteps ==
  ASSUME IInv,
         \/ Receive \/ Gather \/ NewsUnsortable \/ Forecast \/ Synthesize
         \/ Write \/ Respond \/ Raise
  PROVE  IInv'
<1>0. TypeOK /\ stage \in 1..23
  BY StagesDomain DEF IInv, TypeOK
<1> USE DEF Plain
<1>b. /\ status \in {"idle", "running", "answered", "failed"}
      /\ store \subseteq {"recommendation", "audit"}
  BY <1>0 DEF TypeOK
<1>1. CASE Receive
  <2>1. Plain
    BY <1>b, <1>1 DEF Receive
  <2> QED
    BY <2>1, PlainStep
<1>2. CASE Gather
  <2>1. \E i \in {1, 2, 3} : At(Stages[i])
    BY <1>2, Positions DEF Gather, Gathering
  <2>2. stage \in {1, 2, 3} /\ status = "running"
    BY <1>0, <2>1, AtStage
  <2>3. Plain
    BY <1>0, <1>b, <1>2, <2>2 DEF Gather
  <2> QED
    BY <2>3, PlainStep
<1>3. CASE NewsUnsortable
  <2>1. At(Stages[8])
    BY <1>3, Positions DEF NewsUnsortable
  <2>2. stage = 8
    BY <1>0, <2>1, AtStage
  <2>3. Plain
    BY <1>0, <1>b, <1>3, <2>2 DEF NewsUnsortable
  <2> QED
    BY <2>3, PlainStep
<1>4. CASE Forecast \/ Synthesize
  <2>1. \E i \in {18, 20} : At(Stages[i])
    BY <1>4, Positions DEF Forecast, Synthesize
  <2>2. stage \in {18, 20} /\ status = "running"
    BY <1>0, <2>1, AtStage
  <2>3. Plain
    BY <1>0, <1>b, <1>4, <2>2 DEF Forecast, Synthesize
  <2> QED
    BY <2>3, PlainStep
<1>5. CASE Write
  <2>1. \E i \in {21, 22} : At(Stages[i])
    BY <1>5, Positions DEF Write
  <2>2. stage \in {21, 22} /\ status = "running"
    BY <1>0, <2>1, AtStage
  <2>3. stage' = stage + 1 /\ UNCHANGED <<status, reports, outage, narrated, points, evidence>>
    BY <1>5 DEF Write
  <2>4. store' \subseteq {"recommendation", "audit"}
    BY <1>5, <1>b DEF Write
  <2>5. stage' > 21
    BY <2>2, <2>3
  <2>6. Plain
    BY <2>2, <2>3, <2>4, <2>5
  <2> QED
    BY <2>6, PlainStep
<1>6. CASE Respond
  <2>1. At(Stages[23])
    BY <1>6, Positions DEF Respond
  <2>2. stage = 23
    BY <1>0, <2>1, AtStage
  <2>3. Plain
    BY <1>0, <1>b, <1>6, <2>2 DEF Respond
  <2> QED
    BY <2>3, PlainStep
<1>7. CASE Raise
  <2>1. stage \in 1..14 \/ Stages[stage] \in Debate \cup {"save", "audit", "respond"}
    <3>1. PICK s \in {"quote", "candles", "fundamentals", "quant", "macro", "behavioral",
                      "portfolio", "memory", "risk", "bullCase", "bearCase", "verdict",
                      "save", "audit", "respond"} : Stages[stage] = s
      BY <1>7 DEF Raise, At
    <3>2. s \in Agents \cup {"quote", "candles", "fundamentals"} =>
            \E i \in 1..14 : Stages[i] = s
      BY Positions DEF Agents
    <3>3. s \in Agents \cup {"quote", "candles", "fundamentals"} => stage \in 1..14
      BY <1>0, <3>1, <3>2, StagesDiffer
    <3> QED
      BY <3>1, <3>3 DEF Agents, Debate
  <2>3. Plain
    BY <1>0, <1>b, <1>7, <2>1 DEF Raise
  <2> QED
    BY <2>3, PlainStep
<1> QED
  BY <1>1, <1>2, <1>3, <1>4, <1>5, <1>6, <1>7

\* Every step keeps the invariant.
LEMMA NextIInv == IInv /\ [Next]_vars => IInv'
<1> SUFFICES ASSUME IInv, [Next]_vars PROVE IInv'
  OBVIOUS
<1>1. CASE AgentStep
  BY <1>1, AgentsFile, FilingStep
<1>2. CASE Argue \/ Assemble
  BY <1>2, ArgueStep, AssembleStep
<1>3. CASE \/ Receive \/ Gather \/ NewsUnsortable \/ Forecast \/ Synthesize
           \/ Write \/ Respond \/ Raise
  BY <1>3, OtherSteps
<1>4. CASE UNCHANGED vars
  <2>1. TypeOK /\ ProgressInv
    BY DEF IInv
  <2>2. /\ status \in {"idle", "running", "answered", "failed"}
        /\ store \subseteq {"recommendation", "audit"}
    BY <2>1 DEF TypeOK
  <2>3. Plain
    BY <1>4, <2>1, <2>2 DEF vars, Plain, ProgressInv
  <2> QED
    BY <2>3, PlainStep
<1> QED
  BY <1>1, <1>2, <1>3, <1>4 DEF Next, AgentStep

\* The inductive invariant.
THEOREM Inductive == Spec => []IInv
  BY InitIInv, NextIInv, PTL DEF Spec

-----------------------------------------------------------------------------
\* Every variable keeps its type: no step leads past the last stage, and no more
\* than the three model calls are made.
THEOREM TypeCorrect == Spec => []TypeOK
<1>1. IInv => TypeOK
  BY DEF IInv
<1> QED
  BY Inductive, <1>1, PTL

\* The report that stands in for a feed that was out is argued with by neither
\* side and cited by no evidence.
THEOREM Degraded == Spec => []OutagesDegrade
<1>1. IInv => OutagesDegrade
  <2> SUFFICES ASSUME IInv, NEW a \in outage
               PROVE  /\ stage > Stage(a)
                      /\ Report(a, {}) \in ToSet(reports)
                      /\ \A d \in Directions : a \notin points[d] /\ <<a, d>> \notin evidence
    BY DEF OutagesDegrade
  <2>1. /\ stage > Stage(a) /\ Report(a, {}) \in Filed
        /\ \A r \in Filed : r.agent = a => r.views = {}
    BY DEF IInv, OutageInv
  <2>2. \A d \in Directions : a \notin Pointing(d)
    BY <2>1, PointingMeans
  <2>3. a \in Agents
    BY DEF IInv, TypeOK, Agents
  <2>4. \A d \in Directions : a \notin points[d] /\ <<a, d>> \notin evidence
    BY <2>2, <2>3 DEF IInv, DrawnInv
  <2> QED
    BY <2>1, <2>4 DEF Filed
<1> QED
  BY Inductive, <1>1, PTL

\* The agents cited in the evidence are those the debate argued with.
THEOREM Argued == Spec => []EvidenceWasArgued
<1>1. IInv => EvidenceWasArgued
  <2> SUFFICES ASSUME IInv, stage > Stage("evidence"), NEW d \in Directions
               PROVE  {a \in Agents : <<a, d>> \in evidence} = points[d]
    BY DEF EvidenceWasArgued
  <2>1. points[d] = Pointing(d)
    BY StagesDomain, StagesOf DEF IInv, TypeOK, DrawnInv
  <2>2. Pointing(d) \subseteq Agents
    BY PointingType DEF IInv
  <2>3. \A a \in Agents : <<a, d>> \in evidence <=> a \in Pointing(d)
    BY DEF IInv, DrawnInv
  <2> QED
    BY <2>1, <2>2, <2>3
<1> QED
  BY Inductive, <1>1, PTL

\* Nothing is stored without evidence in support.
THEOREM Supported == Spec => []StoredIsSupported
<1>1. IInv => StoredIsSupported
  <2> SUFFICES ASSUME IInv, store # {} PROVE \E a \in Agents : <<a, "bull">> \in evidence
    BY DEF StoredIsSupported
  <2>1. stage > 21 /\ stage \in Nat
    BY StagesDomain, StagesOf DEF IInv, TypeOK, ProgressInv
  <2>2. PICK r \in Filed : r.agent = "risk"
    BY <2>1, StagesOf DEF IInv, FiledInv, Agents
  <2>3. "risk" \in Pointing("bull")
    BY <2>2, PointingMeans DEF IInv, RiskInv
  <2> QED
    BY <2>1, <2>3, StagesOf DEF IInv, DrawnInv, Directions, Agents
<1> QED
  BY Inductive, <1>1, PTL

\* The model is called with all reports in, and after it was called only the
\* debate, the two writes and the answer can fail.
THEOREM NarratedLast == Spec => []NarrativeIsLast
<1>1. IInv => NarrativeIsLast
  <2> SUFFICES ASSUME IInv, narrated > 0
               PROVE  /\ {r.agent : r \in ToSet(reports)} = Agents
                      /\ status = "failed" =>
                           Stages[stage] \in Debate \cup {"save", "audit", "respond"}
    BY DEF NarrativeIsLast
  <2>1. stage > 15 /\ stage \in Nat
    BY StagesDomain DEF IInv, TypeOK, ProgressInv
  <2>2. \A a \in Agents : \E r \in Filed : r.agent = a
    BY <2>1, AgentStage DEF IInv, FiledInv
  <2>3. \A r \in Filed : r.agent \in Agents
    BY FiledType DEF IInv
  <2>4. status = "failed" => Stages[stage] \in Debate \cup {"save", "audit", "respond"}
    BY <2>1 DEF IInv, ProgressInv
  <2> QED
    BY <2>2, <2>3, <2>4 DEF Filed
<1> QED
  BY Inductive, <1>1, PTL
-----------------------------------------------------------------------------
(***************************************************************************)
(* The refinement: a request of this module goes through the steps that    *)
(* RecommendationService gives a request.  What the writes have stored     *)
(* follows from the position.                                              *)
(***************************************************************************)
WrittenInv ==
  /\ store = IF stage <= 21 THEN {} ELSE IF stage = 22 THEN {"recommendation"}
             ELSE {"recommendation", "audit"}
  /\ status = "idle" => stage = 1

\* A step moves the request on by one call, or ends it where it is.
Advance(s) == status = "running" /\ status' = "running" /\ stage = s /\ stage' = s + 1

Moves ==
  \/ status = "idle" /\ status' = "running" /\ UNCHANGED <<stage, store>>
  \/ \E s \in 1..20 : Advance(s) /\ UNCHANGED store
  \/ Advance(21) /\ store' = store \cup {"recommendation"}
  \/ Advance(22) /\ store' = store \cup {"audit"}
  \/ status = "running" /\ stage = 23 /\ status' = "answered" /\ UNCHANGED <<stage, store>>
  \/ status = "running" /\ status' = "failed" /\ UNCHANGED <<stage, store>>
  \/ UNCHANGED <<status, stage, store>>

\* Every step moves on by one stage, fails or stays.
LEMMA NextMoves == TypeOK /\ [Next]_vars => Moves
<1> SUFFICES ASSUME TypeOK, [Next]_vars PROVE Moves
  OBVIOUS
<1> USE DEF Moves, Advance
<1>1. CASE AgentStep
  <2>1. PICK a \in Agents, v \in SUBSET Directions : Filing(a, v)
    BY <1>1, AgentsFile
  <2>2. /\ stage \in 4..14 /\ stage' = stage + 1 /\ status = "running"
        /\ UNCHANGED <<status, store>>
    BY <2>1, FilingAdds
  <2> QED
    BY <2>2
<1>2. CASE Gather \/ Argue \/ Forecast \/ Assemble \/ Synthesize
  <2>1. \E i \in {1, 2, 3, 15, 16, 17, 18, 19, 20} : At(Stages[i])
    BY <1>2, Positions DEF Gather, Gathering, Argue, Debate, Forecast, Assemble, Synthesize
  <2>2. stage \in {1, 2, 3, 15, 16, 17, 18, 19, 20} /\ status = "running"
    BY <2>1, AtStage
  <2>3. stage' = stage + 1 /\ UNCHANGED <<status, store>>
    BY <1>2 DEF Gather, Argue, Forecast, Assemble, Synthesize
  <2> QED
    BY <2>2, <2>3
<1>3. CASE Write
  <2>1. stage' = stage + 1 /\ UNCHANGED status
    BY <1>3 DEF Write
  <2>2. CASE At("save") /\ store' = store \cup {"recommendation"}
    <3>1. stage = 21 /\ status = "running"
      BY <2>2, AtStage, Positions
    <3> QED
      BY <2>1, <2>2, <3>1
  <2>3. CASE At("audit") /\ store' = store \cup {"audit"}
    <3>1. stage = 22 /\ status = "running"
      BY <2>3, AtStage, Positions
    <3> QED
      BY <2>1, <2>3, <3>1
  <2> QED
    BY <1>3, <2>2, <2>3 DEF Write
<1>4. CASE Respond
  <2>1. stage = 23 /\ status = "running"
    BY <1>4, AtStage, Positions DEF Respond
  <2> QED
    BY <1>4, <2>1 DEF Respond
<1>5. CASE Receive
  BY <1>5 DEF Receive
<1>6. CASE Raise \/ NewsUnsortable
  BY <1>6 DEF Raise, NewsUnsortable, At
<1>7. CASE UNCHANGED vars
  BY <1>7 DEF vars
<1> QED
  BY <1>1, <1>2, <1>3, <1>4, <1>5, <1>6, <1>7 DEF Next, AgentStep

\* Nothing is written initially.
LEMMA InitWritten == Init => WrittenInv
  BY DEF Init, WrittenInv

\* Every step keeps what is true of what was written.
LEMMA NextWritten == TypeOK /\ WrittenInv /\ Moves => WrittenInv'
<1> SUFFICES ASSUME TypeOK, WrittenInv, Moves PROVE WrittenInv'
  OBVIOUS
<1>1. stage \in 1..23
  BY StagesDomain DEF TypeOK
<1> QED
  BY <1>1 DEF WrittenInv, Moves, Advance

\* What is true of what was written holds throughout.
LEMMA Written == Spec => []WrittenInv
<1>1. IInv /\ WrittenInv /\ [Next]_vars => WrittenInv'
  BY NextMoves, NextWritten DEF IInv
<1> QED
  BY <1>1, InitWritten, Inductive, PTL DEF Spec

\* The program counter that RecommendationService sees, by position.
PcAt(st, sg) ==
  IF st # "running" THEN st
  ELSE IF sg < 12 THEN "researching"
  ELSE IF sg = 12 THEN "recalling"
  ELSE IF sg < 21 THEN "debating"
  ELSE IF sg = 21 THEN "saving"
  ELSE IF sg = 22 THEN "auditing" ELSE "responding"

\* Where the memory agent reads and where the result is saved.
LEMMA MemoryStage == Stage("memory") = 12 /\ Stage("save") = 21
  BY StageOf, Positions

\* The places at which the service sees the pipeline move.
LEMMA AtPositions ==
  ASSUME NEW sg \in 1..23
  PROVE  /\ Stages[sg] = "memory" <=> sg = 12
         /\ Stages[sg] = "save" <=> sg = 21
         /\ Stages[sg] = "audit" <=> sg = 22
         /\ Stages[sg] = "respond" <=> sg = 23
  BY Positions, StagesDiffer

\* Where the service is, in terms of the stage.
LEMMA ServicePcNow == TypeOK => ServicePc = PcAt(status, stage)
<1> SUFFICES ASSUME TypeOK PROVE ServicePc = PcAt(status, stage)
  OBVIOUS
<1>1. stage \in 1..23
  BY StagesDomain DEF TypeOK
<1>2. CASE status # "running"
  BY <1>2 DEF ServicePc, PcAt, At
<1>3. CASE status = "running"
  BY <1>1, <1>3, MemoryStage, AtPositions DEF ServicePc, PcAt, At
<1> QED
  BY <1>2, <1>3

\* Where the service is after a step, in terms of the stage.
LEMMA ServicePcNext == TypeOK' => ServicePc' = PcAt(status, stage)'
<1> SUFFICES ASSUME TypeOK' PROVE ServicePc' = PcAt(status, stage)'
  OBVIOUS
<1>1. stage' \in 1..23
  BY StagesDomain DEF TypeOK
<1>2. CASE status' # "running"
  BY <1>2 DEF ServicePc, PcAt, At
<1>3. CASE status' = "running"
  BY <1>1, <1>3, MemoryStage, AtPositions DEF ServicePc, PcAt, At
<1> QED
  BY <1>2, <1>3

\* The initial states of the pipeline are initial states of the service.
LEMMA ServiceInit == Init => Service!Init
<1> SUFFICES ASSUME Init PROVE Service!Init
  OBVIOUS
<1>1. ServicePc = "idle"
  BY InitIInv, ServicePcNow DEF Init, IInv, PcAt
<1>2. store = {}
  BY DEF Init
<1> QED
  BY <1>1, <1>2 DEF Service!Init

\* Every step of the pipeline is a step of the service or leaves it as it is.
LEMMA ServiceStep ==
  IInv /\ IInv' /\ WrittenInv /\ [Next]_vars => [Service!Next]_(Service!vars)
<1> SUFFICES ASSUME IInv, IInv', WrittenInv, [Next]_vars
             PROVE  [Service!Next]_(Service!vars)
  OBVIOUS
<1>0. Moves /\ stage \in 1..23 /\ store' \in SUBSET {"recommendation", "audit"}
  BY NextMoves, StagesDomain DEF IInv, TypeOK
<1>1. ServicePc = PcAt(status, stage) /\ ServicePc' = PcAt(status', stage')
  BY ServicePcNow, ServicePcNext DEF IInv, PcAt
<1>2. CASE status = "idle" /\ status' = "running" /\ UNCHANGED <<stage, store>>
  <2>1. ServicePc = "idle" /\ ServicePc' = "researching"
    BY <1>1, <1>2 DEF PcAt, WrittenInv
  <2>2. Service!Receive("q")
    BY <1>2, <2>1 DEF Service!Receive, Service!Answered
  <2> QED
    BY <2>2 DEF Service!Next
<1>3. ASSUME NEW s \in 1..20, Advance(s), UNCHANGED store
      PROVE  [Service!Next]_(Service!vars)
  <2>1. CASE s = 11
    <3>1. ServicePc = "researching" /\ ServicePc' = "recalling"
      BY <1>1, <1>3, <2>1 DEF PcAt, Advance
    <3>2. Service!Research("q")
      BY <1>3, <3>1 DEF Service!Research
    <3> QED
      BY <3>2 DEF Service!Next, Service!Step
  <2>2. CASE s = 12
    <3>1. ServicePc = "recalling" /\ ServicePc' = "debating"
      BY <1>1, <1>3, <2>2 DEF PcAt, Advance
    <3>2. store = {}
      BY <1>3, <2>2 DEF WrittenInv, Advance
    <3>3. Service!Saved = {}
      BY <3>2 DEF Service!Saved
    <3>4. {} \in Service!RecentRows(1)
      <4>1. Service!Cardinality({}) <= 1
        <5>1. Service!Cardinality({}) = Cardinality({})
          BY DEF Service!Cardinality, Cardinality
        <5> QED
          BY <5>1, FS_EmptySet
      <4> QED
        BY <3>3, <4>1 DEF Service!RecentRows
    <3>5. Service!Recall("q")
      BY <1>3, <3>1, <3>4 DEF Service!Recall
    <3> QED
      BY <3>5 DEF Service!Next, Service!Step
  <2>3. CASE s = 20
    <3>1. ServicePc = "debating" /\ ServicePc' = "saving"
      BY <1>1, <1>3, <2>3 DEF PcAt, Advance
    <3>2. Service!Synthesize("q")
      BY <1>3, <3>1 DEF Service!Synthesize
    <3> QED
      BY <3>2 DEF Service!Next, Service!Step
  <2>4. CASE s \notin {11, 12, 20}
    <3>1. ServicePc' = ServicePc
      BY <1>1, <1>3, <2>4 DEF PcAt, Advance
    <3> QED
      BY <1>3, <3>1 DEF Service!vars
  <2> QED
    BY <2>1, <2>2, <2>3, <2>4
<1>4. CASE Advance(21) /\ store' = store \cup {"recommendation"}
  <2>1. ServicePc = "saving" /\ ServicePc' = "auditing"
    BY <1>1, <1>4 DEF PcAt, Advance
  <2>2. store = {} /\ store' = {"recommendation"}
    BY <1>4 DEF WrittenInv, Advance
  <2>3. Service!Save("q")
    BY <2>1, <2>2 DEF Service!Save, Service!Saved, Service!RowOf
  <2> QED
    BY <2>3 DEF Service!Next, Service!Step
<1>5. CASE Advance(22) /\ store' = store \cup {"audit"}
  <2>1. ServicePc = "auditing" /\ ServicePc' = "responding"
    BY <1>1, <1>5 DEF PcAt, Advance
  <2>2. store = {"recommendation"} /\ store' = {"recommendation", "audit"}
    BY <1>5 DEF WrittenInv, Advance
  <2>3. Service!Audit("q")
    BY <2>1, <2>2 DEF Service!Audit
  <2> QED
    BY <2>3 DEF Service!Next, Service!Step
<1>6. CASE status = "running" /\ stage = 23 /\ status' = "answered" /\ UNCHANGED <<stage, store>>
  <2>1. ServicePc = "responding" /\ ServicePc' = "answered"
    BY <1>1, <1>6 DEF PcAt
  <2>2. Service!Respond("q")
    BY <1>6, <2>1 DEF Service!Respond
  <2> QED
    BY <2>2 DEF Service!Next, Service!Step
<1>7. CASE status = "running" /\ status' = "failed" /\ UNCHANGED <<stage, store>>
  <2>1. ServicePc \in Service!Active /\ ServicePc' = "failed"
    BY <1>1, <1>7 DEF PcAt, Service!Active
  <2>2. Service!Abort("q")
    BY <1>7, <2>1 DEF Service!Abort
  <2> QED
    BY <2>2 DEF Service!Next
<1>8. CASE UNCHANGED <<status, stage, store>>
  <2>1. ServicePc' = ServicePc
    BY <1>1, <1>8
  <2> QED
    BY <1>8, <2>1 DEF Service!vars
<1> QED
  BY <1>0, <1>2, <1>3, <1>4, <1>5, <1>6, <1>7, <1>8 DEF Moves

\* A request, call by call, is a request of RecommendationService: memory is read
\* once the data is there and before anything is synthesised, and the writes
\* follow in their order, whatever fails on the way.
THEOREM ImplementsService == Spec => ServiceSpec
  BY Inductive, Written, ServiceInit, ServiceStep, PTL DEF Spec, ServiceSpec, Service!Spec
=============================================================================

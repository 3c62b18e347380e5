----------------------------- MODULE RecordRules -----------------------------
(***************************************************************************)
(* A recommendation as an object, as a stored payload and as a page: the   *)
(* call and the evidence that synthesis puts in it, what its constructors  *)
(* refuse, the payload it is stored as and read back from, the response    *)
(* to the client and the lists the console makes of it.                    *)
(*                                                                         *)
(* A value object or enum member is [kind, value]; a constructor refuses   *)
(* values its kind does not have.  Probabilities, scores, confidences and  *)
(* the CAGR are in percent, weights in halves.  Of the fields that are     *)
(* copied as they are, texts and numbers alike, one or two of each class   *)
(* stand for all.                                                          *)
(***************************************************************************)
EXTENDS Lists

CONSTANT PageLimit      \* claims the page lists on each side (8 in the code)

ASSUME PageLimitAssumption == PageLimit \in Nat \ {0}

Value(kind, value) == [kind |-> kind, value |-> value]

Actions == {"BUY", "ACCUMULATE", "HOLD", "REDUCE", "SELL", "AVOID"}

\* What the constructor of a value object or an enum accepts.
Accepts(boxed) ==
  CASE boxed.kind \in {"Confidence", "Score"} -> boxed.value \in 0..100
    [] boxed.kind = "Money"      -> boxed.value >= 0
    [] boxed.kind = "Percent"    -> TRUE
    [] boxed.kind = "Action"     -> boxed.value \in Actions
    [] boxed.kind = "Conviction" -> boxed.value \in {"LOW", "MODERATE", "HIGH"}
    [] boxed.kind = "Strength"   -> boxed.value \in -2..2

\* What the constructors of a recommendation and its parts accept.
Valid(rec) ==
  /\ LET boxed == <<rec.action, rec.conviction, rec.confidence, rec.outlook.cagr,
                    rec.outlook.low, rec.outlook.high, rec.risk.atRisk>>
     IN \A i \in DOMAIN boxed : Accepts(boxed[i])
  /\ rec.outlook.probability \in 0..100
  /\ rec.outlook.low.value <= rec.outlook.high.value
  /\ rec.debate.leaning \in -100..100
  /\ \A i \in DOMAIN rec.reports :
       /\ Accepts(rec.reports[i].score)
       /\ \A n \in DOMAIN rec.reports[i].signals : Accepts(rec.reports[i].signals[n].strength)
  /\ rec.assumptions # << >> /\ rec.evidence # << >>

-----------------------------------------------------------------------------
\* Synthesis.

\* Bug: with little probability left, a falling price is only reduced.
ClassifyReducing(probability, cagr) ==
  CASE probability >= 62 /\ cagr > 0 -> "BUY"
    [] probability >= 55 -> "ACCUMULATE"
    [] probability >= 45 -> "HOLD"
    [] probability >= 38 -> "SELL"
    [] OTHER -> IF cagr < 0 THEN "REDUCE" ELSE "AVOID"

\* _classify_action.
Classify(probability, cagr) ==
  CASE probability >= 62 /\ cagr > 0 -> "BUY"
    [] probability >= 55 -> "ACCUMULATE"
    [] probability >= 45 -> "HOLD"
    [] probability >= 38 -> "REDUCE"
    [] OTHER -> IF cagr < 0 THEN "SELL" ELSE "AVOID"

Conviction(confidence) ==
  CASE confidence >= 66 -> "HIGH" [] confidence >= 40 -> "MODERATE" [] OTHER -> "LOW"

\* Bug: what speaks against counts like what speaks for.
UnsignedCounter(evidence) == evidence.weight = 0

IsCounter(evidence) == evidence.weight < 0

\* A claim quotes a signal, its name and value, or says that signals are balanced.
Claim(signal) == <<signal.name, signal.value>>
Balanced == <<"balanced", 0>>

\* One claim for each signal that is not neutral, or else that signals are balanced.
Evidence(reports, now) ==
  LET Cited(report) ==
        LET kept == Only(report.signals, {s \in ToSet(report.signals) : s.strength.value # 0})
        IN [n \in DOMAIN kept |-> [claim |-> Claim(kept[n]), source |-> report.agent,
                                   weight |-> kept[n].strength.value, observedAt |-> now]]
      cited == FlattenSeq([i \in DOMAIN reports |-> Cited(reports[i])])
  IN IF cited # << >> THEN cited
     ELSE <<[claim |-> Balanced, source |-> "synthesis", weight |-> 0, observedAt |-> now]>>

\* The claims against, or else the bear's thesis.
CounterArguments(evidence, debate) ==
  LET against == Only(evidence, {e \in ToSet(evidence) : IsCounter(e)})
  IN IF against = << >> THEN <<debate.bear>> ELSE [n \in DOMAIN against |-> against[n].claim]

\* _dedupe: the first of equal ones stays.
Dedupe(texts) ==
  FoldLeft(LAMBDA kept, text : IF Contains(kept, text) THEN kept ELSE Append(kept, text),
           << >>, texts)

\* GenerateRecommendation._synthesize on the result of the pipeline.
Synthesize(id, result, now) ==
  LET outlook  == result.outlook
      evidence == Evidence(result.reports, now)
  IN [id |-> id, outlook |-> outlook, risk |-> result.risk, debate |-> result.debate,
      reports |-> result.reports, evidence |-> evidence,
      action |-> Value("Action", Classify(outlook.probability, outlook.cagr.value)),
      conviction |-> Value("Conviction", Conviction(outlook.confidence.value)),
      confidence |-> outlook.confidence,
      assumptions |-> Dedupe(FlattenSeq([i \in DOMAIN result.reports |->
                                           result.reports[i].assumptions])),
      counterArguments |-> CounterArguments(evidence, result.debate),
      generatedAt |-> now]

\* What the audit record says of a recommendation.
AuditRecord(rec) ==
  [id |-> rec.id, action |-> rec.action.value, confidence |-> rec.confidence.value]

-----------------------------------------------------------------------------
\* The payload.  A time is [at, zone]; its ISO form carries both.

\* Bug: a time is written without its zone and read as local time.
IsoWithoutZone(time) == <<time.at, "local">>

Iso(time) == <<time.at, time.zone>>

ParseDt(iso) == [at |-> iso[1], zone |-> iso[2]]

OutlookToDict(o) ==
  [o EXCEPT !.cagr = @.value, !.low = @.value, !.high = @.value, !.confidence = @.value]
OutlookFromDict(d) ==
  [d EXCEPT !.cagr = Value("Percent", @), !.low = Value("Percent", @),
            !.high = Value("Percent", @), !.confidence = Value("Confidence", @)]

RiskToDict(r) == [r EXCEPT !.atRisk = @.value]
RiskFromDict(d) == [d EXCEPT !.atRisk = Value("Money", @)]

SignalToDict(s) == [s EXCEPT !.strength = @.value]
SignalFromDict(d) == [d EXCEPT !.strength = Value("Strength", @)]

ReportToDict(r) ==
  [r EXCEPT !.score = @.value, !.signals = [n \in DOMAIN @ |-> SignalToDict(@[n])]]
ReportFromDict(d) ==
  [d EXCEPT !.score = Value("Score", @), !.signals = [n \in DOMAIN @ |-> SignalFromDict(@[n])]]

EvidenceToDict(e) == [e EXCEPT !.observedAt = Iso(@)]
EvidenceFromDict(d) == [d EXCEPT !.observedAt = ParseDt(@)]

ToDict(rec) ==
  [rec EXCEPT
     !.action = @.value, !.conviction = @.value, !.confidence = @.value,
     !.outlook = OutlookToDict(@), !.risk = RiskToDict(@),
     !.reports = [i \in DOMAIN @ |-> ReportToDict(@[i])],
     !.evidence = [i \in DOMAIN @ |-> EvidenceToDict(@[i])],
     !.generatedAt = Iso(@)]

FromDict(payload) ==
  [payload EXCEPT
     !.action = Value("Action", @), !.conviction = Value("Conviction", @),
     !.confidence = Value("Confidence", @),
     !.outlook = OutlookFromDict(@), !.risk = RiskFromDict(@),
     !.reports = [i \in DOMAIN @ |-> ReportFromDict(@[i])],
     !.evidence = [i \in DOMAIN @ |-> EvidenceFromDict(@[i])],
     !.generatedAt = ParseDt(@)]

-----------------------------------------------------------------------------
\* The answer and the page.

\* to_response, for what the page makes of it.
Response(rec) ==
  [id |-> rec.id, action |-> rec.action.value, counterArguments |-> rec.counterArguments,
   evidence |-> [i \in DOMAIN rec.evidence |->
                   [claim |-> rec.evidence[i].claim, isCounter |-> IsCounter(rec.evidence[i])]]]

Claims(response, counter) ==
  LET side == Only(response.evidence, {e \in ToSet(response.evidence) : e.isCounter = counter})
  IN [n \in DOMAIN side |-> side[n].claim]

FirstOf(claims) == SubSeq(claims, 1, IF Len(claims) < PageLimit THEN Len(claims) ELSE PageLimit)

\* renderRecommendation: supporting evidence beside counter-arguments.
Page(response) ==
  [supporting |-> FirstOf(Claims(response, FALSE)),
   against    |-> FirstOf(IF response.counterArguments # << >> THEN response.counterArguments
                          ELSE Claims(response, TRUE))]
=============================================================================

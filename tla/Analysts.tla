------------------------------ MODULE Analysts ------------------------------
(***************************************************************************)
(* Analysts and the trend endpoints at work on bounded inputs: each        *)
(* behaviour is one call.  The properties compare what it returns with a   *)
(* definition that does not follow the code's computation, or with what it *)
(* would return for a neighbouring input.                                  *)
(***************************************************************************)
EXTENDS AnalystRules, TrendRules, RecordRules

VARIABLES case,    \* the analyst and what it is given
          result   \* what it returns

vars == <<case, result>>

Pending == [pending |-> TRUE]

\* Bounds: prices from one tick up, with and without candles; capital from
\* nothing up.  Multiples of 50 make the 2% fallback exact; 250 and 700 over an
\* atr of 1 are positions that the capital limits before the risk does.
Positions == [rule : {"risk"}, entry : {1, 2, 3, 7, 50, 100, 150, 250, 700}, atr : {0, 1, 2, 3, 40},
              capital : {0, 1, 99, 100, 250, 700, 1000, 10000, 45000}]

\* Bounds: books of at most three holdings in three sectors.
Holdings == [symbol : {"TCS", "INFY", "SBIN", "ACME"}, value : {0, 1, 5}]
Books == [rule : {"portfolio"}, holdings : BoundedSeq(Holdings, 3),
          candidate : {"TCS", "SBIN"}]

\* Bounds: three strikes, each listed or not on either side.
Legs == [oi : {0, 1, 3}, iv : {0}] \cup [oi : {2}, iv : {5}]
Sides == UNION {[K -> Legs] : K \in (SUBSET {96, 100, 104}) \ {{}}}
Chains == [rule : {"options"}, calls : Sides, puts : Sides, spot : {99, 102}]

\* Bounds: seven days of three prices.
Prices == 1..3
Series == [rule : {"learning"}, closes : BoundedSeq(Prices, 7)]

\* Bounds: four looks.
Looks == [rule : {"memory"},
          actions : BoundedSeq(Actions, 4)]

\* Bounds: three headlines on two days from three kinds of sources.
Headlines == [sentiment : {-2, -1, 0, 2}, reliability : {3, 6, 7}, at : {1, 2}]
Feeds == [rule : {"news"}, items : BoundedSeq(Headlines, 2) \cup
                                   [1..3 -> [sentiment : {-2, 0, 1}, reliability : {3, 7}, at : {1, 2}]]]

\* Bounds: an adapter built on any day of a week and asked up to three days later
\* for up to three sessions or a longer span; at most five holidays in the week
\* up to its construction.
Fetches == [rule : {"candles"}, built : 0..6, later : {0, 1, 3}, sessions : {0, 1, 2, 3, 5, 20, 60, 260},
            holidays : {h \in SUBSET (-6..0) : Cardinality(h) <= 5}]

\* Bounds: rows for three days, a weekend between the last two, with a close in
\* any of them or in none; the closes rise by just half a percent or a tick more,
\* or fall.
Days == <<3, 4, 7>>
Answers == [raised : {TRUE}, days : {<< >>}, closes : {<< >>}]
           \cup [raised : {FALSE}, days : {Days},
                 closes : {Restrict(<<200, 202, 201>>, rows) : rows \in SUBSET (1..3)}
                          \cup {Restrict(<<203, 201, 200>>, rows) : rows \in {{1, 3}, {1, 2, 3}}}]
Groups == [rule : {"trends"}, group : {"all", "broad", "sector"}, sessions : {1, 2},
           answers : [ToSet(Indices) -> Answers]]

\* Bounds: outlooks on both sides of every threshold, with one fixed report.
Signals(agent) ==
  {[n \in DOMAIN strengths |-> [name |-> agent, value |-> n,
                                strength |-> Value("Strength", strengths[n])]] :
     strengths \in BoundedSeq(-2..2, 3)}
ReportBy(agent, signals) == [agent |-> agent, score |-> Value("Score", 50), signals |-> signals,
                             assumptions |-> <<agent>>]
OutlookOf(probability, cagr, confidence) ==
  [probability |-> probability, cagr |-> Value("Percent", cagr), low |-> Value("Percent", cagr - 1),
   high |-> Value("Percent", cagr), confidence |-> Value("Confidence", confidence)]
ResultOf(outlook, reports) ==
  [outlook |-> outlook, reports |-> reports, risk |-> [atRisk |-> Value("Money", 0)],
   debate |-> [bear |-> <<"bearThesis", 0>>, leaning |-> 0]]
Probabilities == {0, 37, 38, 44, 45, 54, 55, 61, 62, 100}
Outlooks == {OutlookOf(p, cagr, confidence) :
               p \in Probabilities, cagr \in {-1, 0, 1}, confidence \in {0, 39, 40, 65, 66, 95}}

\* Bounds: up to three signals of every strength from each of two agents.
Findings == [rule : {"dossier"},
             of : {ResultOf(o, <<ReportBy("RISK", << >>)>>) : o \in Outlooks}
                  \cup {ResultOf(OutlookOf(50, 0, 50), <<ReportBy("NEWS", n), ReportBy("RISK", r)>>) :
                          n \in Signals("NEWS"), r \in Signals("RISK")}]

Inputs == Positions \cup Books \cup Chains \cup Series \cup Looks \cup Feeds
          \cup Fetches \cup Groups \cup Findings

Init == case \in Inputs /\ result = Pending

Returns(rule, value) ==
  /\ case.rule = rule
  /\ result = Pending
  /\ result' = value
  /\ UNCHANGED case

AssessRisk     == Returns("risk", Plan(case.entry, case.atr, case.capital))
AnalyzeBook    == Returns("portfolio", JudgeBook(case.holdings, case.candidate))
AnalyzeChain   == /\ case.rule = "options"
                  /\ \E atm \in Nearest(Strikes(case), case.spot) :
                       Returns("options", JudgeChain(case, atm))
RunBacktest    == Returns("learning", [trades |-> Backtest(case.closes)])
AnalyzeHistory == Returns("memory", [prior |-> PriorStance(case.actions)])
AnalyzeNews    == Returns("news", JudgeNews(case.items))

FetchCandles   == Returns("candles", [days |-> Candles(Today(case.built, case.built + case.later),
                                                       case.sessions,
                                                       {case.built + h : h \in case.holidays})])

ReadTrends     == Returns("trends", IndexTrends(case.group, case.answers, case.sessions))

\* The recommendation is built, stored, read back by a later request, and shown.
Publish        == /\ case.rule = "dossier"
                  /\ LET rec == Synthesize("id", case.of, [at |-> 1, zone |-> "utc"])
                     IN Returns("dossier", [rec |-> rec, reread |-> FromDict(ToDict(rec)),
                                            audit |-> AuditRecord(rec), page |-> Page(Response(rec))])

Next == AssessRisk \/ AnalyzeBook \/ AnalyzeChain \/ RunBacktest \/ AnalyzeHistory
        \/ AnalyzeNews \/ FetchCandles \/ ReadTrends \/ Publish

Spec == Init /\ [][Next]_vars

Done(rule) == case.rule = rule /\ result # Pending

-----------------------------------------------------------------------------
\* The plan buys the largest quantity that puts at most 1% of the capital at
\* risk and costs at most the capital, and what is lost at the stop is no more
\* than the amount said to be at risk.
PlanIsLargestAffordable ==
  Done("risk") =>
    LET Affordable(n) == /\ 100 * n * AtLeast(case.entry - result.stop, 1) <= case.capital
                         /\ n * case.entry <= case.capital
    IN /\ Affordable(result.quantity)
       /\ ~ Affordable(result.quantity + 1)
       /\ result.quantity * (case.entry - result.stop) <= result.atRisk
       /\ result.value <= case.capital

\* Holding more of the candidate's own sector never makes it less exposed, and
\* never makes a diversifier of a candidate that was none; holding more of the
\* candidate itself never makes it fit better.  (A larger sector mate can: it
\* dilutes the candidate's own weight.)
CrowdingNeverHelps ==
  Done("portfolio") =>
    \A i \in DOMAIN case.holdings :
      SectorOf(case.holdings[i].symbol) = SectorOf(case.candidate) =>
        LET heavier == JudgeBook([case.holdings EXCEPT ![i].value = @ + 3], case.candidate)
        IN /\ heavier.exposure <= result.exposure
           /\ heavier.fit = 1 => result.fit = 1
           /\ case.holdings[i].symbol = case.candidate => heavier.fit <= result.fit

\* No settlement price, listed as a strike or not, owes option buyers less than
\* the max-pain strike.
MaxPainIsGlobal ==
  Done("options") =>
    LET Owed(p) ==
          SumFunction([k \in DOMAIN case.calls |-> IF p > k THEN case.calls[k].oi * (p - k) ELSE 0])
          + SumFunction([k \in DOMAIN case.puts |-> IF p < k THEN case.puts[k].oi * (k - p) ELSE 0])
    IN \A p \in 92..108 : Owed(result.maxPain) <= Owed(p)

\* The backtest does not look ahead (learning_agent.py:12-14): on the first n days
\* alone it makes the same trades of those whose holding period has ended by then,
\* and whether it buys on a day does not depend on any later close.
BacktestIsCausal ==
  Done("learning") =>
    /\ \A n \in 0..Len(case.closes) :
         Backtest(SubSeq(case.closes, 1, n)) =
           Restrict(result.trades, {d \in DOMAIN result.trades : d + Horizon <= n})
    /\ \A d \in Decisions(case.closes), later \in DOMAIN case.closes, p \in Prices :
         later > d => d \in Decisions([case.closes EXCEPT ![later] = p])

\* Recency matters (memory_agent.py): moving the more constructive of two looks
\* to the more recent place never lowers the prior stance.
RecencyCounts ==
  Done("memory") =>
    \A i, j \in DOMAIN case.actions :
      i < j /\ Stance(case.actions[j]) > Stance(case.actions[i]) =>
        PriorStance([case.actions EXCEPT ![i] = case.actions[j],
                                         ![j] = case.actions[i]]) >= result.prior

\* News are read even-handedly: the mirror image of a feed gets the mirror image
\* of its report, and a more reliable source never weighs against its own item.
NewsIsEvenHanded ==
  Done("news") =>
    LET Mirror == [i \in DOMAIN case.items |->
                     [case.items[i] EXCEPT !.sentiment = - @]]
        Trusted(i) == [case.items EXCEPT ![i].reliability = @ + 2]
    IN case.items # << >> =>
         /\ JudgeNews(Mirror).net = - result.net
         /\ JudgeNews(Mirror).tilt = - result.tilt
         /\ \A i \in DOMAIN case.items :
              /\ case.items[i].sentiment = 2 => JudgeNews(Trusted(i)).net >= result.net
              /\ case.items[i].sentiment = -2 => JudgeNews(Trusted(i)).net <= result.net

\* A week is a full week: the candles handed on are the sessions asked for, at
\* least one, and the latest there were when the adapter was built; the calendar
\* window (1.6 days for each session and 10 more) leaves none out, whatever
\* weekends and holidays fall in it.
SessionsAreComplete ==
  Done("candles") =>
    LET Traded(day) == Weekday(day) /\ day - case.built \notin case.holidays
    IN /\ Cardinality(result.days) = Max({1, case.sessions})
       /\ \A day \in Min(result.days)..case.built : Traded(day) <=> day \in result.days

\* What is reported on an index does not depend on any other (get_index_trends.py:
\* 3-4): it is reported once, as a trend or as an error, and another index that
\* answers differently or not at all changes neither.
TrendsAreIsolated ==
  Done("trends") =>
    LET On(report, i) == <<{t \in ToSet(report.trends) : t.index = i}, i \in ToSet(report.errors)>>
        With(j, answer) == IndexTrends(case.group, [case.answers EXCEPT ![j] = answer], case.sessions)
        Asked == ToSet(IndicesFor(case.group))
    IN /\ Len(result.trends) + Len(result.errors) = Cardinality(Asked)
       /\ \A i \in Asked :
            /\ i \in ToSet(result.errors) <=> On(result, i)[1] = {}
            /\ \A j \in Asked \ {i}, answer \in Answers : On(With(j, answer), i) = On(result, i)

\* The days a feed has a close for, and that close.
DaysClosed(answer) == {answer.days[i] : i \in DOMAIN answer.closes}
CloseOn(answer, day) == answer.closes[CHOOSE i \in DOMAIN answer.closes : answer.days[i] = day]

\* The trend names the latest days with a close, as many as were asked for if
\* there are, and its direction is that from the first of them to the last.
IsDated(t, answer, sessions) ==
  LET named == {bar.on : bar \in ToSet(t.sessions)}
  IN /\ named # {} /\ named \subseteq DaysClosed(answer)
     /\ \A day \in DaysClosed(answer) \ named :
          Cardinality(named) = sessions /\ day < Min(named)
     /\ t.asOf = Max(named)
     /\ t.direction = Direction(<<CloseOn(answer, Min(named)), CloseOn(answer, Max(named))>>)

\* A week is dated right although gap rows are skipped, in one index and not in
\* another: a trend names the latest days its own feed has a close for, and its
\* direction is that of the closes of those days.  An index without any close is
\* an error, not a trend.
TrendsAreDated ==
  Done("trends") =>
    /\ \A t \in ToSet(result.trends) : IsDated(t, case.answers[t.index], case.sessions)
    /\ \A i \in ToSet(result.errors) :
         case.answers[i].raised \/ DaysClosed(case.answers[i]) = {}

\* What is stored is what was said: a later request reads back the recommendation
\* its client got, no constructor refuses it, and its audit record agrees with it.
\* (serialization.py: from_dict(to_dict(rec)) == rec.)
StoredReadsBack ==
  Done("dossier") =>
    /\ Valid(result.rec)
    /\ result.reread = result.rec
    /\ AuditRecord(result.reread) = result.audit

\* The page is two-sided: a directional signal of any agent is listed on its own
\* side and not on the other, unless its side is full, and the side against is
\* never empty, although supporting and counter claims come from two fields.
PageIsTwoSided ==
  Done("dossier") =>
    LET Signalled == UNION {ToSet(r.signals) : r \in ToSet(case.of.reports)}
        Directed(up) ==
          {Claim(s) : s \in {t \in Signalled : IF up THEN t.strength.value > 0
                                                    ELSE t.strength.value < 0}}
        Lists(side, other, up) ==
          /\ Directed(up) \cap ToSet(other) = {}
          /\ \/ Directed(up) \subseteq ToSet(side)
             \/ Len(side) = PageLimit /\ ToSet(side) \subseteq Directed(up)
    IN /\ Lists(result.page.supporting, result.page.against, TRUE)
       /\ Lists(result.page.against, result.page.supporting, FALSE)
       /\ result.page.against # << >>

\* The call follows the outlook: a recommendation with at least the probability
\* and at least the expected CAGR of another is, to the memory agent that reads
\* both later, at least as constructive.
CallFollowsOutlook ==
  Done("dossier") =>
    \A p \in Probabilities, cagr \in {-1, 0, 1} :
      p >= case.of.outlook.probability /\ cagr >= case.of.outlook.cagr.value =>
        Stance(Classify(p, cagr)) >= Stance(result.reread.action.value)

-----------------------------------------------------------------------------
\* A claim of a comment that the code does not keep.

\* get_weekly_trend.py:1 "the last week's price trend", trend.py:50 "the last
\* sessions": the latest session there is, is among them.
WeekIsCurrent ==
  Done("candles") =>
    LET asked == case.built + case.later
        traded == {day \in (case.built - 9)..asked :
                     Weekday(day) /\ day - case.built \notin case.holidays}
    IN Max(traded) \in result.days
=============================================================================

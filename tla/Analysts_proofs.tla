--------------------------- MODULE Analysts_proofs ---------------------------
(***************************************************************************)
(* What the rules of the analysts compute, for every input they may be     *)
(* given: sizes and calls, strikes and trades, sentiment, memory and       *)
(* books, the sessions of a window and the groups of the indices, the      *)
(* evidence and its page, and what is stored and read back.  At the end    *)
(* of each part the invariant that a run checks follows for every state.   *)
(***************************************************************************)
EXTENDS Analysts, OperatorTheorems, SequenceTheorems, TLAPS

\* What n shares cost and put at risk stays within the capital and its 1%.
WithinLimits(n, entry, perShare, capital) ==
  100 * n * perShare <= capital /\ n * entry <= capital

\* Floor division: b goes a \div b times into a, and not once more.
LEMMA FloorDivision ==
  ASSUME NEW a \in Nat, NEW b \in Nat \ {0}
  PROVE  /\ a \div b \in Nat
         /\ (a \div b) * b <= a
         /\ a < ((a \div b) + 1) * b
<1> DEFINE q == a \div b
           r == a % b
<1>1. q \in Int /\ r \in 0..(b - 1) /\ a = b * q + r
  BY SMT
<1>2. q >= 0
  <2>1. SUFFICES ASSUME q <= -1 PROVE FALSE
    BY <1>1
  <2>2. b * q <= b * (-1)
    BY <1>1, <2>1, SMT
  <2>3. QED
    BY <1>1, <2>2, SMT
<1>3. q * b = b * q /\ (q + 1) * b = b * q + b
  BY <1>1, SMT
<1>4. QED
  BY <1>1, <1>2, <1>3, SMT

\* More shares cost more.
LEMMA MoreCostsMore ==
  ASSUME NEW m \in Nat, NEW n \in Nat, NEW c \in Nat, m <= n
  PROVE  m * c <= n * c
<1>1. PICK d \in Nat : n = m + d
  <2>1. n - m \in Nat /\ n = m + (n - m)
    BY SMT
  <2>2. QED
    BY <2>1
<1>2. n * c = m * c + d * c
  BY <1>1, SMT
<1>3. d * c >= 0
  BY <1>1, SMT
<1>4. m * c \in Int /\ d * c \in Int
  BY <1>1, SMT
<1>5. QED
  BY <1>2, <1>3, <1>4, SMT

\* Sequences of elements of a set have them at every place.
LEMMA ElementOf ==
  ASSUME NEW S, NEW q \in Seq(S)
  PROVE  q = [i \in DOMAIN q |-> q[i]] /\ \A i \in DOMAIN q : q[i] \in S
OBVIOUS

\* The bounded sequences of the inputs are sequences.
LEMMA BoundedSeqs ==
  ASSUME NEW S, NEW n \in Nat, NEW s \in BoundedSeq(S, n)
  PROVE  s \in Seq(S)
BY DEF BoundedSeq, SeqOf

\* Quantity is the largest number of shares within both limits.
LEMMA QuantityIsLargest ==
  ASSUME NEW entry \in Nat \ {0}, NEW perShare \in Nat \ {0}, NEW capital \in Nat
  PROVE  /\ Quantity(entry, perShare, capital) \in Nat
         /\ WithinLimits(Quantity(entry, perShare, capital), entry, perShare, capital)
         /\ \A n \in Nat : WithinLimits(n, entry, perShare, capital)
                             => n <= Quantity(entry, perShare, capital)
<1> DEFINE risk == 100 * perShare
           budgeted == capital \div risk
           bought == Quantity(entry, perShare, capital)
<1>1. risk \in Nat \ {0}
  BY SMT
<1>2. /\ budgeted \in Nat
      /\ budgeted * risk <= capital
      /\ capital < (budgeted + 1) * risk
  <2> HIDE DEF risk
  <2>1. QED
    BY <1>1, FloorDivision
<1>3. /\ capital \div entry \in Nat
      /\ (capital \div entry) * entry <= capital
      /\ capital < ((capital \div entry) + 1) * entry
  BY FloorDivision
<1>4. \A n \in Nat : 100 * n * perShare = n * risk
  BY SMT
<1> HIDE DEF risk, budgeted
<1>5. CASE budgeted * entry > capital
  <2>1. bought = capital \div entry
    BY <1>5 DEF Quantity, budgeted, risk
  <2>2. bought < budgeted
    <3>1. SUFFICES ASSUME budgeted <= bought PROVE FALSE
      BY <1>2, <1>3, <2>1, SMT
    <3>2. budgeted * entry <= bought * entry
      BY <1>2, <1>3, <2>1, <3>1, MoreCostsMore
    <3>3. QED
      BY <1>3, <1>5, <2>1, <3>2, <1>2, SMT
  <2>3. bought * risk <= capital
    <3>1. bought * risk <= budgeted * risk
      BY <1>1, <1>2, <1>3, <2>1, <2>2, MoreCostsMore
    <3>2. bought * risk \in Int /\ budgeted * risk \in Int
      BY <1>1, <1>2, <1>3, <2>1, SMT
    <3>3. QED
      BY <1>2, <3>1, <3>2, SMT
  <2>4. ASSUME NEW n \in Nat, n * entry <= capital
        PROVE  n <= bought
    <3>1. SUFFICES ASSUME bought + 1 <= n PROVE FALSE
      BY <1>3, <2>1, SMT
    <3>2. (bought + 1) * entry <= n * entry
      BY <1>3, <2>1, <3>1, MoreCostsMore
    <3>3. (bought + 1) * entry \in Int /\ n * entry \in Int
      BY <1>3, <2>1, SMT
    <3>4. QED
      BY <1>3, <2>1, <2>4, <3>2, <3>3, SMT
  <2>5. QED
    BY <1>3, <1>4, <2>1, <2>3, <2>4 DEF WithinLimits
<1>6. CASE ~ (budgeted * entry > capital)
  <2>1. bought = budgeted
    BY <1>6 DEF Quantity, budgeted, risk
  <2>2. bought * entry <= capital
    BY <1>2, <1>6, <2>1, SMT
  <2>3. ASSUME NEW n \in Nat, n * risk <= capital
        PROVE  n <= bought
    <3>1. SUFFICES ASSUME bought + 1 <= n PROVE FALSE
      BY <1>2, <2>1, SMT
    <3>2. (bought + 1) * risk <= n * risk
      BY <1>1, <1>2, <2>1, <3>1, MoreCostsMore
    <3>3. (bought + 1) * risk \in Int /\ n * risk \in Int
      BY <1>1, <1>2, <2>1, SMT
    <3>4. QED
      BY <1>2, <2>1, <2>3, <3>2, <3>3, SMT
  <2>4. QED
    BY <1>2, <1>4, <2>1, <2>2, <2>3 DEF WithinLimits
<1>7. QED
  BY <1>5, <1>6

\* What the plan promises of its stop, its amounts and its quantity.
SoundPlan(plan, entry, capital) ==
  /\ plan.stop \in 1..entry
  /\ plan.quantity \in Nat
  /\ plan.target - entry = 2 * AtLeast(entry - plan.stop, 1)
  /\ plan.atRisk = plan.quantity * AtLeast(entry - plan.stop, 1)
  /\ plan.value = plan.quantity * entry
  /\ WithinLimits(plan.quantity, entry, AtLeast(entry - plan.stop, 1), capital)
  /\ \A n \in Nat : WithinLimits(n, entry, AtLeast(entry - plan.stop, 1), capital)
                      => n <= plan.quantity

\* Whatever the price, the range and the capital, the risk agent's plan is
\* sound: in particular the stop is never above the price nor below a tick.
THEOREM PlanIsSound ==
  ASSUME NEW entry \in Nat \ {0}, NEW atr \in Nat, NEW capital \in Nat
  PROVE  SoundPlan(Plan(entry, atr, capital), entry, capital)
<1> DEFINE plan == Plan(entry, atr, capital)
           stop == AtLeast(entry - StopDistance(entry, atr), 1)
           perShare == AtLeast(entry - stop, 1)
<1>1. StopDistance(entry, atr) \in Nat
  <2>1. entry \div 50 \in Nat
    BY FloorDivision
  <2>2. QED
    BY <2>1 DEF StopDistance, AtLeast
<1>2. stop \in 1..entry
  BY <1>1 DEF AtLeast
<1>3. perShare \in Nat \ {0}
  BY <1>2 DEF AtLeast
<1>4. /\ plan.stop = stop
      /\ plan.target = entry + 2 * perShare
      /\ plan.quantity = Quantity(entry, perShare, capital)
      /\ plan.atRisk = plan.quantity * perShare
      /\ plan.value = plan.quantity * entry
  BY DEF Plan
<1> HIDE DEF plan, stop
<1>5. AtLeast(entry - plan.stop, 1) = perShare
  BY <1>4
<1> HIDE DEF perShare
<1>6. plan.target - entry = 2 * perShare
  BY <1>3, <1>4
<1>7. /\ plan.quantity \in Nat
      /\ WithinLimits(plan.quantity, entry, perShare, capital)
      /\ \A n \in Nat : WithinLimits(n, entry, perShare, capital) => n <= plan.quantity
  BY <1>3, <1>4, QuantityIsLargest
<1>8. SoundPlan(plan, entry, capital)
  BY <1>2, <1>4, <1>5, <1>6, <1>7 DEF SoundPlan
<1>9. QED
  BY <1>8 DEF plan

-----------------------------------------------------------------------------
(***************************************************************************)
(* The inductive invariant: a call that has returned returned what the     *)
(* rule makes of its input.                                                *)
(***************************************************************************)
Published(of) ==
  LET rec == Synthesize("id", of, [at |-> 1, zone |-> "utc"])
  IN [rec |-> rec, reread |-> FromDict(ToDict(rec)),
      audit |-> AuditRecord(rec), page |-> Page(Response(rec))]

Fetched(c) ==
  [days |-> Candles(Today(c.built, c.built + c.later), c.sessions,
                    {c.built + h : h \in c.holidays})]

ReturnedWhatItMakes ==
  /\ case.rule = "risk"      => result = Plan(case.entry, case.atr, case.capital)
  /\ case.rule = "portfolio" => result = JudgeBook(case.holdings, case.candidate)
  /\ case.rule = "options"   => \E atm : result = JudgeChain(case, atm)
  /\ case.rule = "learning"  => result = [trades |-> Backtest(case.closes)]
  /\ case.rule = "memory"    => result = [prior |-> PriorStance(case.actions)]
  /\ case.rule = "news"      => result = JudgeNews(case.items)
  /\ case.rule = "candles"   => result = Fetched(case)
  /\ case.rule = "trends"    => result = IndexTrends(case.group, case.answers, case.sessions)
  /\ case.rule = "dossier"   => result = Published(case.of)

Answered == case \in Inputs /\ (result # Pending => ReturnedWhatItMakes)

\* The invariant holds initially and every call that returns keeps it.
LEMMA AnsweredInvariant == Spec => []Answered
<1>1. Init => Answered
  BY DEF Init, Answered
<1>2. Answered /\ [Next]_vars => Answered'
  <2> SUFFICES ASSUME Answered, [Next]_vars
               PROVE  Answered'
    OBVIOUS
  <2>1. case' = case => Answered' <=> (result' # Pending => ReturnedWhatItMakes')
    BY DEF Answered
  <2>2. CASE AssessRisk
    BY <2>1, <2>2 DEF AssessRisk, Returns, ReturnedWhatItMakes
  <2>3. CASE AnalyzeBook
    BY <2>1, <2>3 DEF AnalyzeBook, Returns, ReturnedWhatItMakes
  <2>4. CASE AnalyzeChain
    BY <2>1, <2>4 DEF AnalyzeChain, Returns, ReturnedWhatItMakes
  <2>5. CASE RunBacktest
    BY <2>1, <2>5 DEF RunBacktest, Returns, ReturnedWhatItMakes
  <2>6. CASE AnalyzeHistory
    BY <2>1, <2>6 DEF AnalyzeHistory, Returns, ReturnedWhatItMakes
  <2>7. CASE AnalyzeNews
    BY <2>1, <2>7 DEF AnalyzeNews, Returns, ReturnedWhatItMakes
  <2>8. CASE FetchCandles
    BY <2>1, <2>8 DEF FetchCandles, Returns, ReturnedWhatItMakes, Fetched
  <2>9. CASE ReadTrends
    BY <2>1, <2>9 DEF ReadTrends, Returns, ReturnedWhatItMakes
  <2>10. CASE Publish
    BY <2>1, <2>10 DEF Publish, Returns, ReturnedWhatItMakes, Published
  <2>11. CASE UNCHANGED vars
    BY <2>1, <2>11 DEF vars, Answered, ReturnedWhatItMakes
  <2> QED
    BY <2>2, <2>3, <2>4, <2>5, <2>6, <2>7, <2>8, <2>9, <2>10, <2>11 DEF Next
<1> QED
  BY <1>1, <1>2, PTL DEF Spec

\* The rule of an input says which set it is from.
LEMMA InputOfRule ==
  ASSUME case \in Inputs
  PROVE  /\ case.rule = "risk"      => case \in Positions
         /\ case.rule = "portfolio" => case \in Books
         /\ case.rule = "options"   => case \in Chains
         /\ case.rule = "learning"  => case \in Series
         /\ case.rule = "memory"    => case \in Looks
         /\ case.rule = "news"      => case \in Feeds
         /\ case.rule = "candles"   => case \in Fetches
         /\ case.rule = "trends"    => case \in Groups
         /\ case.rule = "dossier"   => case \in Findings
<1>1. /\ case \in Positions => case.rule = "risk"
      /\ case \in Books     => case.rule = "portfolio"
      /\ case \in Chains    => case.rule = "options"
      /\ case \in Series    => case.rule = "learning"
      /\ case \in Looks     => case.rule = "memory"
  BY DEF Positions, Books, Chains, Series, Looks
<1>2. /\ case \in Feeds     => case.rule = "news"
      /\ case \in Fetches   => case.rule = "candles"
      /\ case \in Groups    => case.rule = "trends"
      /\ case \in Findings  => case.rule = "dossier"
  BY DEF Feeds, Fetches, Groups, Findings
<1> QED
  BY <1>1, <1>2 DEF Inputs

\* The plan buys the largest affordable quantity and loses at its stop no more
\* than it says.
THEOREM PlansAreLargestAffordable == Spec => []PlanIsLargestAffordable
<1>1. Answered => PlanIsLargestAffordable
  <2> SUFFICES ASSUME Answered, Done("risk")
               PROVE  LET Affordable(n) ==
                            /\ 100 * n * AtLeast(case.entry - result.stop, 1) <= case.capital
                            /\ n * case.entry <= case.capital
                      IN /\ Affordable(result.quantity)
                         /\ ~ Affordable(result.quantity + 1)
                         /\ result.quantity * (case.entry - result.stop) <= result.atRisk
                         /\ result.value <= case.capital
    BY DEF PlanIsLargestAffordable
  <2> DEFINE loss == AtLeast(case.entry - result.stop, 1)
  <2>1. /\ case.entry \in Nat \ {0} /\ case.atr \in Nat /\ case.capital \in Nat
        /\ result = Plan(case.entry, case.atr, case.capital)
    BY InputOfRule DEF Done, Answered, ReturnedWhatItMakes, Positions
  <2>2. SoundPlan(result, case.entry, case.capital)
    BY <2>1, PlanIsSound
  <2>3. /\ result.stop \in 1..case.entry
        /\ result.quantity \in Nat
        /\ result.atRisk = result.quantity * loss
        /\ result.value = result.quantity * case.entry
        /\ WithinLimits(result.quantity, case.entry, loss, case.capital)
        /\ ~ WithinLimits(result.quantity + 1, case.entry, loss, case.capital)
    BY <2>2 DEF SoundPlan
  <2>4. case.entry - result.stop \in Nat /\ loss \in Nat /\ case.entry - result.stop <= loss
    BY <2>1, <2>3 DEF AtLeast
  <2>5. (case.entry - result.stop) * result.quantity <= loss * result.quantity
    BY <2>3, <2>4, MoreCostsMore
  <2> HIDE DEF loss
  <2>6. result.quantity * (case.entry - result.stop) <= result.quantity * loss
    BY <2>1, <2>3, <2>4, <2>5, SMT
  <2>7. QED
    BY <2>3, <2>6 DEF WithinLimits, loss
<1>2. QED
  BY <1>1, AnsweredInvariant, PTL

-----------------------------------------------------------------------------
(***************************************************************************)
(* The call of synthesis.                                                  *)
(***************************************************************************)
\* A higher probability or CAGR never makes the call less constructive.
THEOREM CallIsMonotone ==
  ASSUME NEW p \in Int, NEW q \in Int, NEW c \in Int, NEW d \in Int, p <= q, c <= d
  PROVE  Stance(Classify(p, c)) <= Stance(Classify(q, d))
BY DEF Classify, Stance

\* The call read back from a stored recommendation is the one synthesis made.
LEMMA CallReadsBack ==
  ASSUME NEW id, NEW of, NEW now
  PROVE  FromDict(ToDict(Synthesize(id, of, now))).action =
           Value("Action", Classify(of.outlook.probability, of.outlook.cagr.value))
BY DEF FromDict, ToDict, Synthesize, Value

\* The outlooks among the inputs are numbers.
LEMMA FindingsOutlook ==
  ASSUME NEW c \in Findings
  PROVE /\ c.of.outlook.probability \in Int
        /\ c.of.outlook.cagr.value \in Int
<1>1. c.of \in {ResultOf(o, <<ReportBy("RISK", << >>)>>) : o \in Outlooks}
             \cup {ResultOf(OutlookOf(50, 0, 50), <<ReportBy("NEWS", n), ReportBy("RISK", r)>>) :
                     n \in Signals("NEWS"), r \in Signals("RISK")}
  BY DEF Findings
<1>2. c.of.outlook \in Outlooks \cup {OutlookOf(50, 0, 50)}
  BY <1>1 DEF ResultOf
<1>3. QED
  BY <1>2 DEF Outlooks, OutlookOf, Probabilities, Value

\* A recommendation with a better outlook than another is, to whoever reads both
\* later, at least as constructive.
THEOREM CallsFollowOutlook == Spec => []CallFollowsOutlook
<1>1. Answered => CallFollowsOutlook
  <2> SUFFICES ASSUME Answered, Done("dossier"),
                      NEW p \in Probabilities, NEW cagr \in {-1, 0, 1},
                      p >= case.of.outlook.probability, cagr >= case.of.outlook.cagr.value
               PROVE  Stance(Classify(p, cagr)) >= Stance(result.reread.action.value)
    BY DEF CallFollowsOutlook
  <2>1. /\ case \in Findings
        /\ result.reread.action.value =
             Classify(case.of.outlook.probability, case.of.outlook.cagr.value)
    <3>1. case \in Findings /\ result = Published(case.of)
      BY InputOfRule DEF Done, Answered, ReturnedWhatItMakes
    <3>2. result.reread.action =
            Value("Action", Classify(case.of.outlook.probability, case.of.outlook.cagr.value))
      BY <3>1, CallReadsBack DEF Published
    <3> QED
      BY <3>1, <3>2 DEF Value
  <2>2. case.of.outlook.probability \in Int /\ case.of.outlook.cagr.value \in Int
    BY <2>1, FindingsOutlook
  <2>3. p \in Int /\ cagr \in Int
    BY DEF Probabilities
  <2>4. Stance(Classify(case.of.outlook.probability, case.of.outlook.cagr.value))
          <= Stance(Classify(p, cagr))
    BY <2>2, <2>3, CallIsMonotone
  <2>5. QED
    BY <2>1, <2>4, <2>2, <2>3 DEF Classify, Stance
<1>2. QED
  BY <1>1, AnsweredInvariant, PTL

-----------------------------------------------------------------------------
(***************************************************************************)
(* The backtest of the learning agent, for every series of closes.         *)
(***************************************************************************)
\* Whether the rule buys on a day depends on the closes up to that day.
LEMMA DecisionIsCausal ==
  ASSUME NEW c \in Seq(Int), NEW e \in Seq(Int), NEW d \in Int, d > SmaPeriod,
         d <= Len(c), d <= Len(e), \A i \in 1..d : c[i] = e[i]
  PROVE  Above(c, d) <=> Above(e, d)
<1> DEFINE window == (d - SmaPeriod + 1)..d
<1>1. SmaPeriod \in Nat /\ d \in 1..d /\ \A i \in window : i \in 1..d
  BY WindowAssumption
<1>2. IsFiniteSet(window)
  BY <1>1, FS_Interval
<1>3. \A i \in window : c[i] = e[i]
  BY <1>1
<1> HIDE DEF window
<1>4. SumFunctionOnSet(c, window) = SumFunctionOnSet(e, window)
  BY <1>2, <1>3, SumCongruence
<1> QED
  BY <1>1, <1>4 DEF Above, window

\* Days that follow add trades and change none.
THEOREM BacktestIgnoresTheFuture ==
  ASSUME NEW c \in Seq(Int), NEW n \in 0..Len(c)
  PROVE  Backtest(SubSeq(c, 1, n)) =
           Restrict(Backtest(c), {d \in DOMAIN Backtest(c) : d + Horizon <= n})
<1> DEFINE e == SubSeq(c, 1, n)
<1>1. /\ n \in Nat /\ n <= Len(c) /\ e \in Seq(Int) /\ Len(e) = n
      /\ \A i \in 1..n : c[i] = e[i]
  OBVIOUS
<1> HIDE DEF e
<1>2. SmaPeriod \in Nat /\ Horizon \in Nat
  BY WindowAssumption
<1>3. ASSUME NEW d \in Int, d > SmaPeriod, d + Horizon <= n
      PROVE  Above(c, d) <=> Above(e, d)
  <2>1. d <= n /\ d <= Len(c) /\ \A i \in 1..d : i \in 1..n
    BY <1>1, <1>2, <1>3
  <2> QED
    BY <1>1, <1>3, <2>1, DecisionIsCausal
<1>4. Decisions(e) = {d \in Decisions(c) : d + Horizon <= n}
  BY <1>1, <1>2, <1>3 DEF Decisions
<1>5. \A d \in Decisions(e) : /\ d \in Int /\ d > SmaPeriod /\ d + Horizon <= n
                              /\ c[d] = e[d] /\ c[d + Horizon] = e[d + Horizon]
  <2> SUFFICES ASSUME NEW d \in Decisions(e)
               PROVE  /\ d \in Int /\ d > SmaPeriod /\ d + Horizon <= n
                      /\ c[d] = e[d] /\ c[d + Horizon] = e[d + Horizon]
    OBVIOUS
  <2>1. d \in Int /\ d > SmaPeriod /\ d + Horizon <= n
    BY <1>1, <1>2 DEF Decisions
  <2>2. d \in 1..n /\ d + Horizon \in 1..n
    BY <1>1, <1>2, <2>1
  <2> QED
    BY <1>1, <2>1, <2>2
<1>6. DOMAIN Backtest(c) = Decisions(c)
  BY DEF Backtest
<1>7. \A d \in Decisions(e) :
        Backtest(c)[d] = [entry |-> e[d], exit |-> e[d + Horizon]]
  BY <1>4, <1>5 DEF Backtest
<1>8. Backtest(e) = [d \in {d \in Decisions(c) : d + Horizon <= n} |-> Backtest(c)[d]]
  BY <1>4, <1>7 DEF Backtest
<1> QED
  BY <1>6, <1>8 DEF Restrict, e

\* No run of the backtest looks ahead.
THEOREM BacktestsAreCausal == Spec => []BacktestIsCausal
<1>1. ASSUME Answered, Done("learning")
      PROVE  BacktestIsCausal
  <2>0. case \in Series /\ result = [trades |-> Backtest(case.closes)]
    BY <1>1, InputOfRule DEF Done, Answered, ReturnedWhatItMakes
  <2>1. case.closes \in Seq(Int) /\ result.trades = Backtest(case.closes)
    <3>1. case.closes \in Seq(Prices)
      BY <2>0, BoundedSeqs DEF Series
    <3> QED
      BY <2>0, <3>1 DEF Prices
  <2>2. \A n \in 0..Len(case.closes) :
          Backtest(SubSeq(case.closes, 1, n)) =
            Restrict(result.trades, {d \in DOMAIN result.trades : d + Horizon <= n})
    BY <2>1, BacktestIgnoresTheFuture
  <2>3. ASSUME NEW d \in Decisions(case.closes), NEW later \in DOMAIN case.closes, NEW p \in Prices,
               later > d
        PROVE  d \in Decisions([case.closes EXCEPT ![later] = p])
    <3> DEFINE e == [case.closes EXCEPT ![later] = p]
    <3>1. e \in Seq(Int) /\ Len(e) = Len(case.closes)
      BY <2>1 DEF Prices
    <3>2. d \in Int /\ d > SmaPeriod /\ d <= Len(case.closes)
      BY <2>1, WindowAssumption DEF Decisions
    <3>3. \A i \in 1..d : case.closes[i] = e[i]
      BY <2>1, <2>3, <3>2
    <3> HIDE DEF e
    <3>4. Above(case.closes, d) <=> Above(e, d)
      BY <2>1, <3>1, <3>2, <3>3, DecisionIsCausal
    <3>5. d \in Decisions(e)
      BY <3>1, <3>4 DEF Decisions
    <3> QED
      BY <3>5 DEF e
  <2> QED
    BY <2>2, <2>3 DEF BacktestIsCausal
<1>2. Answered => BacktestIsCausal
  BY <1>1 DEF BacktestIsCausal
<1> QED
  BY <1>2, AnsweredInvariant, PTL

-----------------------------------------------------------------------------
(***************************************************************************)
(* Max pain, for every chain: what option buyers are owed is straight      *)
(* between two strikes, so no price between or beyond them owes less than  *)
(* the best strike.                                                        *)
(***************************************************************************)
IsSide(side) ==
  /\ IsFiniteSet(DOMAIN side) /\ DOMAIN side \in SUBSET Int
  /\ \A k \in DOMAIN side : side[k].oi \in Nat

CallPain(side, settle) == [k \in DOMAIN side |-> side[k].oi * AtLeast(settle - k, 0)]
PutPain(side, settle) == [k \in DOMAIN side |-> side[k].oi * AtLeast(k - settle, 0)]

\* What the sellers owe at a price is the sum over both sides of the chain.
LEMMA PainSums ==
  ASSUME NEW chain, NEW p
  PROVE  PainAt(chain, p) = SumFunctionOnSet(CallPain(chain.calls, p), DOMAIN chain.calls)
                            + SumFunctionOnSet(PutPain(chain.puts, p), DOMAIN chain.puts)
BY DEF PainAt, SumFunction, CallPain, PutPain

\* What one leg is owed changes evenly as the price passes by its strike's side.
LEMMA LegBends ==
  ASSUME NEW n \in Nat, NEW x \in Int, x # 0
  PROVE  n * AtLeast(x + 1, 0) + n * AtLeast(x - 1, 0) = n * AtLeast(x, 0) + n * AtLeast(x, 0)
<1>1. CASE x > 0
  <2>1. AtLeast(x + 1, 0) = x + 1 /\ AtLeast(x - 1, 0) = x - 1 /\ AtLeast(x, 0) = x
    BY <1>1 DEF AtLeast
  <2>2. n * (x + 1) = n * x + n /\ n * (x - 1) = n * x - n /\ n * x \in Int
    OBVIOUS
  <2> QED
    BY <2>1, <2>2
<1>2. CASE x < 0
  <2>1. AtLeast(x + 1, 0) = 0 /\ AtLeast(x - 1, 0) = 0 /\ AtLeast(x, 0) = 0
    BY <1>2 DEF AtLeast
  <2> QED
    BY <2>1
<1> QED
  BY <1>1, <1>2

\* What each leg costs its seller is a number.
LEMMA LegTypes ==
  ASSUME NEW side, IsSide(side), NEW p \in Int
  PROVE  \A k \in DOMAIN side :
           /\ CallPain(side, p)[k] = side[k].oi * AtLeast(p - k, 0)
           /\ PutPain(side, p)[k] = side[k].oi * AtLeast(k - p, 0)
           /\ CallPain(side, p)[k] \in Nat /\ PutPain(side, p)[k] \in Nat
           /\ k \in Int /\ side[k].oi \in Nat
<1> SUFFICES ASSUME NEW k \in DOMAIN side
             PROVE  /\ CallPain(side, p)[k] = side[k].oi * AtLeast(p - k, 0)
                    /\ PutPain(side, p)[k] = side[k].oi * AtLeast(k - p, 0)
                    /\ CallPain(side, p)[k] \in Nat /\ PutPain(side, p)[k] \in Nat
                    /\ k \in Int /\ side[k].oi \in Nat
  OBVIOUS
<1>1. k \in Int /\ side[k].oi \in Nat
  BY DEF IsSide
<1>2. AtLeast(p - k, 0) \in Nat /\ AtLeast(k - p, 0) \in Nat
  BY <1>1 DEF AtLeast
<1>3. \A m, n \in Nat : m * n \in Nat
  OBVIOUS
<1> QED
  BY <1>1, <1>2, <1>3 DEF CallPain, PutPain

\* A price where no strike is lies on a straight piece of the curve.
LEMMA SideIsStraight ==
  ASSUME NEW side, IsSide(side), NEW p \in Int, p \notin DOMAIN side
  PROVE  LET C(q) == SumFunctionOnSet(CallPain(side, q), DOMAIN side)
             P(q) == SumFunctionOnSet(PutPain(side, q), DOMAIN side)
         IN  C(p + 1) + C(p - 1) = C(p) + C(p) /\ P(p + 1) + P(p - 1) = P(p) + P(p)
<1> DEFINE D == DOMAIN side
           C(q) == SumFunctionOnSet(CallPain(side, q), D)
           P(q) == SumFunctionOnSet(PutPain(side, q), D)
<1>0. IsFiniteSet(D) /\ p + 1 \in Int /\ p - 1 \in Int
  BY DEF IsSide
<1>1. \A k \in D : /\ CallPain(side, p + 1)[k] \in Int /\ CallPain(side, p - 1)[k] \in Int
                   /\ CallPain(side, p)[k] \in Int
                   /\ CallPain(side, p + 1)[k] + CallPain(side, p - 1)[k] =
                        CallPain(side, p)[k] + CallPain(side, p)[k]
  <2> SUFFICES ASSUME NEW k \in D
               PROVE  /\ CallPain(side, p + 1)[k] \in Int /\ CallPain(side, p - 1)[k] \in Int
                      /\ CallPain(side, p)[k] \in Int
                      /\ CallPain(side, p + 1)[k] + CallPain(side, p - 1)[k] =
                           CallPain(side, p)[k] + CallPain(side, p)[k]
    OBVIOUS
  <2>1. p + 1 - k = (p - k) + 1 /\ p - 1 - k = (p - k) - 1 /\ p - k \in Int /\ p - k # 0
    BY LegTypes
  <2>2. LET n == side[k].oi IN n * AtLeast((p - k) + 1, 0) + n * AtLeast((p - k) - 1, 0) =
                              n * AtLeast(p - k, 0) + n * AtLeast(p - k, 0)
    BY <2>1, LegTypes, LegBends
  <2>3. /\ CallPain(side, p + 1)[k] \in Nat /\ CallPain(side, p + 1)[k] = side[k].oi * AtLeast(p + 1 - k, 0)
        /\ CallPain(side, p - 1)[k] \in Nat /\ CallPain(side, p - 1)[k] = side[k].oi * AtLeast(p - 1 - k, 0)
        /\ CallPain(side, p)[k] \in Nat /\ CallPain(side, p)[k] = side[k].oi * AtLeast(p - k, 0)
    BY <1>0, LegTypes
  <2> QED
    BY <2>1, <2>2, <2>3
<1>2. \A k \in D : /\ PutPain(side, p + 1)[k] \in Int /\ PutPain(side, p - 1)[k] \in Int
                   /\ PutPain(side, p)[k] \in Int
                   /\ PutPain(side, p + 1)[k] + PutPain(side, p - 1)[k] =
                        PutPain(side, p)[k] + PutPain(side, p)[k]
  <2> SUFFICES ASSUME NEW k \in D
               PROVE  /\ PutPain(side, p + 1)[k] \in Int /\ PutPain(side, p - 1)[k] \in Int
                      /\ PutPain(side, p)[k] \in Int
                      /\ PutPain(side, p + 1)[k] + PutPain(side, p - 1)[k] =
                           PutPain(side, p)[k] + PutPain(side, p)[k]
    OBVIOUS
  <2>1. k - (p + 1) = (k - p) - 1 /\ k - (p - 1) = (k - p) + 1 /\ k - p \in Int /\ k - p # 0
    BY LegTypes
  <2>2. LET n == side[k].oi IN n * AtLeast((k - p) + 1, 0) + n * AtLeast((k - p) - 1, 0) =
                              n * AtLeast(k - p, 0) + n * AtLeast(k - p, 0)
    BY <2>1, LegTypes, LegBends
  <2>3. /\ PutPain(side, p + 1)[k] \in Nat /\ PutPain(side, p + 1)[k] = side[k].oi * AtLeast(k - (p + 1), 0)
        /\ PutPain(side, p - 1)[k] \in Nat /\ PutPain(side, p - 1)[k] = side[k].oi * AtLeast(k - (p - 1), 0)
        /\ PutPain(side, p)[k] \in Nat /\ PutPain(side, p)[k] = side[k].oi * AtLeast(k - p, 0)
    BY <1>0, LegTypes
  <2> QED
    BY <2>1, <2>2, <2>3
<1>3. C(p + 1) + C(p - 1) = C(p) + C(p)
  <2> DEFINE a == CallPain(side, p + 1)
             b == CallPain(side, p - 1)
             c == CallPain(side, p)
  <2> HIDE DEF a, b, c, D
  <2>1. SumFunctionOnSet(a, D) + SumFunctionOnSet(b, D) =
          SumFunctionOnSet(c, D) + SumFunctionOnSet(c, D)
    BY <1>0, <1>1, SumsAlike DEF a, b, c
  <2> QED
    BY <2>1 DEF a, b, c
<1>4. P(p + 1) + P(p - 1) = P(p) + P(p)
  <2> DEFINE a == PutPain(side, p + 1)
             b == PutPain(side, p - 1)
             c == PutPain(side, p)
  <2> HIDE DEF a, b, c, D
  <2>1. SumFunctionOnSet(a, D) + SumFunctionOnSet(b, D) =
          SumFunctionOnSet(c, D) + SumFunctionOnSet(c, D)
    BY <1>0, <1>2, SumsAlike DEF a, b, c
  <2> QED
    BY <2>1 DEF a, b, c
<1> QED
  BY <1>3, <1>4

\* Between two neighbouring strikes what is owed changes by equal amounts.
LEMMA StraightBetweenStrikes ==
  ASSUME NEW chain, IsSide(chain.calls), IsSide(chain.puts),
         NEW p \in Int, p \notin Strikes(chain)
  PROVE  PainAt(chain, p + 1) + PainAt(chain, p - 1) = PainAt(chain, p) + PainAt(chain, p)
<1> DEFINE C(q) == SumFunctionOnSet(CallPain(chain.calls, q), DOMAIN chain.calls)
           P(q) == SumFunctionOnSet(PutPain(chain.puts, q), DOMAIN chain.puts)
<1>1. p \notin DOMAIN chain.calls /\ p \notin DOMAIN chain.puts
  BY DEF Strikes
<1>2. C(p + 1) + C(p - 1) = C(p) + C(p)
  BY <1>1, SideIsStraight
<1>3. P(p + 1) + P(p - 1) = P(p) + P(p)
  BY <1>1, SideIsStraight
<1>4. \A q \in {p - 1, p, p + 1} : C(q) \in Int /\ P(q) \in Int /\ PainAt(chain, q) = C(q) + P(q)
  <2> SUFFICES ASSUME NEW q \in {p - 1, p, p + 1}
               PROVE  C(q) \in Int /\ P(q) \in Int /\ PainAt(chain, q) = C(q) + P(q)
    OBVIOUS
  <2>1. q \in Int
    OBVIOUS
  <2>2. /\ \A k \in DOMAIN chain.calls : CallPain(chain.calls, q)[k] \in Int
        /\ \A k \in DOMAIN chain.puts : PutPain(chain.puts, q)[k] \in Int
    BY <2>1, LegTypes
  <2>3. IsFiniteSet(DOMAIN chain.calls) /\ IsFiniteSet(DOMAIN chain.puts)
    BY DEF IsSide
  <2> QED
    BY <2>2, <2>3, SumType, PainSums
<1> HIDE DEF C, P
<1> QED
  BY <1>2, <1>3, <1>4

\* On a range whose ends are strikes, a function that is straight between strikes
\* is nowhere less than at some strike.
LEMMA LeastAtAStrike ==
  ASSUME NEW lo \in Int, NEW hi \in Int, NEW f, \A p \in Int : f[p] \in Int,
         NEW S \in SUBSET (lo..hi), lo \in S, hi \in S,
         \A p \in (lo..hi) \ S : f[p + 1] + f[p - 1] = f[p] + f[p],
         NEW p \in lo..hi
  PROVE  \E s \in S : f[s] <= f[p]
<1>1. IsFiniteSet(lo..hi) /\ lo..hi # {} /\ \A q \in lo..hi : f[q] \in Int
  <2>1. IsFiniteSet(lo..hi)
    BY FS_Interval
  <2>2. lo \in lo..hi
    OBVIOUS
  <2>3. \A q \in lo..hi : q \in Int
    OBVIOUS
  <2> QED
    BY <2>1, <2>2, <2>3
<1>2. PICK m \in lo..hi : \A q \in lo..hi : f[m] <= f[q]
  BY <1>1, LeastValue
<1> DEFINE A == {q \in lo..hi : f[q] = f[m]}
<1>3. A \in SUBSET Int /\ IsFiniteSet(A) /\ A # {}
  BY <1>1, FS_Subset
<1> DEFINE q == Min(A)
<1>4. q \in A /\ \A r \in A : q <= r
  <2> HIDE DEF A
  <2> QED
    BY <1>3, MinIsLeast
<1> HIDE DEF q
<1>5. q \in S
  <2> SUFFICES ASSUME q \notin S PROVE FALSE
    OBVIOUS
  <2>1. q # lo /\ q # hi /\ q \in lo..hi
    BY <1>4
  <2>2. q - 1 \in lo..hi /\ q + 1 \in lo..hi
    BY <2>1
  <2>3. f[q + 1] + f[q - 1] = f[q] + f[q]
    BY <2>1
  <2>4. f[q - 1] # f[m]
    BY <1>4, <2>2
  <2>5. f[q] = f[m] /\ f[m] <= f[q - 1] /\ f[m] <= f[q + 1]
    BY <1>2, <1>4, <2>2
  <2>6. f[q] \in Int /\ f[q - 1] \in Int /\ f[q + 1] \in Int /\ f[m] \in Int
    BY <2>1, <2>2
  <2> QED
    BY <2>3, <2>4, <2>5, <2>6
<1>6. f[q] <= f[p]
  BY <1>2, <1>4
<1> QED
  BY <1>5, <1>6

\* Towards the strikes there is less pain.
LEMMA LessPainInside ==
  ASSUME NEW chain, IsSide(chain.calls), IsSide(chain.puts), NEW p \in Int, NEW q \in Int,
         \/ p <= q /\ \A k \in Strikes(chain) : q <= k
         \/ p >= q /\ \A k \in Strikes(chain) : q >= k
  PROVE  PainAt(chain, q) <= PainAt(chain, p)
<1> DEFINE CD == DOMAIN chain.calls
           PD == DOMAIN chain.puts
<1>1. IsFiniteSet(CD) /\ IsFiniteSet(PD)
  BY DEF IsSide
<1>2. ASSUME NEW n \in Nat, NEW a \in Int, NEW b \in Int, a <= b \/ a <= 0
      PROVE  n * AtLeast(a, 0) <= n * AtLeast(b, 0)
  <2>1. AtLeast(a, 0) \in Nat /\ AtLeast(b, 0) \in Nat /\ AtLeast(a, 0) <= AtLeast(b, 0)
    BY <1>2 DEF AtLeast
  <2>2. AtLeast(a, 0) * n <= AtLeast(b, 0) * n
    BY <2>1, MoreCostsMore
  <2>3. AtLeast(a, 0) * n = n * AtLeast(a, 0) /\ AtLeast(b, 0) * n = n * AtLeast(b, 0)
    BY <2>1
  <2> QED
    BY <2>2, <2>3
<1>3. \A k \in CD : /\ CallPain(chain.calls, q)[k] \in Int /\ CallPain(chain.calls, p)[k] \in Int
                    /\ CallPain(chain.calls, q)[k] <= CallPain(chain.calls, p)[k]
  <2> SUFFICES ASSUME NEW k \in CD
               PROVE  /\ CallPain(chain.calls, q)[k] \in Int /\ CallPain(chain.calls, p)[k] \in Int
                      /\ CallPain(chain.calls, q)[k] <= CallPain(chain.calls, p)[k]
    OBVIOUS
  <2>1. /\ CallPain(chain.calls, q)[k] \in Nat
        /\ CallPain(chain.calls, q)[k] = chain.calls[k].oi * AtLeast(q - k, 0)
        /\ CallPain(chain.calls, p)[k] \in Nat
        /\ CallPain(chain.calls, p)[k] = chain.calls[k].oi * AtLeast(p - k, 0)
        /\ k \in Int /\ chain.calls[k].oi \in Nat
    BY LegTypes
  <2>2. k \in Strikes(chain)
    BY DEF Strikes
  <2>3. q - k \in Int /\ p - k \in Int /\ (q - k <= p - k \/ q - k <= 0)
    BY <2>1, <2>2
  <2>4. chain.calls[k].oi * AtLeast(q - k, 0) <= chain.calls[k].oi * AtLeast(p - k, 0)
    BY <1>2, <2>1, <2>3
  <2> QED
    BY <2>1, <2>4
<1>4. \A k \in PD : /\ PutPain(chain.puts, q)[k] \in Int /\ PutPain(chain.puts, p)[k] \in Int
                    /\ PutPain(chain.puts, q)[k] <= PutPain(chain.puts, p)[k]
  <2> SUFFICES ASSUME NEW k \in PD
               PROVE  /\ PutPain(chain.puts, q)[k] \in Int /\ PutPain(chain.puts, p)[k] \in Int
                      /\ PutPain(chain.puts, q)[k] <= PutPain(chain.puts, p)[k]
    OBVIOUS
  <2>1. /\ PutPain(chain.puts, q)[k] \in Nat
        /\ PutPain(chain.puts, q)[k] = chain.puts[k].oi * AtLeast(k - q, 0)
        /\ PutPain(chain.puts, p)[k] \in Nat
        /\ PutPain(chain.puts, p)[k] = chain.puts[k].oi * AtLeast(k - p, 0)
        /\ k \in Int /\ chain.puts[k].oi \in Nat
    BY LegTypes
  <2>2. k \in Strikes(chain)
    BY DEF Strikes
  <2>3. k - q \in Int /\ k - p \in Int /\ (k - q <= k - p \/ k - q <= 0)
    BY <2>1, <2>2
  <2>4. chain.puts[k].oi * AtLeast(k - q, 0) <= chain.puts[k].oi * AtLeast(k - p, 0)
    BY <1>2, <2>1, <2>3
  <2> QED
    BY <2>1, <2>4
<1> DEFINE cq == CallPain(chain.calls, q)
           cp == CallPain(chain.calls, p)
           pq == PutPain(chain.puts, q)
           pp == PutPain(chain.puts, p)
<1>5. /\ \A k \in CD : cq[k] \in Int /\ cp[k] \in Int /\ cq[k] <= cp[k]
      /\ \A k \in PD : pq[k] \in Int /\ pp[k] \in Int /\ pq[k] <= pp[k]
  BY <1>3, <1>4
<1> HIDE DEF cq, cp, pq, pp, CD, PD
<1>6. /\ SumFunctionOnSet(cq, CD) <= SumFunctionOnSet(cp, CD)
      /\ SumFunctionOnSet(pq, PD) <= SumFunctionOnSet(pp, PD)
  BY <1>1, <1>5, SumIsMonotone
<1>7. /\ SumFunctionOnSet(cq, CD) \in Int /\ SumFunctionOnSet(cp, CD) \in Int
      /\ SumFunctionOnSet(pq, PD) \in Int /\ SumFunctionOnSet(pp, PD) \in Int
  BY <1>1, <1>5, SumType
<1>8. /\ PainAt(chain, q) = SumFunctionOnSet(cq, CD) + SumFunctionOnSet(pq, PD)
      /\ PainAt(chain, p) = SumFunctionOnSet(cp, CD) + SumFunctionOnSet(pp, PD)
  BY PainSums DEF cq, cp, pq, pp, CD, PD
<1> QED
  BY <1>6, <1>7, <1>8

\* Whatever the chain, its max-pain strike is where option buyers are owed least
\* of all prices, not of the strikes alone.
THEOREM MaxPainIsLeastAnywhere ==
  ASSUME NEW chain, IsSide(chain.calls), IsSide(chain.puts), Strikes(chain) # {}, NEW p \in Int
  PROVE  MaxPain(chain) \in Strikes(chain) /\ PainAt(chain, MaxPain(chain)) <= PainAt(chain, p)
<1> DEFINE S == Strikes(chain)
           f == [q \in Int |-> PainAt(chain, q)]
           B == {s \in S : \A r \in S : PainAt(chain, s) <= PainAt(chain, r)}
<1>1. S \in SUBSET Int /\ IsFiniteSet(S) /\ S # {}
  BY FS_Union DEF IsSide, Strikes
<1>2. \A q \in Int : PainAt(chain, q) \in Int
  <2> SUFFICES ASSUME NEW q \in Int PROVE PainAt(chain, q) \in Int
    OBVIOUS
  <2>1. /\ \A k \in DOMAIN chain.calls : CallPain(chain.calls, q)[k] \in Int
        /\ \A k \in DOMAIN chain.puts : PutPain(chain.puts, q)[k] \in Int
    BY LegTypes
  <2>2. IsFiniteSet(DOMAIN chain.calls) /\ IsFiniteSet(DOMAIN chain.puts)
    BY DEF IsSide
  <2>3. /\ SumFunctionOnSet(CallPain(chain.calls, q), DOMAIN chain.calls) \in Int
        /\ SumFunctionOnSet(PutPain(chain.puts, q), DOMAIN chain.puts) \in Int
    BY <2>1, <2>2, SumType
  <2> QED
    BY <2>3, PainSums
<1>3. \A q \in Int : f[q] = PainAt(chain, q) /\ f[q] \in Int
  BY <1>2
<1> HIDE DEF S, f
<1>4. B # {}
  <2>1. \A s \in S : f[s] \in Int /\ f[s] = PainAt(chain, s)
    BY <1>1, <1>3
  <2>2. \E s \in S : \A r \in S : f[s] <= f[r]
    BY <1>1, <2>1, LeastValue
  <2> QED
    BY <2>1, <2>2
<1>5. MaxPain(chain) \in B
  <2>1. B \in SUBSET Int /\ IsFiniteSet(B)
    BY <1>1, FS_Subset
  <2>2. MaxPain(chain) = Min(B)
    BY DEF MaxPain, S
  <2> HIDE DEF B
  <2> QED
    BY <1>4, <2>1, <2>2, MinIsLeast
<1> DEFINE lo == Min(S)
           hi == Max(S)
<1>6. lo \in S /\ hi \in S /\ \A k \in S : lo <= k /\ k <= hi
  BY <1>1, MinIsLeast, MaxIsGreatest
<1> HIDE DEF lo, hi
<1>7. \E s \in S : PainAt(chain, s) <= PainAt(chain, p)
  <2>1. CASE p <= lo
    <3>1. PainAt(chain, lo) <= PainAt(chain, p)
      BY <1>1, <1>6, <2>1, LessPainInside DEF S
    <3> QED
      BY <1>6, <3>1
  <2>2. CASE p >= hi
    <3>1. PainAt(chain, hi) <= PainAt(chain, p)
      BY <1>1, <1>6, <2>2, LessPainInside DEF S
    <3> QED
      BY <1>6, <3>1
  <2>3. CASE lo <= p /\ p <= hi
    <3>1. lo \in Int /\ hi \in Int /\ p \in lo..hi /\ S \in SUBSET (lo..hi)
      BY <1>1, <1>6, <2>3
    <3>2. \A q \in (lo..hi) \ S : f[q + 1] + f[q - 1] = f[q] + f[q]
      <4> SUFFICES ASSUME NEW q \in (lo..hi) \ S
                   PROVE  f[q + 1] + f[q - 1] = f[q] + f[q]
        OBVIOUS
      <4>1. q \in Int /\ q + 1 \in Int /\ q - 1 \in Int /\ q \notin Strikes(chain)
        BY <3>1 DEF S
      <4>2. PainAt(chain, q + 1) + PainAt(chain, q - 1) = PainAt(chain, q) + PainAt(chain, q)
        BY <4>1, StraightBetweenStrikes
      <4> QED
        BY <1>3, <4>1, <4>2
    <3>3. \E s \in S : f[s] <= f[p]
      BY <1>3, <1>6, <3>1, <3>2, LeastAtAStrike
    <3> QED
      BY <1>1, <1>3, <3>3
  <2> QED
    BY <1>1, <1>6, <2>1, <2>2, <2>3
<1>8. PICK s \in S : PainAt(chain, s) <= PainAt(chain, p)
  BY <1>7
<1>9. PainAt(chain, MaxPain(chain)) <= PainAt(chain, s) /\ MaxPain(chain) \in S
  BY <1>5
<1>10. PainAt(chain, MaxPain(chain)) \in Int /\ PainAt(chain, s) \in Int /\ PainAt(chain, p) \in Int
  BY <1>1, <1>2, <1>9
<1> QED
  BY <1>8, <1>9, <1>10 DEF S

\* The chains among the inputs have a strike on each side.
LEMMA ListedSides ==
  ASSUME NEW side \in Sides
  PROVE  IsSide(side) /\ DOMAIN side # {}
<1>1. PICK K \in (SUBSET {96, 100, 104}) \ {{}} : side \in [K -> Legs]
  <2>1. PICK F \in {[K -> Legs] : K \in (SUBSET {96, 100, 104}) \ {{}}} : side \in F
    BY Zenon DEF Sides
  <2> QED
    BY <2>1
<1>2. DOMAIN side = K /\ K # {} /\ K \in SUBSET Int /\ K \in SUBSET (96..104)
  BY <1>1
<1>3. IsFiniteSet(K)
  <2>1. PICK lo \in Int, hi \in Int : K \in SUBSET (lo..hi)
    BY <1>2
  <2> QED
    BY <2>1, FS_Interval, FS_Subset
<1>4. \A k \in K : side[k].oi \in Nat
  BY <1>1 DEF Legs
<1> QED
  BY <1>2, <1>3, <1>4 DEF IsSide

\* The max-pain strike reported for a chain owes the least of all the prices.
THEOREM MaxPainsAreGlobal == Spec => []MaxPainIsGlobal
<1>1. ASSUME Answered, Done("options")
      PROVE  MaxPainIsGlobal
  <2>0. case \in Chains /\ \E atm : result = JudgeChain(case, atm)
    BY <1>1, InputOfRule DEF Done, Answered, ReturnedWhatItMakes
  <2>1. case.calls \in Sides /\ case.puts \in Sides
    BY <2>0 DEF Chains
  <2>2. IsSide(case.calls) /\ IsSide(case.puts) /\ Strikes(case) # {}
    BY <2>1, ListedSides DEF Strikes
  <2>3. result.maxPain = MaxPain(case)
    BY <2>0 DEF JudgeChain
  <2> DEFINE Calls(p) == [k \in DOMAIN case.calls |-> IF p > k THEN case.calls[k].oi * (p - k) ELSE 0]
             Puts(p) == [k \in DOMAIN case.puts |-> IF p < k THEN case.puts[k].oi * (k - p) ELSE 0]
  <2>4. ASSUME NEW p \in Int
        PROVE  SumFunction(Calls(p)) + SumFunction(Puts(p)) = PainAt(case, p)
    <3>1. ASSUME NEW k \in DOMAIN case.calls
          PROVE  (IF p > k THEN case.calls[k].oi * (p - k) ELSE 0) =
                   case.calls[k].oi * AtLeast(p - k, 0)
      <4>1. k \in Int /\ case.calls[k].oi \in Nat
        BY <2>2 DEF IsSide
      <4>2. case.calls[k].oi * 0 = 0
        BY <4>1
      <4> QED
        BY <4>1, <4>2 DEF AtLeast
    <3>2. ASSUME NEW k \in DOMAIN case.puts
          PROVE  (IF p < k THEN case.puts[k].oi * (k - p) ELSE 0) =
                   case.puts[k].oi * AtLeast(k - p, 0)
      <4>1. k \in Int /\ case.puts[k].oi \in Nat
        BY <2>2 DEF IsSide
      <4>2. case.puts[k].oi * 0 = 0
        BY <4>1
      <4> QED
        BY <4>1, <4>2 DEF AtLeast
    <3>3. /\ Calls(p) = [k \in DOMAIN case.calls |-> case.calls[k].oi * AtLeast(p - k, 0)]
          /\ Puts(p) = [k \in DOMAIN case.puts |-> case.puts[k].oi * AtLeast(k - p, 0)]
      BY <3>1, <3>2
    <3> HIDE DEF Calls, Puts
    <3> QED
      BY <3>3 DEF PainAt
  <2>5. ASSUME NEW p \in 92..108
        PROVE  PainAt(case, result.maxPain) <= PainAt(case, p) /\ p \in Int /\ result.maxPain \in Int
    <3>1. p \in Int /\ Strikes(case) \in SUBSET Int
      BY <2>2 DEF IsSide, Strikes
    <3> QED
      BY <2>2, <2>3, <3>1, MaxPainIsLeastAnywhere
  <2>6. \A p \in 92..108 : SumFunction(Calls(result.maxPain)) + SumFunction(Puts(result.maxPain))
                             <= SumFunction(Calls(p)) + SumFunction(Puts(p))
    <3> HIDE DEF Calls, Puts
    <3> QED
      BY <2>4, <2>5
  <2> QED
    BY <2>6 DEF MaxPainIsGlobal
<1>2. Answered => MaxPainIsGlobal
  BY <1>1 DEF MaxPainIsGlobal
<1> QED
  BY <1>2, AnsweredInvariant, PTL

-----------------------------------------------------------------------------
(***************************************************************************)
(* The news agent, for every feed.                                         *)
(***************************************************************************)
LEMMA PairCount ==
  ASSUME NEW a, NEW b, a # b, NEW S \in SUBSET {a, b}
  PROVE  Cardinality(S) = (IF a \in S THEN 1 ELSE 0) + (IF b \in S THEN 1 ELSE 0)
<1>1. Cardinality({}) = 0 /\ Cardinality({a}) = 1 /\ Cardinality({b}) = 1
  BY FS_EmptySet, FS_Singleton
<1>2. Cardinality({a, b}) = 2
  <2>1. IsFiniteSet({a}) /\ b \notin {a}
    BY FS_Singleton
  <2>2. Cardinality({a} \cup {b}) = Cardinality({a}) + 1
    BY <2>1, FS_AddElement
  <2>3. {a} \cup {b} = {a, b}
    OBVIOUS
  <2> QED
    BY <1>1, <2>2, <2>3
<1>3. S = {} \/ S = {a} \/ S = {b} \/ S = {a, b}
  OBVIOUS
<1> QED
  BY <1>1, <1>2, <1>3

\* The net tone counts the thresholds that the mean sentiment reaches on either side.
LEMMA ToneIs ==
  ASSUME NEW num \in Int, NEW den \in Int
  PROVE  Tone(num, den) =
           ((IF 100 * num >= 15 * den THEN 1 ELSE 0) + (IF 100 * num >= 50 * den THEN 1 ELSE 0))
           - ((IF 100 * num <= -15 * den THEN 1 ELSE 0) + (IF 100 * num <= -50 * den THEN 1 ELSE 0))
<1> DEFINE up == {t \in {15, 50} : 100 * num >= t * den}
           down == {t \in {-15, -50} : 100 * num <= t * den}
<1>1. Cardinality(up) = (IF 15 \in up THEN 1 ELSE 0) + (IF 50 \in up THEN 1 ELSE 0)
  <2>1. up \in SUBSET {15, 50}
    OBVIOUS
  <2>2. PICK a, b : a = 15 /\ b = 50 /\ a # b
    OBVIOUS
  <2> HIDE DEF up
  <2>3. a # b /\ up \in SUBSET {a, b}
    BY <2>1, <2>2
  <2>4. Cardinality(up) = (IF a \in up THEN 1 ELSE 0) + (IF b \in up THEN 1 ELSE 0)
    BY <2>3, PairCount, Zenon
  <2> QED
    BY <2>2, <2>4
<1>2. Cardinality(down) = (IF -15 \in down THEN 1 ELSE 0) + (IF -50 \in down THEN 1 ELSE 0)
  <2>1. down \in SUBSET {-15, -50}
    OBVIOUS
  <2>2. PICK a, b : a = -15 /\ b = -50 /\ a # b
    OBVIOUS
  <2> HIDE DEF down
  <2>3. a # b /\ down \in SUBSET {a, b}
    BY <2>1, <2>2
  <2>4. Cardinality(down) = (IF a \in down THEN 1 ELSE 0) + (IF b \in down THEN 1 ELSE 0)
    BY <2>3, PairCount, Zenon
  <2> QED
    BY <2>2, <2>4
<1>3. /\ 15 \in up <=> 100 * num >= 15 * den
      /\ 50 \in up <=> 100 * num >= 50 * den
      /\ -15 \in down <=> 100 * num <= -15 * den
      /\ -50 \in down <=> 100 * num <= -50 * den
  OBVIOUS
<1>4. Tone(num, den) = Cardinality(up) - Cardinality(down)
  BY DEF Tone
<1> HIDE DEF up, down
<1> QED
  BY <1>1, <1>2, <1>3, <1>4

\* The tone of the mirrored sum is the mirrored tone.
LEMMA ToneIsOdd ==
  ASSUME NEW num \in Int, NEW den \in Int
  PROVE  Tone(- num, den) = - Tone(num, den)
<1>1. - num \in Int
  OBVIOUS
<1> QED
  BY <1>1, ToneIs

\* A higher sum over the same weight never lowers the tone.
LEMMA ToneRises ==
  ASSUME NEW num \in Int, NEW den \in Int, NEW r \in Nat
  PROVE  Tone(num + 2 * r, den + 2 * r) >= Tone(num, den)
<1>1. PICK n \in Int, d \in Int : n = num + 2 * r /\ d = den + 2 * r
  OBVIOUS
<1>2. Tone(n, d) =
        ((IF 100 * n >= 15 * d THEN 1 ELSE 0) + (IF 100 * n >= 50 * d THEN 1 ELSE 0))
        - ((IF 100 * n <= -15 * d THEN 1 ELSE 0) + (IF 100 * n <= -50 * d THEN 1 ELSE 0))
  BY ToneIs
<1>3. Tone(num, den) =
        ((IF 100 * num >= 15 * den THEN 1 ELSE 0) + (IF 100 * num >= 50 * den THEN 1 ELSE 0))
        - ((IF 100 * num <= -15 * den THEN 1 ELSE 0) + (IF 100 * num <= -50 * den THEN 1 ELSE 0))
  BY ToneIs
<1>4. Tone(n, d) >= Tone(num, den)
  BY <1>1, <1>2, <1>3
<1> QED
  BY <1>1, <1>4

NewsItem == [sentiment : -2..2, reliability : Nat \ {0}, at : Int]

IsFeed(items) == items \in Seq(NewsItem)

Reliability(items) == [i \in DOMAIN items |-> items[i].reliability]
Weighted(items) == [i \in DOMAIN items |-> items[i].sentiment * items[i].reliability]
Sentiment(items) == [i \in DOMAIN items |-> items[i].sentiment]

\* The sums over a feed are numbers and the weights positive.
LEMMA FeedTypes ==
  ASSUME NEW items, IsFeed(items), items # << >>
  PROVE  /\ IsFiniteSet(DOMAIN items)
         /\ \A i \in DOMAIN items :
              /\ Reliability(items)[i] = items[i].reliability /\ items[i].reliability \in Nat \ {0}
              /\ Sentiment(items)[i] = items[i].sentiment /\ items[i].sentiment \in Int
              /\ Weighted(items)[i] = items[i].sentiment * items[i].reliability
              /\ Weighted(items)[i] \in Int
         /\ SumFunctionOnSet(Reliability(items), DOMAIN items) \in Nat \ {0}
         /\ SumFunctionOnSet(Weighted(items), DOMAIN items) \in Int
         /\ IsFiniteSet(Latest(items)) /\ Latest(items) \in SUBSET DOMAIN items
         /\ Cardinality(Latest(items)) \in Nat
         /\ SumFunctionOnSet(Sentiment(items), Latest(items)) \in Int
<1> DEFINE D == DOMAIN items
<1>1. D = 1..Len(items) /\ Len(items) \in Nat /\ 1 \in D /\ IsFiniteSet(D)
  <2>1. D = 1..Len(items) /\ Len(items) \in Nat /\ Len(items) # 0
    BY DEF IsFeed
  <2>2. IsFiniteSet(1..Len(items))
    BY <2>1, FS_Interval
  <2> QED
    BY <2>1, <2>2
<1>2. \A i \in D :
        /\ Reliability(items)[i] = items[i].reliability /\ items[i].reliability \in Nat \ {0}
        /\ Sentiment(items)[i] = items[i].sentiment /\ items[i].sentiment \in Int
        /\ Weighted(items)[i] = items[i].sentiment * items[i].reliability
        /\ Weighted(items)[i] \in Int
  <2> SUFFICES ASSUME NEW i \in D
               PROVE  /\ items[i].reliability \in Nat \ {0} /\ items[i].sentiment \in Int
                      /\ items[i].sentiment * items[i].reliability \in Int
    BY DEF Reliability, Sentiment, Weighted
  <2>1. items[i] \in NewsItem
    BY DEF IsFeed
  <2>2. items[i].reliability \in Nat \ {0} /\ items[i].sentiment \in -2..2
    BY <2>1 DEF NewsItem
  <2>3. \A a, b \in Int : a * b \in Int
    OBVIOUS
  <2> QED
    BY <2>2, <2>3
<1> DEFINE R == Reliability(items)
           W == Weighted(items)
           T == Sentiment(items)
<1>3. \A i \in D : R[i] \in Nat /\ R[i] \in Int /\ R[i] # 0 /\ W[i] \in Int /\ T[i] \in Int
  BY <1>2
<1> HIDE DEF R, W, T, D
<1>4. SumFunctionOnSet(R, D) \in Nat \ {0}
  <2>1. SumFunctionOnSet(R, D) = R[1] + SumFunctionOnSet(R, D \ {1})
    BY <1>1, <1>3, SumTakesOut
  <2>2. IsFiniteSet(D \ {1}) /\ \A i \in D \ {1} : R[i] \in Nat
    BY <1>1, <1>3, FS_RemoveElement
  <2>3. SumFunctionOnSet(R, D \ {1}) \in Nat
    BY <2>2, SumOfNat
  <2> QED
    BY <1>1, <1>3, <2>1, <2>3
<1>5. SumFunctionOnSet(W, D) \in Int
  BY <1>1, <1>3, SumType
<1>6. /\ IsFiniteSet(Latest(items)) /\ Latest(items) \in SUBSET D
      /\ Cardinality(Latest(items)) \in Nat
  <2>1. Latest(items) \in SUBSET D
    BY DEF Latest, D
  <2>2. IsFiniteSet(Latest(items))
    BY <1>1, <2>1, FS_Subset
  <2> QED
    BY <2>1, <2>2, FS_CardinalityType
<1>7. SumFunctionOnSet(T, Latest(items)) \in Int
  <2>1. \A i \in Latest(items) : T[i] \in Int
    BY <1>3, <1>6
  <2> QED
    BY <1>6, <2>1, SumType
<1> QED
  BY <1>1, <1>2, <1>4, <1>5, <1>6, <1>7 DEF R, W, T, D

\* The report of a feed in terms of its sums.
LEMMA NewsReport ==
  ASSUME NEW items, IsFeed(items), items # << >>
  PROVE  /\ JudgeNews(items).net =
              Tone(SumFunctionOnSet(Weighted(items), DOMAIN items),
                   2 * SumFunctionOnSet(Reliability(items), DOMAIN items))
         /\ JudgeNews(items).tilt =
              Tone(SumFunctionOnSet(Sentiment(items), Latest(items)),
                   2 * Cardinality(Latest(items)))
<1>1. /\ SumFunction(Reliability(items)) = SumFunctionOnSet(Reliability(items), DOMAIN items)
      /\ SumFunction(Weighted(items)) = SumFunctionOnSet(Weighted(items), DOMAIN items)
  BY DEF SumFunction, Reliability, Weighted
<1>2. SumFunction(Reliability(items)) # 0
  BY <1>1, FeedTypes
<1> QED
  BY <1>1, <1>2 DEF JudgeNews, Reliability, Weighted, Sentiment

Mirrored(items) == [i \in DOMAIN items |-> [items[i] EXCEPT !.sentiment = - @]]

\* The mirror image of any feed gets the mirror image of its report.
THEOREM MirroredNews ==
  ASSUME NEW items, IsFeed(items), items # << >>
  PROVE  /\ JudgeNews(Mirrored(items)).net = - JudgeNews(items).net
         /\ JudgeNews(Mirrored(items)).tilt = - JudgeNews(items).tilt
<1> DEFINE m == Mirrored(items)
           D == DOMAIN items
<1>1. /\ DOMAIN m = D /\ IsFeed(m) /\ m # << >>
      /\ \A i \in D : /\ m[i].sentiment = - items[i].sentiment
                      /\ m[i].reliability = items[i].reliability /\ m[i].at = items[i].at
  <2>1. \A i \in D : items[i] \in NewsItem
    BY DEF IsFeed
  <2>2. \A i \in D : /\ m[i] \in NewsItem
                     /\ m[i].sentiment = - items[i].sentiment
                     /\ m[i].reliability = items[i].reliability /\ m[i].at = items[i].at
    BY <2>1 DEF Mirrored, NewsItem
  <2>3. D = 1..Len(items) /\ Len(items) \in Nat /\ Len(items) # 0
    BY DEF IsFeed
  <2>4. DOMAIN m = D /\ m = [i \in 1..Len(items) |-> m[i]]
    BY <2>3 DEF Mirrored
  <2> HIDE DEF m
  <2>5. IsFeed(m)
    BY <2>2, <2>3, <2>4 DEF IsFeed
  <2>6. 1 \in DOMAIN m
    BY <2>3, <2>4
  <2>7. m # << >>
    BY <2>6
  <2> QED
    BY <2>2, <2>4, <2>5, <2>7
<1> HIDE DEF m
<1>2. Latest(m) = Latest(items)
  BY <1>1 DEF Latest
<1>3. SumFunctionOnSet(Reliability(m), D) = SumFunctionOnSet(Reliability(items), D)
  <2>1. \A i \in D : Reliability(m)[i] = Reliability(items)[i]
    BY <1>1 DEF Reliability
  <2> QED
    BY <2>1, FeedTypes, SumCongruence
<1>4. SumFunctionOnSet(Weighted(m), D) = - SumFunctionOnSet(Weighted(items), D)
  <2>1. \A i \in D : Weighted(items)[i] \in Int /\ Weighted(m)[i] = - Weighted(items)[i]
    <3> SUFFICES ASSUME NEW i \in D
                 PROVE  Weighted(items)[i] \in Int /\ Weighted(m)[i] = - Weighted(items)[i]
      OBVIOUS
    <3>1. \A a, b \in Int : (- a) * b = - (a * b)
      OBVIOUS
    <3>2. items[i].sentiment \in Int /\ items[i].reliability \in Int /\ Weighted(items)[i] \in Int
      BY FeedTypes
    <3> QED
      BY <1>1, <3>1, <3>2 DEF Weighted
  <2> QED
    BY <2>1, FeedTypes, SumNegates
<1>5. SumFunctionOnSet(Sentiment(m), Latest(items)) = - SumFunctionOnSet(Sentiment(items), Latest(items))
  <2>1. \A i \in Latest(items) : Sentiment(items)[i] \in Int /\ Sentiment(m)[i] = - Sentiment(items)[i]
    <3> SUFFICES ASSUME NEW i \in D
                 PROVE  Sentiment(items)[i] \in Int /\ Sentiment(m)[i] = - Sentiment(items)[i]
      BY FeedTypes
    <3> QED
      BY <1>1, FeedTypes DEF Sentiment
  <2> QED
    BY <2>1, FeedTypes, SumNegates
<1> DEFINE w == SumFunctionOnSet(Weighted(items), D)
           r == SumFunctionOnSet(Reliability(items), D)
           s == SumFunctionOnSet(Sentiment(items), Latest(items))
           n == Cardinality(Latest(items))
<1>6. w \in Int /\ r \in Int /\ s \in Int /\ n \in Int
  BY FeedTypes
<1>7. /\ JudgeNews(items).net = Tone(w, 2 * r) /\ JudgeNews(items).tilt = Tone(s, 2 * n)
      /\ JudgeNews(m).net = Tone(- w, 2 * r) /\ JudgeNews(m).tilt = Tone(- s, 2 * n)
  BY <1>1, <1>2, <1>3, <1>4, <1>5, NewsReport
<1> HIDE DEF w, r, s, n
<1>8. 2 * r \in Int /\ 2 * n \in Int
  BY <1>6
<1> QED
  BY <1>6, <1>7, <1>8, ToneIsOdd DEF m

\* More weight on a negative item never raises the tone.
LEMMA ToneFalls ==
  ASSUME NEW num \in Int, NEW den \in Int, NEW r \in Nat
  PROVE  Tone(num - 2 * r, den + 2 * r) <= Tone(num, den)
<1>1. PICK n \in Int, d \in Int : n = - num /\ d = den + 2 * r /\ n + 2 * r \in Int
                                  /\ num - 2 * r = - (n + 2 * r) /\ num = - n
  OBVIOUS
<1>2. Tone(n + 2 * r, d) >= Tone(n, den)
  BY <1>1, ToneRises
<1>3. Tone(- (n + 2 * r), d) = - Tone(n + 2 * r, d) /\ Tone(- n, den) = - Tone(n, den)
  BY <1>1, ToneIsOdd
<1>4. Tone(n + 2 * r, d) \in Int /\ Tone(n, den) \in Int
  <2>1. PICK m \in Int : m = n + 2 * r
    BY <1>1
  <2>2. Tone(m, d) \in Int /\ Tone(n, den) \in Int
    BY <1>1, ToneIs
  <2> QED
    BY <2>1, <2>2
<1> QED
  BY <1>1, <1>2, <1>3, <1>4

\* A more reliable source never weighs against its own item, however much more
\* reliable it is.
THEOREM TrustedNews ==
  ASSUME NEW items, IsFeed(items), NEW i \in DOMAIN items, NEW r \in Nat
  PROVE  LET trusted == [items EXCEPT ![i].reliability = @ + r]
         IN  /\ items[i].sentiment = 2 => JudgeNews(trusted).net >= JudgeNews(items).net
             /\ items[i].sentiment = -2 => JudgeNews(trusted).net <= JudgeNews(items).net
<1> DEFINE t == [items EXCEPT ![i].reliability = @ + r]
           D == DOMAIN items
<1>0. items # << >>
  OBVIOUS
<1>1. /\ DOMAIN t = D /\ IsFeed(t) /\ t # << >>
      /\ \A j \in D : /\ t[j].sentiment = items[j].sentiment
                      /\ j # i => t[j].reliability = items[j].reliability
      /\ t[i].reliability = items[i].reliability + r
  <2>1. \A j \in D : items[j] \in NewsItem
    BY DEF IsFeed
  <2>2. /\ DOMAIN t = D
        /\ \A j \in D : j # i => t[j] = items[j]
        /\ t[i] = [items[i] EXCEPT !.reliability = @ + r]
    OBVIOUS
  <2> HIDE DEF t
  <2>3. /\ t[i] \in NewsItem /\ t[i].sentiment = items[i].sentiment
        /\ t[i].reliability = items[i].reliability + r
    BY <2>1, <2>2 DEF NewsItem
  <2>4. t \in Seq(NewsItem)
    <3>1. \A j \in D : t[j] \in NewsItem
      BY <2>1, <2>2, <2>3
    <3>2. D = 1..Len(items) /\ Len(items) \in Nat
      BY DEF IsFeed
    <3>3. t = [j \in 1..Len(items) |-> t[j]]
      BY <2>2, <3>2 DEF t
    <3> QED
      BY <2>2, <3>1, <3>2, <3>3
  <2>5. t # << >>
    BY <2>2
  <2> QED
    BY <2>1, <2>2, <2>3, <2>4, <2>5 DEF IsFeed
<1> HIDE DEF t
<1>2. /\ IsFiniteSet(D) /\ i \in D
      /\ \A j \in D : /\ Reliability(items)[j] \in Int /\ Reliability(t)[j] \in Int
                      /\ Weighted(items)[j] \in Int /\ Weighted(t)[j] \in Int
                      /\ j # i => Reliability(items)[j] = Reliability(t)[j]
                      /\ j # i => Weighted(items)[j] = Weighted(t)[j]
  <2>1. /\ \A j \in D : Reliability(items)[j] \in Int /\ Weighted(items)[j] \in Int
        /\ \A j \in DOMAIN t : Reliability(t)[j] \in Int /\ Weighted(t)[j] \in Int
    BY <1>0, <1>1, FeedTypes
  <2>2. IsFiniteSet(D)
    BY <1>0, FeedTypes
  <2> QED
    BY <1>1, <2>1, <2>2 DEF Reliability, Weighted
<1> DEFINE R0 == Reliability(items)
           R1 == Reliability(t)
           W0 == Weighted(items)
           W1 == Weighted(t)
<1>3. R1[i] - R0[i] = r
  BY <1>0, <1>1, FeedTypes
<1>4. /\ items[i].sentiment = 2 => W1[i] - W0[i] = 2 * r
      /\ items[i].sentiment = -2 => W1[i] - W0[i] = - (2 * r)
  <2>1. /\ W1[i] = items[i].sentiment * (items[i].reliability + r)
        /\ W0[i] = items[i].sentiment * items[i].reliability
        /\ items[i].reliability \in Int
    <3>1. W1[i] = t[i].sentiment * t[i].reliability
      BY <1>1, FeedTypes
    <3>2. W0[i] = items[i].sentiment * items[i].reliability /\ items[i].reliability \in Nat \ {0}
      BY <1>0, FeedTypes
    <3> HIDE DEF W0, W1
    <3> QED
      BY <1>1, <3>1, <3>2
  <2> QED
    BY <2>1
<1>21. /\ IsFiniteSet(D) /\ i \in D
       /\ DifferAt(R0, R1, i, D) /\ DifferAt(W0, W1, i, D)
  BY <1>2 DEF DifferAt
<1> HIDE DEF R0, R1, W0, W1
<1>5. SumFunctionOnSet(R1, D) = SumFunctionOnSet(R0, D) + (R1[i] - R0[i])
  <2> HIDE DEF D
  <2> QED
    BY <1>21, SumOfReplaced
<1>6. SumFunctionOnSet(W1, D) = SumFunctionOnSet(W0, D) + (W1[i] - W0[i])
  <2> HIDE DEF D
  <2> QED
    BY <1>21, SumOfReplaced
<1> DEFINE w == SumFunctionOnSet(W0, D)
           d == 2 * SumFunctionOnSet(R0, D)
<1>7. SumFunctionOnSet(W0, D) \in Int /\ SumFunctionOnSet(R0, D) \in Int
  BY <1>0, FeedTypes DEF W0, R0
<1>8. w \in Int /\ d \in Int /\ 2 * (SumFunctionOnSet(R0, D) + r) = d + 2 * r
  BY <1>7
<1>9. JudgeNews(items).net = Tone(w, d)
  BY <1>0, NewsReport DEF W0, R0
<1>10. JudgeNews(t).net = Tone(SumFunctionOnSet(W1, D), 2 * SumFunctionOnSet(R1, D))
  BY <1>1, NewsReport DEF W1, R1
<1>11. 2 * SumFunctionOnSet(R1, D) = d + 2 * r
  BY <1>3, <1>5, <1>8
<1>12. /\ items[i].sentiment = 2 => SumFunctionOnSet(W1, D) = w + 2 * r
       /\ items[i].sentiment = -2 => SumFunctionOnSet(W1, D) = w - 2 * r
  BY <1>4, <1>6, <1>8
<1> HIDE DEF w, d
<1>13. Tone(w + 2 * r, d + 2 * r) >= Tone(w, d) /\ Tone(w - 2 * r, d + 2 * r) <= Tone(w, d)
  BY <1>8, ToneRises, ToneFalls
<1> QED
  BY <1>9, <1>10, <1>11, <1>12, <1>13 DEF t

\* The feeds among the inputs are feeds.
LEMMA ListedFeeds ==
  ASSUME NEW feed \in Feeds
  PROVE  IsFeed(feed.items)
<1> DEFINE Small == [sentiment : {-2, 0, 1}, reliability : {3, 7}, at : {1, 2}]
<1>1. feed.items \in BoundedSeq(Headlines, 2) \cup [1..3 -> Small]
  BY DEF Feeds
<1>2. Headlines \subseteq NewsItem /\ Small \subseteq NewsItem
  BY DEF Headlines, NewsItem
<1>3. CASE feed.items \in BoundedSeq(Headlines, 2)
  <2>1. feed.items \in Seq(Headlines)
    BY <1>3, BoundedSeqs
  <2> QED
    BY <1>2, <2>1 DEF IsFeed
<1>4. CASE feed.items \in [1..3 -> Small]
  <2> HIDE DEF Small
  <2>1. PICK n \in Nat : feed.items \in [1..n -> NewsItem]
    <3>1. feed.items \in [1..3 -> NewsItem] /\ 3 \in Nat
      BY <1>2, <1>4
    <3> QED
      BY <3>1, Zenon
  <2> QED
    BY <2>1 DEF IsFeed
<1> QED
  BY <1>1, <1>3, <1>4

\* Every feed is read even-handedly.
THEOREM NewsAreEvenHanded == Spec => []NewsIsEvenHanded
<1>1. ASSUME Answered, Done("news")
      PROVE  NewsIsEvenHanded
  <2>0. case \in Feeds /\ result = JudgeNews(case.items)
    BY <1>1, InputOfRule DEF Done, Answered, ReturnedWhatItMakes
  <2>1. IsFeed(case.items)
    BY <2>0, ListedFeeds
  <2>2. ASSUME case.items # << >>
        PROVE  /\ JudgeNews(Mirrored(case.items)).net = - result.net
               /\ JudgeNews(Mirrored(case.items)).tilt = - result.tilt
    BY <2>0, <2>1, <2>2, MirroredNews
  <2>3. ASSUME NEW i \in DOMAIN case.items
        PROVE  LET trusted == [case.items EXCEPT ![i].reliability = @ + 2]
               IN  /\ case.items[i].sentiment = 2 => JudgeNews(trusted).net >= result.net
                   /\ case.items[i].sentiment = -2 => JudgeNews(trusted).net <= result.net
    <3>1. PICK r \in Nat : r = 2
      OBVIOUS
    <3>2. LET trusted == [case.items EXCEPT ![i].reliability = @ + r]
          IN  /\ case.items[i].sentiment = 2 => JudgeNews(trusted).net >= result.net
              /\ case.items[i].sentiment = -2 => JudgeNews(trusted).net <= result.net
      BY <2>0, <2>1, TrustedNews
    <3> QED
      BY <3>1, <3>2
  <2> QED
    BY <2>2, <2>3 DEF NewsIsEvenHanded, Mirrored
<1>2. Answered => NewsIsEvenHanded
  BY <1>1 DEF NewsIsEvenHanded
<1> QED
  BY <1>2, AnsweredInvariant, PTL

-----------------------------------------------------------------------------
(***************************************************************************)
(* The calendar window of the market data adapters, for every day, every   *)
(* number of sessions and every set of holidays.                           *)
(***************************************************************************)
\* The weekdays before a day, counted from day 0, and the weekday so many follow.
WeekdaysBefore(day) == 5 * (day \div 7) + (IF day % 7 < 5 THEN day % 7 ELSE 5)
NthWeekday(n) == 7 * (n \div 5) + (n % 5)

\* The weekdays counted between two days are weekdays between them.
LEMMA NthWeekdayBetween ==
  ASSUME NEW lo \in Int, NEW hi \in Int, NEW n \in WeekdaysBefore(lo)..(WeekdaysBefore(hi + 1) - 1)
  PROVE  NthWeekday(n) \in lo..hi /\ Weekday(NthWeekday(n))
<1>1. PICK c \in Int, e \in 0..4 : n = 5 * c + e /\ c = n \div 5 /\ e = n % 5
  <2>1. WeekdaysBefore(lo) \in Int /\ WeekdaysBefore(hi + 1) \in Int
    BY DEF WeekdaysBefore
  <2>2. n \in Int
    BY <2>1
  <2> QED
    BY <2>2
<1>2. PICK a \in Int, b \in 0..6 : lo = 7 * a + b /\ a = lo \div 7 /\ b = lo % 7
  OBVIOUS
<1>3. PICK p \in Int, q \in 0..6 : hi + 1 = 7 * p + q /\ p = (hi + 1) \div 7 /\ q = (hi + 1) % 7
  OBVIOUS
<1>4. WeekdaysBefore(lo) = 5 * a + (IF b < 5 THEN b ELSE 5)
  BY <1>2 DEF WeekdaysBefore
<1>5. WeekdaysBefore(hi + 1) = 5 * p + (IF q < 5 THEN q ELSE 5)
  BY <1>3 DEF WeekdaysBefore
<1>6. NthWeekday(n) = 7 * c + e
  BY <1>1 DEF NthWeekday
<1>7. n >= 5 * a + (IF b < 5 THEN b ELSE 5) /\ n < 5 * p + (IF q < 5 THEN q ELSE 5)
  BY <1>1, <1>4, <1>5
<1>8. 7 * c + e >= 7 * a + b
  BY <1>1, <1>7
<1>9. 7 * c + e < 7 * p + q
  BY <1>1, <1>7
<1>10. (7 * c + e) % 7 = e
  BY <1>1
<1> QED
  BY <1>1, <1>2, <1>3, <1>6, <1>8, <1>9, <1>10 DEF Weekday

\* Weekdays counted differently are different days.
LEMMA NthWeekdaysDiffer ==
  ASSUME NEW m \in Int, NEW n \in Int, NthWeekday(m) = NthWeekday(n)
  PROVE  m = n
<1>1. PICK c \in Int, e \in 0..4 : n = 5 * c + e /\ c = n \div 5 /\ e = n % 5
  OBVIOUS
<1>2. PICK a \in Int, b \in 0..4 : m = 5 * a + b /\ a = m \div 5 /\ b = m % 5
  OBVIOUS
<1> QED
  BY <1>1, <1>2 DEF NthWeekday

\* The calendar window has a seventh more weekdays than sessions, and five.
LEMMA WindowIsWide ==
  ASSUME NEW today \in Int, NEW span \in Nat
  PROVE  WeekdaysBefore(today + 1) - WeekdaysBefore(today - ((16 * span) \div 10 + 10))
           >= span + span \div 7 + 5
<1>1. PICK w \in Int, x \in 0..9 : 16 * span = 10 * w + x /\ w = (16 * span) \div 10
  OBVIOUS
<1>2. PICK s \in Int, t \in 0..6 : span = 7 * s + t /\ s = span \div 7
  OBVIOUS
<1> DEFINE lo == today - (w + 10)
<1>3. PICK a \in Int, b \in 0..6 : lo = 7 * a + b /\ a = lo \div 7 /\ b = lo % 7
  OBVIOUS
<1>4. PICK p \in Int, q \in 0..6 : today + 1 = 7 * p + q /\ p = (today + 1) \div 7 /\ q = (today + 1) % 7
  OBVIOUS
<1>5. WeekdaysBefore(lo) = 5 * a + (IF b < 5 THEN b ELSE 5)
  BY <1>3 DEF WeekdaysBefore
<1>6. WeekdaysBefore(today + 1) = 5 * p + (IF q < 5 THEN q ELSE 5)
  BY <1>4 DEF WeekdaysBefore
<1>7. 7 * WeekdaysBefore(lo) <= 5 * lo + 10 /\ WeekdaysBefore(lo) \in Int
  BY <1>3, <1>5
<1>8. 7 * WeekdaysBefore(today + 1) >= 5 * (today + 1) /\ WeekdaysBefore(today + 1) \in Int
  BY <1>4, <1>6
<1>9. lo \in Int /\ today - lo = w + 10
  BY <1>1
<1>10. WeekdaysBefore(today + 1) - WeekdaysBefore(lo) >= span + s + 5
  <2> DEFINE A == WeekdaysBefore(today + 1)
             B == WeekdaysBefore(lo)
  <2>1. 7 * A >= 5 * today + 5 /\ 7 * B <= 5 * lo + 10 /\ A \in Int /\ B \in Int
    BY <1>7, <1>8
  <2> HIDE DEF A, B, lo
  <2>2. 7 * (A - B) >= 5 * (w + 10) - 5
    BY <1>9, <2>1
  <2>3. A - B >= span + s + 5
    BY <1>1, <1>2, <2>1, <2>2
  <2> QED
    BY <2>3 DEF A, B
<1> QED
  BY <1>1, <1>2, <1>10

\* The bars among which the sessions are found.
TradedDays(today, span, holidays) ==
  {day \in Window(today, span) : Weekday(day) /\ day \notin holidays}

\* The calendar window holds the sessions asked for, whatever holidays fall in it.
LEMMA EnoughBars ==
  ASSUME NEW today \in Int, NEW span \in Nat, NEW holidays, IsFiniteSet(holidays),
         Cardinality(holidays) <= span \div 7 + 5
  PROVE  /\ TradedDays(today, span, holidays) \in SUBSET Int /\ IsFiniteSet(TradedDays(today, span, holidays))
         /\ Cardinality(TradedDays(today, span, holidays)) >= span
<1> DEFINE lo == today - ((16 * span) \div 10 + 10)
           J == WeekdaysBefore(lo)..(WeekdaysBefore(today + 1) - 1)
           f == [n \in J |-> NthWeekday(n)]
           W == {day \in Window(today, span) : Weekday(day)}
<1>1. lo \in Int /\ span \div 7 \in Int /\ Window(today, span) = lo..today
  BY DEF Window
<1>2. WeekdaysBefore(lo) \in Int /\ WeekdaysBefore(today + 1) \in Int
  <2>1. \A day \in Int : WeekdaysBefore(day) \in Int
    BY DEF WeekdaysBefore
  <2> QED
    BY <1>1, <2>1
<1>3. WeekdaysBefore(today + 1) - WeekdaysBefore(lo) >= span + span \div 7 + 5
  BY WindowIsWide
<1> HIDE DEF lo
<1>4. IsFiniteSet(J) /\ Cardinality(J) = WeekdaysBefore(today + 1) - WeekdaysBefore(lo)
  <2> DEFINE a == WeekdaysBefore(lo)
             b == WeekdaysBefore(today + 1) - 1
  <2>1. a \in Int /\ b \in Int /\ a <= b /\ b - a + 1 = WeekdaysBefore(today + 1) - WeekdaysBefore(lo)
    <3>1. span \div 7 >= 0
      OBVIOUS
    <3> QED
      BY <1>1, <1>2, <1>3, <3>1
  <2> HIDE DEF a, b
  <2>2. IsFiniteSet(a..b) /\ Cardinality(a..b) = b - a + 1
    BY <2>1, FS_Interval
  <2> QED
    BY <2>1, <2>2 DEF a, b
<1>5. IsFiniteSet(W) /\ W \in SUBSET Int
  <2>1. IsFiniteSet(lo..today)
    BY <1>1, FS_Interval
  <2> QED
    BY <1>1, <2>1, FS_Subset
<1>6. {f[n] : n \in J} \in SUBSET W
  <2> SUFFICES ASSUME NEW n \in J PROVE f[n] \in W
    OBVIOUS
  <2>1. NthWeekday(n) \in lo..today /\ Weekday(NthWeekday(n))
    BY <1>1, NthWeekdayBetween
  <2> QED
    BY <1>1, <2>1
<1>7. \A m, n \in J : f[m] = f[n] => m = n
  <2>1. \A n \in J : n \in Int /\ f[n] = NthWeekday(n)
    BY <1>2
  <2> HIDE DEF f, J
  <2> QED
    BY <2>1, NthWeekdaysDiffer
<1> HIDE DEF f, J, W
<1>8. Cardinality({f[n] : n \in J}) = Cardinality(J)
  BY <1>4, <1>7, ImageSize
<1>9. Cardinality(J) <= Cardinality(W)
  BY <1>5, <1>6, <1>8, FS_Subset
<1>10. TradedDays(today, span, holidays) = W \ holidays
  BY DEF TradedDays, W
<1>11. /\ IsFiniteSet(W \ holidays)
       /\ Cardinality(W \ holidays) = Cardinality(W) - Cardinality(W \cap holidays)
  BY <1>5, FS_Difference
<1>12. Cardinality(W \cap holidays) <= Cardinality(holidays)
  <2>1. W \cap holidays \in SUBSET holidays
    OBVIOUS
  <2> QED
    BY <2>1, FS_Subset
<1>13. Cardinality(W) \in Int /\ Cardinality(W \cap holidays) \in Int /\ Cardinality(holidays) \in Int
  <2>1. IsFiniteSet(W \cap holidays)
    <3>1. W \cap holidays \in SUBSET holidays
      OBVIOUS
    <3> QED
      BY <3>1, FS_Subset
  <2> QED
    BY <1>5, <2>1, FS_CardinalityType
<1>14. Cardinality(W \ holidays) >= span
  <2> DEFINE gap == WeekdaysBefore(today + 1) - WeekdaysBefore(lo)
  <2>1. gap \in Int /\ gap >= span + span \div 7 + 5 /\ gap <= Cardinality(W)
    BY <1>2, <1>3, <1>4, <1>9 DEF lo
  <2> HIDE DEF gap
  <2> QED
    BY <1>1, <1>11, <1>12, <1>13, <2>1
<1> QED
  BY <1>5, <1>10, <1>11, <1>14

\* At least one session is asked for.
LEMMA SpanType ==
  ASSUME NEW sessions \in Int
  PROVE  Max({1, sessions}) \in Int /\ Max({1, sessions}) >= 1
<1>1. Max({1, sessions}) = IF 1 < sessions THEN sessions ELSE 1
  BY OfTwo
<1> QED
  BY <1>1

\* The sessions handed on are as many as asked for, at least one, and the latest
\* there were, if not more than five days and one a week asked for are holidays.
THEOREM WindowHoldsTheSessions ==
  ASSUME NEW today \in Int, NEW sessions \in Int, NEW holidays, IsFiniteSet(holidays),
         Cardinality(holidays) <= Max({1, sessions}) \div 7 + 5
  PROVE  LET days == Candles(today, sessions, holidays)
         IN  /\ Cardinality(days) = Max({1, sessions})
             /\ \A day \in Min(days)..today :
                  Weekday(day) /\ day \notin holidays <=> day \in days
<1> DEFINE span == Max({1, sessions})
           bars == TradedDays(today, span, holidays)
           days == Candles(today, sessions, holidays)
<1>1. span \in Int /\ span >= 1
  BY SpanType
<1> HIDE DEF span
<1>2. bars \in SUBSET Int /\ IsFiniteSet(bars) /\ Cardinality(bars) >= span
  BY <1>1, EnoughBars DEF span
<1>3. days = Greatest(bars, span)
  BY DEF Candles, Greatest, TradedDays, span
<1> HIDE DEF bars, days
<1>4. Cardinality(days) = span
  <2>1. Cardinality(bars) \in Nat
    BY <1>2, FS_CardinalityType
  <2> QED
    BY <1>1, <1>2, <1>3, <2>1, GreatestAreSoMany
<1>5. days \in SUBSET bars /\ IsFiniteSet(days) /\ days # {} /\ days \in SUBSET Int
  <2>1. days \in SUBSET bars
    BY <1>3 DEF Greatest
  <2>2. IsFiniteSet(days)
    BY <1>2, <2>1, FS_Subset
  <2>3. days # {}
    BY <1>1, <1>4, FS_EmptySet
  <2> QED
    BY <1>2, <2>1, <2>2, <2>3
<1>6. Min(days) \in days
  BY <1>5, MinIsLeast
<1>7. ASSUME NEW day \in Min(days)..today
      PROVE  Weekday(day) /\ day \notin holidays <=> day \in days
  <2>1. CASE day \in days
    BY <1>5, <2>1 DEF bars, TradedDays
  <2>2. ASSUME Weekday(day), day \notin holidays PROVE day \in days
    <3>1. Min(days) \in Window(today, span) /\ Min(days) \in Int
      BY <1>5, <1>6 DEF bars, TradedDays
    <3>2. day \in Window(today, span) /\ Min(days) <= day
      BY <1>1, <3>1 DEF Window
    <3>3. day \in bars
      BY <2>2, <3>2 DEF bars, TradedDays
    <3> QED
      BY <1>1, <1>2, <1>3, <1>6, <3>2, <3>3, GreatestAreUpward
  <2> QED
    BY <2>1, <2>2
<1> QED
  BY <1>4, <1>7 DEF days, span

\* The candles handed on are all the sessions asked for.
THEOREM SessionsAreAlwaysComplete == Spec => []SessionsAreComplete
<1>1. ASSUME Answered, Done("candles")
      PROVE  SessionsAreComplete
  <2>0. case \in Fetches /\ result = Fetched(case)
    BY <1>1, InputOfRule DEF Done, Answered, ReturnedWhatItMakes
  <2> DEFINE holidays == {case.built + h : h \in case.holidays}
             f == [h \in case.holidays |-> case.built + h]
  <2>1. /\ case.built \in Int /\ case.sessions \in Int /\ case.holidays \in SUBSET (-6..0)
        /\ Cardinality(case.holidays) <= 5
    BY <2>0 DEF Fetches
  <2>2. IsFiniteSet(case.holidays)
    <3>1. PICK a \in Int, b \in Int : case.holidays \in SUBSET (a..b)
      BY <2>1
    <3> QED
      BY <3>1, FS_Interval, FS_Subset
  <2>3. IsFiniteSet(holidays) /\ Cardinality(holidays) <= Cardinality(case.holidays)
    <3>1. holidays = {f[h] : h \in case.holidays}
      OBVIOUS
    <3> HIDE DEF f, holidays
    <3> QED
      BY <2>2, <3>1, ImageSize
  <2>4. Cardinality(holidays) <= Max({1, case.sessions}) \div 7 + 5
    <3>1. Max({1, case.sessions}) \div 7 \in Nat
      <4>1. Max({1, case.sessions}) \in Nat
        BY <2>1, SpanType
      <4> QED
        BY <4>1
    <3>2. Cardinality(holidays) \in Nat /\ Cardinality(case.holidays) \in Nat
      BY <2>2, <2>3, FS_CardinalityType
    <3> HIDE DEF holidays
    <3> QED
      BY <2>1, <2>3, <3>1, <3>2
  <2>5. result.days = Candles(case.built, case.sessions, holidays)
    BY <2>0 DEF Today, Fetched
  <2> HIDE DEF holidays
  <2>6. /\ Cardinality(result.days) = Max({1, case.sessions})
        /\ \A day \in Min(result.days)..case.built :
             Weekday(day) /\ day \notin holidays <=> day \in result.days
    BY <2>1, <2>3, <2>4, <2>5, WindowHoldsTheSessions
  <2>7. \A day \in Int : day \in holidays <=> day - case.built \in case.holidays
    BY <2>1 DEF holidays
  <2>8. \A day \in Min(result.days)..case.built : day \in Int
    OBVIOUS
  <2> QED
    BY <2>6, <2>7, <2>8 DEF SessionsAreComplete
<1>2. Answered => SessionsAreComplete
  BY <1>1 DEF SessionsAreComplete
<1> QED
  BY <1>2, AnsweredInvariant, PTL

-----------------------------------------------------------------------------
(***************************************************************************)
(* The portfolio agent, for every list of holdings.                        *)
(***************************************************************************)
LEMMA GradeRises ==
  ASSUME NEW num, NEW den, NEW other, NEW whole, NEW t,
         \A i \in 1..4 : 100 * num >= t[i] * den => 100 * other >= t[i] * whole
  PROVE  /\ Grade(num, den, t) <= Grade(other, whole, t)
         /\ Grade(num, den, t) \in Int /\ Grade(other, whole, t) \in Int
<1> DEFINE A == {i \in 1..4 : 100 * num >= t[i] * den}
           B == {i \in 1..4 : 100 * other >= t[i] * whole}
<1>1. A \in SUBSET B
  OBVIOUS
<1>2. IsFiniteSet(A) /\ IsFiniteSet(B)
  <2>1. PICK m \in Int, n \in Int : A \in SUBSET (m..n) /\ B \in SUBSET (m..n)
    OBVIOUS
  <2> HIDE DEF A, B
  <2> QED
    BY <2>1, FS_Interval, FS_Subset
<1>3. Grade(num, den, t) = Cardinality(A) - 2 /\ Grade(other, whole, t) = Cardinality(B) - 2
  BY DEF Grade
<1> HIDE DEF A, B
<1>4. Cardinality(A) <= Cardinality(B) /\ Cardinality(A) \in Nat /\ Cardinality(B) \in Nat
  BY <1>1, <1>2, FS_Subset, FS_CardinalityType
<1> QED
  BY <1>3, <1>4

\* A list of holdings, of any symbols.
Holding(Symbols) == [symbol : Symbols, value : Nat]

IsPortfolio(holdings) == \E Symbols : holdings \in Seq(Holding(Symbols))

LastOf(holdings, s) == Max({i \in DOMAIN holdings : holdings[i].symbol = s})

\* The values of a book are numbers, and so are its sums.
LEMMA PortfolioTypes ==
  ASSUME NEW holdings, IsPortfolio(holdings), holdings # << >>
  PROVE  LET book == BookValues(holdings)
         IN  /\ IsFiniteSet(DOMAIN book)
             /\ DOMAIN book = {holdings[i].symbol : i \in DOMAIN holdings}
             /\ \A s \in DOMAIN book :
                  /\ LastOf(holdings, s) \in DOMAIN holdings
                  /\ holdings[LastOf(holdings, s)].symbol = s
                  /\ book[s] = holdings[LastOf(holdings, s)].value
             /\ \A s \in DOMAIN book : book[s] \in Nat
<1> DEFINE H == DOMAIN holdings
           book == BookValues(holdings)
           f == [i \in H |-> holdings[i].symbol]
<1>1. PICK Symbols : holdings \in Seq(Holding(Symbols))
  BY DEF IsPortfolio
<1>2. H = 1..Len(holdings) /\ Len(holdings) \in Nat
  BY <1>1
<1>3. IsFiniteSet(H) /\ H \in SUBSET Int
  BY <1>2, FS_Interval
<1>4. DOMAIN book = {f[i] : i \in H}
  BY DEF BookValues
<1>5. DOMAIN book = {holdings[i].symbol : i \in H}
  BY DEF BookValues
<1>6. IsFiniteSet(DOMAIN book)
  <2> HIDE DEF f, H, book
  <2>1. IsFiniteSet({f[i] : i \in H})
    BY <1>3, ImageSize
  <2> QED
    BY <1>4, <2>1
<1>7. \A s \in DOMAIN book : book[s] = holdings[LastOf(holdings, s)].value
  BY DEF BookValues, LastOf
<1>8. ASSUME NEW s \in DOMAIN book
      PROVE  /\ LastOf(holdings, s) \in H /\ holdings[LastOf(holdings, s)].symbol = s
             /\ holdings[LastOf(holdings, s)].value \in Nat
  <2> DEFINE those == {i \in H : holdings[i].symbol = s}
  <2>1. those # {}
    BY <1>5
  <2>2. IsFiniteSet(those) /\ those \in SUBSET Int
    BY <1>3, FS_Subset
  <2>3. Max(those) \in those
    <3> HIDE DEF those
    <3> QED
      BY <2>1, <2>2, MaxIsGreatest
  <2>4. \A i \in H : holdings[i] \in Holding(Symbols)
    BY <1>1, ElementOf
  <2> QED
    BY <2>3, <2>4 DEF LastOf, Holding
<1> HIDE DEF book, f
<1> QED
  BY <1>5, <1>6, <1>7, <1>8 DEF book

\* What it takes to add to a holding: its symbol's value rises, by nothing if a
\* later holding has the symbol as well.
LEMMA HeavierBook ==
  ASSUME NEW holdings, IsPortfolio(holdings), NEW i \in DOMAIN holdings, NEW r \in Nat
  PROVE  LET book  == BookValues(holdings)
             other == BookValues([holdings EXCEPT ![i].value = @ + r])
             s     == holdings[i].symbol
         IN  /\ DOMAIN other = DOMAIN book /\ s \in DOMAIN book
             /\ \A u \in DOMAIN book : u # s => other[u] = book[u]
             /\ other[s] - book[s] \in {0, r} /\ other[s] \in Nat
             /\ IsPortfolio([holdings EXCEPT ![i].value = @ + r])
<1> DEFINE heavier == [holdings EXCEPT ![i].value = @ + r]
           H == DOMAIN holdings
           book == BookValues(holdings)
           other == BookValues(heavier)
           s == holdings[i].symbol
<1>1. PICK Symbols : holdings \in Seq(Holding(Symbols))
  BY DEF IsPortfolio
<1>2. \A j \in H : holdings[j] \in Holding(Symbols)
  BY <1>1, ElementOf
<1>3. /\ DOMAIN heavier = H
      /\ \A j \in H : j # i => heavier[j] = holdings[j]
      /\ heavier[i] = [holdings[i] EXCEPT !.value = @ + r]
  OBVIOUS
<1> HIDE DEF heavier
<1>4. /\ heavier[i] \in Holding(Symbols) /\ heavier[i].symbol = s
      /\ heavier[i].value = holdings[i].value + r
  BY <1>2, <1>3 DEF Holding
<1>5. \A j \in H : /\ heavier[j] \in Holding(Symbols)
                   /\ heavier[j].symbol = holdings[j].symbol
                   /\ heavier[j].value = holdings[j].value + (IF j = i THEN r ELSE 0)
  <2> SUFFICES ASSUME NEW j \in H
               PROVE  /\ heavier[j] \in Holding(Symbols)
                      /\ heavier[j].symbol = holdings[j].symbol
                      /\ heavier[j].value = holdings[j].value + (IF j = i THEN r ELSE 0)
    OBVIOUS
  <2>1. holdings[j] \in Holding(Symbols) /\ holdings[j].value \in Nat
    BY <1>2 DEF Holding
  <2>2. CASE j = i
    BY <1>4, <2>2
  <2>3. CASE j # i
    BY <1>3, <2>1, <2>3
  <2> QED
    BY <2>2, <2>3
<1>6. IsPortfolio(heavier) /\ heavier # << >> /\ holdings # << >>
  <2>1. H = 1..Len(holdings) /\ Len(holdings) \in Nat
    BY <1>1
  <2>2. heavier = [j \in 1..Len(holdings) |-> heavier[j]]
    BY <1>3, <2>1 DEF heavier
  <2>3. heavier \in Seq(Holding(Symbols))
    BY <1>5, <2>1, <2>2
  <2>4. heavier # << >> /\ holdings # << >>
    BY <1>3
  <2>5. IsPortfolio(heavier)
    BY <2>3, Zenon DEF IsPortfolio
  <2> QED
    BY <2>4, <2>5
<1>7. DOMAIN other = DOMAIN book /\ s \in DOMAIN book
  BY <1>3, <1>5 DEF BookValues
<1>8. ASSUME NEW u \in DOMAIN book
      PROVE  /\ u # s => other[u] = book[u]
             /\ u = s => other[u] = book[u] \/ other[u] = book[u] + r
             /\ book[u] \in Nat /\ other[u] \in Nat
  <2> DEFINE last == LastOf(holdings, u)
  <2>1. last \in H /\ holdings[last].symbol = u /\ book[u] = holdings[last].value /\ book[u] \in Nat
    BY <1>6, PortfolioTypes
  <2>2. LastOf(heavier, u) = last
    <3>1. {j \in H : holdings[j].symbol = u} = {j \in DOMAIN heavier : heavier[j].symbol = u}
      BY <1>3, <1>5
    <3> QED
      BY <3>1 DEF LastOf
  <2>3. other[u] = heavier[last].value
    <3>1. other[u] = heavier[LastOf(heavier, u)].value
      BY <1>7 DEF BookValues, LastOf
    <3> QED
      BY <2>2, <3>1
  <2> HIDE DEF last, book, other
  <2> QED
    BY <1>5, <2>1, <2>3
<1>9. other[s] - book[s] \in {0, r} /\ other[s] \in Nat
  <2> HIDE DEF book, other, s
  <2>1. book[s] \in Nat /\ (other[s] = book[s] \/ other[s] = book[s] + r) /\ other[s] \in Nat
    BY <1>7, <1>8
  <2> QED
    BY <2>1
<1> QED
  BY <1>6, <1>7, <1>8, <1>9 DEF heavier

\* The value of part of a book is a number and no more than that of a larger part.
LEMMA ValueTypes ==
  ASSUME NEW holdings, IsPortfolio(holdings), holdings # << >>, NEW S, NEW T, S \subseteq T
  PROVE  LET book == BookValues(holdings)
         IN ValueOf(book, S) \in Nat /\ ValueOf(book, T) \in Nat /\ ValueOf(book, S) <= ValueOf(book, T)
<1> DEFINE book == BookValues(holdings)
           A == S \cap DOMAIN book
           B == T \cap DOMAIN book
<1>1. IsFiniteSet(DOMAIN book) /\ \A s \in DOMAIN book : book[s] \in Nat
  BY PortfolioTypes
<1>2. A \in SUBSET B /\ B \in SUBSET DOMAIN book /\ A \in SUBSET DOMAIN book
  OBVIOUS
<1>3. ValueOf(book, S) = SumFunctionOnSet(book, A) /\ ValueOf(book, T) = SumFunctionOnSet(book, B)
  BY DEF ValueOf
<1> HIDE DEF book, A, B
<1>4. /\ IsFiniteSet(A) /\ \A s \in A : book[s] \in Nat
      /\ IsFiniteSet(B) /\ \A s \in B : book[s] \in Nat
  BY <1>1, <1>2, FS_Subset
<1>5. SumFunctionOnSet(book, A) \in Nat /\ SumFunctionOnSet(book, B) \in Nat
  BY <1>4, SumOfNat
<1>6. SumFunctionOnSet(book, A) <= SumFunctionOnSet(book, B)
  BY <1>2, <1>4, SumOfPart
<1> QED
  BY <1>3, <1>5, <1>6 DEF book

\* A heavier holding adds to the value of a set of symbols what its own symbol gains, if
\* its symbol is in the set.
LEMMA HeavierValue ==
  ASSUME NEW holdings, IsPortfolio(holdings), NEW i \in DOMAIN holdings, NEW r \in Nat, NEW S
  PROVE  LET book  == BookValues(holdings)
             other == BookValues([holdings EXCEPT ![i].value = @ + r])
             s     == holdings[i].symbol
         IN  /\ s \in S => ValueOf(other, S) = ValueOf(book, S) + (other[s] - book[s])
             /\ s \notin S => ValueOf(other, S) = ValueOf(book, S)
<1> DEFINE heavier == [holdings EXCEPT ![i].value = @ + r]
           book == BookValues(holdings)
           other == BookValues(heavier)
           s == holdings[i].symbol
           A == S \cap DOMAIN book
<1>0. holdings # << >>
  OBVIOUS
<1>1. /\ DOMAIN other = DOMAIN book /\ s \in DOMAIN book
      /\ \A u \in DOMAIN book : u # s => other[u] = book[u]
      /\ other[s] \in Nat
  BY HeavierBook
<1>2. IsFiniteSet(DOMAIN book) /\ \A u \in DOMAIN book : book[u] \in Nat
  BY <1>0, PortfolioTypes
<1>3. ValueOf(book, S) = SumFunctionOnSet(book, A) /\ ValueOf(other, S) = SumFunctionOnSet(other, A)
  BY <1>1 DEF ValueOf
<1> HIDE DEF book, other, s, heavier
<1>4. IsFiniteSet(A) /\ A \in SUBSET DOMAIN book
  BY <1>2, FS_Subset
<1>5. \A u \in A : book[u] \in Int /\ other[u] \in Int /\ (u # s => book[u] = other[u])
  BY <1>1, <1>2, <1>4
<1>6. ASSUME s \in S
      PROVE  SumFunctionOnSet(other, A) = SumFunctionOnSet(book, A) + (other[s] - book[s])
  <2>1. s \in A
    BY <1>1, <1>6
  <2>2. DifferAt(book, other, s, A)
    BY <1>5 DEF DifferAt
  <2>3. IsFiniteSet(A)
    BY <1>4
  <2> HIDE DEF A
  <2> QED
    BY <2>1, <2>2, <2>3, SumOfReplaced
<1>7. ASSUME s \notin S
      PROVE  SumFunctionOnSet(other, A) = SumFunctionOnSet(book, A)
  <2>1. \A u \in A : book[u] = other[u]
    BY <1>5, <1>7
  <2> HIDE DEF A
  <2> QED
    BY <1>4, <2>1, SumCongruence
<1> QED
  BY <1>3, <1>6, <1>7 DEF book, other, s, heavier

\* The fit of a candidate, from what is held of it, of its sector and in all.
LEMMA FitWorsens ==
  ASSUME NEW o \in Nat, NEW c \in Nat, NEW v \in Nat, NEW n \in Nat, NEW x \in Nat,
         o <= c, c <= v, x = 0 \/ x = n
  PROVE  LET fit   == PositionFit(o, c, AtLeast(v, 1))
             other == PositionFit(o + x, c + n, AtLeast(v + n, 1))
         IN  /\ other = 1 => fit = 1
             /\ x = n => other <= fit
BY DEF PositionFit, AtLeast

\* A share of the book that reaches a threshold still reaches it after the same amount
\* is added to both.
LEMMA ExposureGrows ==
  ASSUME NEW c \in Nat, NEW v \in Nat, NEW n \in Nat, c <= v, NEW i \in 1..4,
         100 * c >= <<15, 30, 45, 60>>[i] * AtLeast(v, 1)
  PROVE  100 * (c + n) >= <<15, 30, 45, 60>>[i] * AtLeast(v + n, 1)
<1>1. PICK t \in {15, 30, 45, 60} : t = <<15, 30, 45, 60>>[i]
  OBVIOUS
<1>2. 100 * c >= t * AtLeast(v, 1)
  BY <1>1
<1>3. 100 * (c + n) >= t * AtLeast(v + n, 1)
  <2>1. CASE t = 15
    BY <1>2, <2>1 DEF AtLeast
  <2>2. CASE t = 30
    BY <1>2, <2>2 DEF AtLeast
  <2>3. CASE t = 45
    BY <1>2, <2>3 DEF AtLeast
  <2>4. CASE t = 60
    BY <1>2, <2>4 DEF AtLeast
  <2> QED
    BY <2>1, <2>2, <2>3, <2>4
<1> QED
  BY <1>1, <1>3

\* Whatever the book, holding any amount more in the candidate's sector leaves it
\* at least as exposed and makes no diversifier of it, and holding more of the
\* candidate itself leaves it no better a fit.
THEOREM HeavierIsNoBetter ==
  ASSUME NEW holdings, IsPortfolio(holdings), NEW i \in DOMAIN holdings, NEW r \in Nat,
         NEW candidate, SectorOf(holdings[i].symbol) = SectorOf(candidate)
  PROVE  LET light == JudgeBook(holdings, candidate)
             heavy == JudgeBook([holdings EXCEPT ![i].value = @ + r], candidate)
         IN  /\ heavy.exposure <= light.exposure
             /\ heavy.fit = 1 => light.fit = 1
             /\ holdings[i].symbol = candidate => heavy.fit <= light.fit
<1> DEFINE heavier == [holdings EXCEPT ![i].value = @ + r]
           book == BookValues(holdings)
           other == BookValues(heavier)
           s == holdings[i].symbol
           D == DOMAIN book
           C == Crowd(book, candidate)
           n == other[s] - book[s]
           v == ValueOf(book, D)
           c == ValueOf(book, C)
           o == ValueOf(book, {candidate})
           x == IF s = candidate THEN n ELSE 0
<1>0. holdings # << >> /\ heavier # << >>
  OBVIOUS
<1>1. /\ DOMAIN other = D /\ s \in D /\ n \in {0, r} /\ IsPortfolio(heavier)
  BY HeavierBook
<1>2. Crowd(other, candidate) = C /\ s \in C /\ C \subseteq D
  BY <1>1 DEF Crowd
<1>3. v \in Nat /\ c \in Nat /\ o \in Nat /\ c <= v /\ o <= c
  <2>1. c \in Nat /\ v \in Nat /\ c <= v
    BY <1>0, <1>2, ValueTypes
  <2>2. o \in Nat /\ o <= c
    <3>1. CASE candidate \in D
      <4>1. {candidate} \subseteq C
        BY <3>1 DEF Crowd
      <4> QED
        BY <1>0, <4>1, ValueTypes
    <3>2. CASE candidate \notin D
      <4>1. {candidate} \cap D = {} /\ IsFiniteSet({})
        BY <3>2, FS_EmptySet
      <4>2. o = 0
        BY <4>1, SumOfEmpty DEF ValueOf
      <4> QED
        BY <2>1, <4>2
    <3> QED
      BY <3>1, <3>2
  <2> QED
    BY <2>1, <2>2
<1>4. /\ ValueOf(other, D) = v + n /\ ValueOf(other, C) = c + n
      /\ ValueOf(other, {candidate}) = o + x
  <2>1. ValueOf(other, D) = v + n
    BY <1>1, HeavierValue
  <2>2. ValueOf(other, C) = c + n
    BY <1>2, HeavierValue
  <2>3. /\ s = candidate => ValueOf(other, {candidate}) = o + n
        /\ s # candidate => ValueOf(other, {candidate}) = o
    BY HeavierValue
  <2> HIDE DEF o, n
  <2> QED
    BY <1>3, <2>1, <2>2, <2>3
<1>5. /\ JudgeBook(holdings, candidate).exposure = - Grade(c, AtLeast(v, 1), <<15, 30, 45, 60>>)
      /\ JudgeBook(holdings, candidate).fit = PositionFit(o, c, AtLeast(v, 1))
  BY <1>0 DEF JudgeBook
<1>6. /\ JudgeBook(heavier, candidate).exposure =
           - Grade(c + n, AtLeast(v + n, 1), <<15, 30, 45, 60>>)
      /\ JudgeBook(heavier, candidate).fit = PositionFit(o + x, c + n, AtLeast(v + n, 1))
  <2>1. /\ JudgeBook(heavier, candidate).exposure =
             - Grade(ValueOf(other, Crowd(other, candidate)),
                     AtLeast(ValueOf(other, DOMAIN other), 1), <<15, 30, 45, 60>>)
        /\ JudgeBook(heavier, candidate).fit =
             PositionFit(ValueOf(other, {candidate}), ValueOf(other, Crowd(other, candidate)),
                         AtLeast(ValueOf(other, DOMAIN other), 1))
    BY <1>0 DEF JudgeBook
  <2> HIDE DEF other, book, heavier, C, D, n, v, c, o, x
  <2> QED
    BY <1>1, <1>2, <1>4, <2>1
<1>7. n \in Nat /\ x \in Nat /\ (x = 0 \/ x = n) /\ (s = candidate => x = n)
  <2> HIDE DEF n
  <2> QED
    BY <1>1
<1> HIDE DEF other, book, heavier, C, D, n, v, c, o, x, s
<1>8. LET t == <<15, 30, 45, 60>>
      IN  /\ Grade(c, AtLeast(v, 1), t) <= Grade(c + n, AtLeast(v + n, 1), t)
          /\ Grade(c, AtLeast(v, 1), t) \in Int /\ Grade(c + n, AtLeast(v + n, 1), t) \in Int
  <2> DEFINE t == <<15, 30, 45, 60>>
             all == AtLeast(v, 1)
             more == AtLeast(v + n, 1)
             cn == c + n
  <2>1. \A j \in 1..4 : 100 * c >= t[j] * all => 100 * cn >= t[j] * more
    BY <1>3, <1>7, ExposureGrows
  <2> HIDE DEF t, all, more, cn
  <2>2. /\ Grade(c, all, t) <= Grade(cn, more, t)
        /\ Grade(c, all, t) \in Int /\ Grade(cn, more, t) \in Int
    BY <2>1, GradeRises
  <2> QED
    BY <2>2 DEF t, all, more, cn
<1>9. LET fit   == PositionFit(o, c, AtLeast(v, 1))
          worse == PositionFit(o + x, c + n, AtLeast(v + n, 1))
      IN  (worse = 1 => fit = 1) /\ (x = n => worse <= fit)
  BY <1>3, <1>7, FitWorsens
<1>10. /\ JudgeBook(heavier, candidate).exposure <= JudgeBook(holdings, candidate).exposure
       /\ JudgeBook(heavier, candidate).fit = 1 => JudgeBook(holdings, candidate).fit = 1
       /\ s = candidate => JudgeBook(heavier, candidate).fit <= JudgeBook(holdings, candidate).fit
  <2>1. JudgeBook(heavier, candidate).exposure <= JudgeBook(holdings, candidate).exposure
    <3>1. \A a, b \in Int : a <= b => - b <= - a
      OBVIOUS
    <3> QED
      BY <1>5, <1>6, <1>8, <3>1
  <2> QED
    BY <1>5, <1>6, <1>7, <1>9, <2>1
<1> QED
  BY <1>10 DEF heavier, s

\* A heavier holding of the candidate's sector is never a better book for it.
THEOREM CrowdingHelpsNever == Spec => []CrowdingNeverHelps
<1>1. ASSUME Answered, Done("portfolio")
      PROVE  CrowdingNeverHelps
  <2>0. case \in Books /\ result = JudgeBook(case.holdings, case.candidate)
    BY <1>1, InputOfRule DEF Done, Answered, ReturnedWhatItMakes
  <2>1. IsPortfolio(case.holdings)
    <3>1. case.holdings \in BoundedSeq(Holdings, 3)
      BY <2>0 DEF Books
    <3>2. case.holdings \in Seq(Holdings)
      BY <3>1, BoundedSeqs
    <3>3. Holdings \subseteq Holding({"TCS", "INFY", "SBIN", "ACME"})
      BY DEF Holdings, Holding
    <3>4. case.holdings \in Seq(Holding({"TCS", "INFY", "SBIN", "ACME"}))
      BY <3>2, <3>3
    <3> QED
      BY <3>4 DEF IsPortfolio
  <2>2. PICK r \in Nat : r = 3
    OBVIOUS
  <2>3. ASSUME NEW i \in DOMAIN case.holdings,
               SectorOf(case.holdings[i].symbol) = SectorOf(case.candidate)
        PROVE  LET heavy == JudgeBook([case.holdings EXCEPT ![i].value = @ + r], case.candidate)
               IN  /\ heavy.exposure <= result.exposure
                   /\ heavy.fit = 1 => result.fit = 1
                   /\ case.holdings[i].symbol = case.candidate => heavy.fit <= result.fit
    BY <2>0, <2>1, <2>3, HeavierIsNoBetter
  <2> QED
    BY <2>2, <2>3 DEF CrowdingNeverHelps
<1>2. Answered => CrowdingNeverHelps
  BY <1>1 DEF CrowdingNeverHelps
<1> QED
  BY <1>2, AnsweredInvariant, PTL

-----------------------------------------------------------------------------
(***************************************************************************)
(* Serialization of recommendations whose converted fields are of the      *)
(* kinds their constructors build, over any texts, numbers and times V.    *)
(***************************************************************************)
Boxed(kind, V) == [kind : {kind}, value : V]
Timed(V) == [at : V, zone : V]
Outlooked(V) ==
  [probability : V, cagr : Boxed("Percent", V), low : Boxed("Percent", V),
   high : Boxed("Percent", V), confidence : Boxed("Confidence", V)]
Signalled(V) == [name : V, value : V, strength : Boxed("Strength", V)]
Reported(V) ==
  [agent : V, score : Boxed("Score", V), signals : Seq(Signalled(V)), assumptions : V]
Cited(V) == [claim : V, source : V, weight : V, observedAt : Timed(V)]
Recorded(V) ==
  [id : V, outlook : Outlooked(V), risk : [atRisk : Boxed("Money", V)], debate : V,
   reports : Seq(Reported(V)), evidence : Seq(Cited(V)),
   action : Boxed("Action", V), conviction : Boxed("Conviction", V),
   confidence : Boxed("Confidence", V), assumptions : V, counterArguments : V,
   generatedAt : Timed(V)]

\* A value that is boxed again after it was unboxed is the same value.
LEMMA UnboxedBack ==
  ASSUME NEW kind, NEW V, NEW b \in Boxed(kind, V)
  PROVE  Value(kind, b.value) = b
BY DEF Boxed, Value

\* A time is read back from its ISO form.
LEMMA TimeReadsBack ==
  ASSUME NEW V, NEW t \in Timed(V)
  PROVE  ParseDt(Iso(t)) = t
BY DEF Timed, ParseDt, Iso

\* A signal is read back from its dict.
LEMMA SignalReadsBack ==
  ASSUME NEW V, NEW s \in Signalled(V)
  PROVE  SignalFromDict(SignalToDict(s)) = s
<1>1. /\ s = [name |-> s.name, value |-> s.value, strength |-> s.strength]
      /\ s.strength \in Boxed("Strength", V)
  BY DEF Signalled
<1>2. Value("Strength", s.strength.value) = s.strength
  BY <1>1, UnboxedBack
<1> QED
  BY <1>1, <1>2 DEF SignalToDict, SignalFromDict

\* A report is read back from its dict, signal by signal.
LEMMA ReportReadsBack ==
  ASSUME NEW V, NEW r \in Reported(V)
  PROVE  ReportFromDict(ReportToDict(r)) = r
<1> DEFINE p == [n \in DOMAIN r.signals |-> SignalToDict(r.signals[n])]
<1>1. /\ r = [agent |-> r.agent, score |-> r.score, signals |-> r.signals,
              assumptions |-> r.assumptions]
      /\ r.score \in Boxed("Score", V)
      /\ r.signals \in Seq(Signalled(V))
  BY DEF Reported
<1>2. Value("Score", r.score.value) = r.score
  BY <1>1, UnboxedBack
<1>3. /\ r.signals = [n \in DOMAIN r.signals |-> r.signals[n]]
      /\ \A n \in DOMAIN r.signals : r.signals[n] \in Signalled(V)
  BY <1>1, ElementOf
<1>4. \A n \in DOMAIN r.signals : SignalFromDict(SignalToDict(r.signals[n])) = r.signals[n]
  BY <1>3, SignalReadsBack
<1>5. DOMAIN p = DOMAIN r.signals /\ \A n \in DOMAIN r.signals : p[n] = SignalToDict(r.signals[n])
  OBVIOUS
<1>6. [n \in DOMAIN p |-> SignalFromDict(p[n])] = r.signals
  BY <1>3, <1>4, <1>5
<1> DEFINE stored == ReportToDict(r)
           back == ReportFromDict(stored)
<1> HIDE DEF p
<1>7. /\ stored \in [agent : V, score : V, signals : {p}, assumptions : V]
      /\ stored.agent = r.agent /\ stored.score = r.score.value
      /\ stored.assumptions = r.assumptions
  BY DEF Reported, Boxed, ReportToDict, p
<1> HIDE DEF stored
<1>8. /\ back \in [agent : V, score : {r.score}, signals : {r.signals}, assumptions : V]
      /\ back.agent = r.agent /\ back.assumptions = r.assumptions
  BY <1>2, <1>6, <1>7 DEF ReportFromDict
<1> HIDE DEF back
<1>9. back = r
  BY <1>1, <1>8
<1> QED
  BY <1>9 DEF back, stored

\* A piece of evidence is read back from its dict.
LEMMA EvidenceReadsBack ==
  ASSUME NEW V, NEW e \in Cited(V)
  PROVE  EvidenceFromDict(EvidenceToDict(e)) = e
<1>1. /\ e = [claim |-> e.claim, source |-> e.source, weight |-> e.weight,
              observedAt |-> e.observedAt]
      /\ e.observedAt \in Timed(V)
  BY DEF Cited
<1>2. ParseDt(Iso(e.observedAt)) = e.observedAt
  BY <1>1, TimeReadsBack
<1> QED
  BY <1>1, <1>2 DEF EvidenceToDict, EvidenceFromDict

\* An outlook is read back from its dict.
LEMMA OutlookReadsBack ==
  ASSUME NEW V, NEW o \in Outlooked(V)
  PROVE  OutlookFromDict(OutlookToDict(o)) = o
<1> DEFINE p == OutlookToDict(o)
           back == OutlookFromDict(p)
<1>1. /\ p \in [probability : V, cagr : V, low : V, high : V, confidence : V]
      /\ p.probability = o.probability /\ p.cagr = o.cagr.value /\ p.low = o.low.value
      /\ p.high = o.high.value /\ p.confidence = o.confidence.value
  BY DEF Outlooked, Boxed, OutlookToDict
<1>2. /\ Value("Percent", o.cagr.value) = o.cagr
      /\ Value("Percent", o.low.value) = o.low
      /\ Value("Percent", o.high.value) = o.high
      /\ Value("Confidence", o.confidence.value) = o.confidence
  BY UnboxedBack DEF Outlooked
<1> HIDE DEF p
<1>3. /\ DOMAIN back = DOMAIN p
      /\ back.probability = o.probability /\ back.cagr = o.cagr /\ back.low = o.low
      /\ back.high = o.high /\ back.confidence = o.confidence
  BY <1>1, <1>2 DEF OutlookFromDict
<1>4. back \in Outlooked(V)
  BY <1>1, <1>2, <1>3 DEF Outlooked, OutlookFromDict
<1> HIDE DEF back
<1>5. back = o
  BY <1>3, <1>4 DEF Outlooked
<1> QED
  BY <1>5 DEF back, p

\* A risk assessment is read back from its dict.
LEMMA RiskReadsBack ==
  ASSUME NEW V, NEW r \in [atRisk : Boxed("Money", V)]
  PROVE  RiskFromDict(RiskToDict(r)) = r
<1>1. r = [atRisk |-> r.atRisk] /\ r.atRisk \in Boxed("Money", V)
  OBVIOUS
<1>2. Value("Money", r.atRisk.value) = r.atRisk
  BY <1>1, UnboxedBack
<1> QED
  BY <1>1, <1>2 DEF RiskToDict, RiskFromDict

\* Whatever its texts, numbers and times, a recommendation is read back from its
\* payload as it was.
THEOREM ReadsBack ==
  ASSUME NEW V, NEW rec \in Recorded(V)
  PROVE  FromDict(ToDict(rec)) = rec
<1> DEFINE s == [i \in DOMAIN rec.reports |-> ReportToDict(rec.reports[i])]
           e == [i \in DOMAIN rec.evidence |-> EvidenceToDict(rec.evidence[i])]
           p == ToDict(rec)
           back == FromDict(p)
<1>1. /\ rec.outlook \in Outlooked(V) /\ rec.risk \in [atRisk : Boxed("Money", V)]
      /\ rec.reports \in Seq(Reported(V)) /\ rec.evidence \in Seq(Cited(V))
      /\ rec.action \in Boxed("Action", V) /\ rec.conviction \in Boxed("Conviction", V)
      /\ rec.confidence \in Boxed("Confidence", V) /\ rec.generatedAt \in Timed(V)
  BY DEF Recorded
<1>2. /\ Value("Action", rec.action.value) = rec.action
      /\ Value("Conviction", rec.conviction.value) = rec.conviction
      /\ Value("Confidence", rec.confidence.value) = rec.confidence
      /\ ParseDt(Iso(rec.generatedAt)) = rec.generatedAt
      /\ OutlookFromDict(OutlookToDict(rec.outlook)) = rec.outlook
      /\ RiskFromDict(RiskToDict(rec.risk)) = rec.risk
  BY <1>1, UnboxedBack, TimeReadsBack, OutlookReadsBack, RiskReadsBack
<1>3. [i \in DOMAIN s |-> ReportFromDict(s[i])] = rec.reports
  <2>1. /\ rec.reports = [i \in DOMAIN rec.reports |-> rec.reports[i]]
        /\ \A i \in DOMAIN rec.reports : rec.reports[i] \in Reported(V)
    BY <1>1, ElementOf
  <2>2. \A i \in DOMAIN rec.reports : ReportFromDict(ReportToDict(rec.reports[i])) = rec.reports[i]
    BY <2>1, ReportReadsBack
  <2>3. DOMAIN s = DOMAIN rec.reports
        /\ \A i \in DOMAIN rec.reports : s[i] = ReportToDict(rec.reports[i])
    OBVIOUS
  <2> QED
    BY <2>1, <2>2, <2>3
<1>4. [i \in DOMAIN e |-> EvidenceFromDict(e[i])] = rec.evidence
  <2>1. /\ rec.evidence = [i \in DOMAIN rec.evidence |-> rec.evidence[i]]
        /\ \A i \in DOMAIN rec.evidence : rec.evidence[i] \in Cited(V)
    BY <1>1, ElementOf
  <2>2. \A i \in DOMAIN rec.evidence : EvidenceFromDict(EvidenceToDict(rec.evidence[i])) = rec.evidence[i]
    BY <2>1, EvidenceReadsBack
  <2>3. DOMAIN e = DOMAIN rec.evidence
        /\ \A i \in DOMAIN rec.evidence : e[i] = EvidenceToDict(rec.evidence[i])
    OBVIOUS
  <2> QED
    BY <2>1, <2>2, <2>3
<1> HIDE DEF e, s
<1>5. p \in [id : {rec.id}, outlook : {OutlookToDict(rec.outlook)}, risk : {RiskToDict(rec.risk)},
             debate : {rec.debate}, reports : {s}, evidence : {e}, action : {rec.action.value},
             conviction : {rec.conviction.value}, confidence : {rec.confidence.value},
             assumptions : {rec.assumptions}, counterArguments : {rec.counterArguments},
             generatedAt : {Iso(rec.generatedAt)}]
  BY DEF Recorded, ToDict, s, e
<1> HIDE DEF p
<1>6. back \in [id : {rec.id}, outlook : {rec.outlook}, risk : {rec.risk},
                debate : {rec.debate}, reports : {rec.reports}, evidence : {rec.evidence},
                action : {rec.action}, conviction : {rec.conviction},
                confidence : {rec.confidence}, assumptions : {rec.assumptions},
                counterArguments : {rec.counterArguments}, generatedAt : {rec.generatedAt}]
  BY <1>2, <1>3, <1>4, <1>5 DEF FromDict
<1> HIDE DEF back
<1>7. back = rec
  BY <1>6 DEF Recorded
<1> QED
  BY <1>7 DEF back, p

-----------------------------------------------------------------------------
(***************************************************************************)
(* The memory agent: a more recent look weighs more.                       *)
(***************************************************************************)
IsPower(p, base, n) == p = [k \in 0..n |-> IF k = 0 THEN 1 ELSE base * p[k - 1]]

\* Power, unfolded.
LEMMA PowerIsRecursive ==
  ASSUME NEW base, NEW n
  PROVE  Power(base, n) = (CHOOSE p : IsPower(p, base, n))[n]
BY DEF Power, IsPower

\* There are powers of every integer up to every exponent.
LEMMA PowersExist ==
  ASSUME NEW base \in Int, NEW n \in Nat
  PROVE  \E p : IsPower(p, base, n) /\ p \in [0..n -> Int]
<1> DEFINE G == [t \in (1..n) \X Int |-> base * t[2]]
<1>1. G \in Steps(n, Int) /\ \A k \in 1..n, x \in Int : G[<<k, x>>] = base * x
  BY DEF Steps
<1> HIDE DEF G
<1>2. PICK p \in [0..n -> Int] : p[0] = 1 /\ \A k \in 1..n : p[k] = G[<<k, p[k - 1]>>]
  <2>1. PICK one \in Int : one = 1
    OBVIOUS
  <2>2. PICK p : IsRecursion(p, Int, one, n, G)
    BY <1>1, PrefixRecursion
  <2> QED
    BY <2>1, <2>2 DEF IsRecursion
<1>3. \A k \in 0..n : p[k] = IF k = 0 THEN 1 ELSE base * p[k - 1]
  <2> SUFFICES ASSUME NEW k \in 0..n, k # 0 PROVE p[k] = base * p[k - 1]
    BY <1>2
  <2>1. k \in 1..n /\ k - 1 \in 0..n
    OBVIOUS
  <2>2. p[k - 1] \in Int
    BY <2>1
  <2> QED
    BY <1>1, <1>2, <2>1, <2>2
<1>4. IsPower(p, base, n)
  BY <1>3 DEF IsPower
<1> QED
  BY <1>4

\* Every table of powers has the same ones.
LEMMA PowersAgree ==
  ASSUME NEW base \in Int, NEW m \in Nat, NEW n \in Nat, m <= n,
         NEW p, IsPower(p, base, m), NEW q, IsPower(q, base, n)
  PROVE  p[m] = q[m]
<1> DEFINE Q == {k \in 0..m : p[k] = q[k]}
<1>1. 0 \in Q
  BY DEF IsPower
<1>2. ASSUME NEW k \in 0..(m-1), k \in Q PROVE k + 1 \in Q
  <2>1. k + 1 \in 0..m /\ k + 1 \in 0..n /\ k + 1 # 0 /\ (k + 1) - 1 = k
    OBVIOUS
  <2>2. p[k + 1] = base * p[k] /\ q[k + 1] = base * q[k]
    BY <2>1 DEF IsPower
  <2>3. p[k] = q[k]
    BY <1>2
  <2> QED
    BY <2>1, <2>2, <2>3
<1>3. m \in Q
  <2> HIDE DEF Q
  <2>1. Q \in SUBSET Nat
    BY DEF Q
  <2> QED
    BY <1>1, <1>2, <2>1, NatSetInduction
<1> QED
  BY <1>3

\* Power is the power.
LEMMA PowerUnfolds ==
  ASSUME NEW base \in Int, NEW n \in Nat
  PROVE  /\ Power(base, 0) = 1 /\ Power(base, n) \in Int
         /\ Power(base, n + 1) = base * Power(base, n)
<1>1. \A m \in Nat : \E p : IsPower(p, base, m) /\ p \in [0..m -> Int] /\ Power(base, m) = p[m]
  <2> SUFFICES ASSUME NEW m \in Nat
               PROVE  \E p : IsPower(p, base, m) /\ p \in [0..m -> Int] /\ Power(base, m) = p[m]
    OBVIOUS
  <2>1. \E p : IsPower(p, base, m)
    BY PowersExist
  <2>2. PICK p : IsPower(p, base, m) /\ Power(base, m) = p[m]
    BY <2>1, PowerIsRecursive
  <2>3. PICK q : IsPower(q, base, m) /\ q \in [0..m -> Int]
    BY PowersExist
  <2>4. \A k \in 0..m : q[k] \in Int
    BY <2>3
  <2>5. p[m] = q[m]
    BY <2>2, <2>3, PowersAgree
  <2> QED
    BY <2>2, <2>3, <2>5
<1>2. PICK p : IsPower(p, base, n) /\ p \in [0..n -> Int] /\ Power(base, n) = p[n]
  BY <1>1
<1>3. PICK q : IsPower(q, base, n + 1) /\ Power(base, n + 1) = q[n + 1]
  <2>1. PICK m \in Nat : m = n + 1
    OBVIOUS
  <2> QED
    BY <1>1, <2>1
<1>4. PICK o : IsPower(o, base, 0) /\ Power(base, 0) = o[0]
  BY <1>1
<1>5. p[n] = q[n]
  BY <1>2, <1>3, PowersAgree
<1>6. q[n + 1] = base * q[n]
  <2>1. n + 1 \in 0..(n + 1) /\ n + 1 # 0 /\ (n + 1) - 1 = n
    OBVIOUS
  <2> QED
    BY <1>3, <2>1 DEF IsPower
<1>7. o[0] = 1
  BY <1>4 DEF IsPower
<1>8. p[n] \in Int
  BY <1>2
<1> QED
  BY <1>2, <1>3, <1>4, <1>5, <1>6, <1>7, <1>8

\* Powers of a positive number are positive.
LEMMA PowerIsPositive ==
  ASSUME NEW base \in Nat \ {0}, NEW n \in Nat
  PROVE  Power(base, n) \in Nat \ {0}
<1> DEFINE Q == {k \in 0..n : Power(base, k) \in Nat \ {0}}
<1>1. 0 \in Q
  <2>1. Power(base, 0) = 1
    BY PowerUnfolds
  <2> QED
    BY <2>1
<1>2. ASSUME NEW k \in 0..(n-1), k \in Q PROVE k + 1 \in Q
  <2>1. Power(base, k + 1) = base * Power(base, k)
    BY PowerUnfolds
  <2>2. PICK x \in Nat \ {0} : x = Power(base, k)
    BY <1>2
  <2>3. base * x \in Nat \ {0}
    OBVIOUS
  <2>4. k + 1 \in 0..n
    OBVIOUS
  <2> QED
    BY <2>1, <2>2, <2>3, <2>4
<1>3. n \in Q
  <2> HIDE DEF Q
  <2>1. Q \in SUBSET Nat
    BY DEF Q
  <2> QED
    BY <1>1, <1>2, <2>1, NatSetInduction
<1> QED
  BY <1>3

\* Every look weighs less than the one after it.
LEMMA RecentWeighsMore ==
  ASSUME NEW n \in Nat, NEW i \in 1..n
  PROVE  /\ Weight(i, n) \in Nat \ {0}
         /\ i < n => Weight(i + 1, n) <= Weight(i, n)
<1>1. PICK a \in Nat, b \in Nat : a = i - 1 /\ b = n - i
  OBVIOUS
<1>2. PICK four \in Nat \ {0}, five \in Nat \ {0} : four = 4 /\ five = 5
  OBVIOUS
<1>3. PICK x \in Nat \ {0}, y \in Nat \ {0} : x = Power(four, a) /\ y = Power(five, b)
  BY PowerIsPositive
<1>4. Weight(i, n) = x * y
  BY <1>1, <1>2, <1>3 DEF Weight
<1>5. ASSUME i < n PROVE Weight(i + 1, n) <= Weight(i, n)
  <2>1. PICK c \in Nat : c + 1 = b
    <3>1. b - 1 \in Nat /\ (b - 1) + 1 = b
      BY <1>1, <1>5
    <3> QED
      BY <3>1
  <2>2. PICK z \in Nat \ {0} : z = Power(five, c)
    BY PowerIsPositive
  <2>3. y = 5 * z
    <3>1. Power(five, c + 1) = five * z
      BY <2>2, PowerUnfolds
    <3> QED
      BY <1>2, <1>3, <2>1, <3>1
  <2>4. Power(four, a + 1) = 4 * x
    <3>1. Power(four, a + 1) = four * x
      BY <1>3, PowerUnfolds
    <3> QED
      BY <1>2, <3>1
  <2>5. Weight(i + 1, n) = (4 * x) * z
    <3>1. (i + 1) - 1 = a + 1 /\ n - (i + 1) = c
      BY <1>1, <2>1
    <3> QED
      BY <1>2, <2>2, <2>4, <3>1 DEF Weight
  <2>6. PICK w \in Nat : w = x * z
    OBVIOUS
  <2>7. (4 * x) * z = 4 * w /\ x * (5 * z) = 5 * w
    BY <2>6
  <2> QED
    BY <1>4, <2>3, <2>5, <2>7
<1>6. x * y \in Nat \ {0}
  OBVIOUS
<1> QED
  BY <1>4, <1>5, <1>6

\* An earlier look weighs no less than a later one, where looks are listed from
\* the most recent on.
LEMMA WeightsFall ==
  ASSUME NEW n \in Nat, NEW i \in 1..n, NEW j \in 1..n, i < j
  PROVE  Weight(j, n) <= Weight(i, n)
<1> DEFINE Q == {k \in 0..(n - i) : Weight(i + k, n) <= Weight(i, n)}
<1>1. \A k \in 1..n : Weight(k, n) \in Nat \ {0}
  BY RecentWeighsMore
<1>2. 0 \in Q
  <2>1. i + 0 = i
    OBVIOUS
  <2>2. Weight(i + 0, n) <= Weight(i, n)
    BY <1>1, <2>1
  <2> QED
    BY <2>2
<1>3. ASSUME NEW k \in 0..((n - i) - 1), k \in Q PROVE k + 1 \in Q
  <2>1. PICK m \in 1..n : m = i + k /\ m < n
    OBVIOUS
  <2>2. Weight(m + 1, n) <= Weight(m, n)
    BY <2>1, RecentWeighsMore
  <2>3. m + 1 = i + (k + 1) /\ m + 1 \in 1..n /\ k + 1 \in 0..(n - i)
    BY <2>1
  <2>4. Weight(m, n) <= Weight(i, n)
    BY <1>3, <2>1
  <2>5. Weight(m + 1, n) <= Weight(i, n)
    BY <1>1, <2>2, <2>3, <2>4
  <2> QED
    BY <2>3, <2>5
<1>4. PICK d \in Nat : d = j - i /\ d \in 0..(n - i) /\ i + d = j
  OBVIOUS
<1>5. d \in Q
  <2> HIDE DEF Q
  <2>1. Q \in SUBSET Nat /\ \A k \in 0..(d - 1) : k \in 0..((n - i) - 1)
    <3>1. Q \in SUBSET (0..(n - i))
      BY Zenon DEF Q
    <3> QED
      BY <1>4, <3>1
  <2> QED
    BY <1>2, <1>3, <2>1, NatSetInduction
<1> QED
  BY <1>4, <1>5

\* The prior of any list of looks does not fall when the more constructive of two
\* moves to the more recent place.
THEOREM RecentLooksCountMore ==
  ASSUME NEW actions \in Seq(Actions), NEW i \in DOMAIN actions, NEW j \in DOMAIN actions,
         i < j, Stance(actions[j]) > Stance(actions[i])
  PROVE  PriorStance([actions EXCEPT ![i] = actions[j], ![j] = actions[i]]) >= PriorStance(actions)
<1> DEFINE swapped == [actions EXCEPT ![i] = actions[j], ![j] = actions[i]]
<1>1. PICK n \in Nat : n = Len(actions) /\ DOMAIN actions = 1..n
  OBVIOUS
<1>2. /\ swapped \in Seq(Actions) /\ Len(swapped) = n /\ DOMAIN swapped = 1..n
      /\ swapped[i] = actions[j] /\ swapped[j] = actions[i]
      /\ \A k \in 1..n : k # i /\ k # j => swapped[k] = actions[k]
  BY <1>1
<1> HIDE DEF swapped
<1>3. \A k \in 1..n : Stance(actions[k]) \in Int /\ Stance(swapped[k]) \in Int
  <2>1. \A a \in Actions : Stance(a) \in Int
    BY DEF Actions, Stance
  <2>2. \A k \in 1..n : actions[k] \in Actions /\ swapped[k] \in Actions
    BY <1>1, <1>2
  <2> QED
    BY <2>1, <2>2
<1>4. \A k \in 1..n : Weight(k, n) \in Nat
  BY RecentWeighsMore
<1> DEFINE S == 1..n
           f == [k \in S |-> Weight(k, n) * Stance(actions[k])]
           g == [k \in S |-> Weight(k, n) * Stance(swapped[k])]
           h == [k \in S |-> IF k = i THEN g[i] ELSE f[k]]
           w == [k \in S |-> Weight(k, n)]
<1>5. \A k \in S : f[k] \in Int /\ g[k] \in Int /\ h[k] \in Int
  BY <1>1, <1>3, <1>4
<1>6. /\ \A k \in S : k # i => f[k] = h[k]
      /\ \A k \in S : k # j => h[k] = g[k]
      /\ h[i] = g[i] /\ h[j] = f[j]
  BY <1>1, <1>2
<1>7. /\ f[i] = Weight(i, n) * Stance(actions[i]) /\ g[i] = Weight(i, n) * Stance(actions[j])
      /\ f[j] = Weight(j, n) * Stance(actions[j]) /\ g[j] = Weight(j, n) * Stance(actions[i])
  BY <1>1, <1>2
<1>8. IsFiniteSet(S) /\ i \in S /\ j \in S
  BY <1>1, FS_Interval
<1>9. /\ DOMAIN f = S /\ DOMAIN g = S /\ DOMAIN w = S
      /\ Prior(actions).num = SumFunction(f) /\ Prior(actions).den = 2 * SumFunction(w)
      /\ Prior(swapped).num = SumFunction(g) /\ Prior(swapped).den = 2 * SumFunction(w)
  BY <1>1, <1>2 DEF Prior
<1> HIDE DEF S, f, g, h, w
<1>10. SumFunctionOnSet(h, S) = SumFunctionOnSet(f, S) + (h[i] - f[i])
  <2>1. DifferAt(f, h, i, S)
    BY <1>5, <1>6 DEF DifferAt
  <2> QED
    BY <1>8, <2>1, SumOfReplaced
<1>11. SumFunctionOnSet(g, S) = SumFunctionOnSet(h, S) + (g[j] - h[j])
  <2>1. DifferAt(h, g, j, S)
    BY <1>5, <1>6 DEF DifferAt
  <2> QED
    BY <1>8, <2>1, SumOfReplaced
<1>12. SumFunctionOnSet(f, S) \in Int /\ SumFunctionOnSet(h, S) \in Int /\ SumFunctionOnSet(g, S) \in Int
  BY <1>5, <1>8, SumType
<1>13. (g[i] - f[i]) + (g[j] - f[j]) >= 0
  <2>1. PICK wi \in Nat, wj \in Nat : wi = Weight(i, n) /\ wj = Weight(j, n)
    BY <1>1, <1>4
  <2>2. PICK d \in Nat : wi = wj + d
    <3>1. wj <= wi
      BY <1>1, <2>1, WeightsFall
    <3>2. wi - wj \in Nat /\ wi = wj + (wi - wj)
      BY <3>1
    <3> QED
      BY <3>2
  <2>3. PICK a \in Int, b \in Int : a = Stance(actions[i]) /\ b = Stance(actions[j])
    BY <1>1, <1>3
  <2>4. PICK e \in Nat : b = a + e
    <3>1. b - a \in Nat /\ b = a + (b - a)
      BY <2>3
    <3> QED
      BY <3>1
  <2>5. ((wi * b) - (wi * a)) + ((wj * a) - (wj * b)) = d * e
    <3>1. wi * b = wi * a + wi * e /\ wj * b = wj * a + wj * e
      BY <2>4
    <3>2. wi * e = wj * e + d * e
      BY <2>2
    <3>3. wi * a \in Int /\ wj * a \in Int /\ wi * e \in Int /\ wj * e \in Int /\ d * e \in Int
      OBVIOUS
    <3> QED
      BY <3>1, <3>2, <3>3
  <2>6. d * e >= 0
    OBVIOUS
  <2>7. (g[i] - f[i]) + (g[j] - f[j]) = d * e
    BY <1>7, <2>1, <2>3, <2>5
  <2> QED
    BY <2>6, <2>7
<1>14. SumFunctionOnSet(f, S) <= SumFunctionOnSet(g, S)
  BY <1>5, <1>6, <1>8, <1>10, <1>11, <1>12, <1>13
<1>15. Prior(actions).num <= Prior(swapped).num /\ Prior(actions).num \in Int /\ Prior(swapped).num \in Int
       /\ Prior(actions).den = Prior(swapped).den
  BY <1>9, <1>12, <1>14 DEF SumFunction
<1>16. SumFunction(w) \in Int
  <2>1. \A k \in S : w[k] \in Int
    BY <1>4 DEF w, S
  <2> QED
    BY <1>8, <1>9, <2>1, SumType DEF SumFunction
<1>17. Prior(actions).den \in Int
  BY <1>9, <1>16
<1> DEFINE t == <<-50, -15, 15, 50>>
<1>18. \A k \in 1..4 : t[k] \in Int
  OBVIOUS
<1> HIDE DEF t
<1>19. ASSUME NEW k \in 1..4, 100 * Prior(actions).num >= t[k] * Prior(actions).den
       PROVE  100 * Prior(swapped).num >= t[k] * Prior(swapped).den
  <2>1. t[k] * Prior(actions).den \in Int
    BY <1>17, <1>18
  <2> QED
    BY <1>15, <1>19, <2>1
<1>20. Grade(Prior(actions).num, Prior(actions).den, t) <= Grade(Prior(swapped).num, Prior(swapped).den, t)
       /\ Grade(Prior(actions).num, Prior(actions).den, t) \in Int
       /\ Grade(Prior(swapped).num, Prior(swapped).den, t) \in Int
  BY <1>19, GradeRises
<1>21. actions # << >> /\ swapped # << >>
  BY <1>1, <1>2
<1>22. PriorStance(actions) = Grade(Prior(actions).num, Prior(actions).den, t)
       /\ PriorStance(swapped) = Grade(Prior(swapped).num, Prior(swapped).den, t)
  BY <1>21 DEF PriorStance, t
<1> QED
  BY <1>20, <1>22 DEF swapped

\* Recency counts in every prior.
THEOREM RecentCount == Spec => []RecencyCounts
<1>1. ASSUME Answered, Done("memory")
      PROVE  RecencyCounts
  <2>1. case \in Looks /\ result = [prior |-> PriorStance(case.actions)]
    BY <1>1, InputOfRule DEF Done, Answered, ReturnedWhatItMakes
  <2>2. case.actions \in Seq(Actions)
    <3>1. case.actions \in BoundedSeq(Actions, 4)
      BY <2>1 DEF Looks
    <3> QED
      BY <3>1, BoundedSeqs
  <2> QED
    BY <2>1, <2>2, RecentLooksCountMore DEF RecencyCounts
<1>2. Answered => RecencyCounts
  BY <1>1 DEF RecencyCounts
<1> QED
  BY <1>2, AnsweredInvariant, PTL

-----------------------------------------------------------------------------
(***************************************************************************)
(* The trend reports: what one index gets, whatever becomes of the others. *)
(***************************************************************************)
\* A report gives every index that was asked for once, as a trend or as an error.
Reports(report, asked, answers, n) ==
  /\ \A t : t \in ToSet(report.trends) <=>
       \E i \in ToSet(asked) : ~ Fails(answers[i], n) /\ t = Trend(i, answers[i], n)
  /\ \A i : i \in ToSet(report.errors) <=> i \in ToSet(asked) /\ Fails(answers[i], n)
  /\ Len(report.trends) + Len(report.errors) = Cardinality(ToSet(asked))

\* The use case reports on exactly the indices of the group, each once.
LEMMA TrendsReport ==
  ASSUME NEW group, NEW answers, NEW n
  PROVE  /\ ToSet(IndicesFor(group)) \subseteq ToSet(Indices)
         /\ Reports(IndexTrends(group, answers, n), IndicesFor(group), answers, n)
<1> DEFINE I == ToSet(Indices)
           asked == IndicesFor(group)
           failed == {i \in I : Fails(answers[i], n)}
           kept == Only(asked, I \ failed)
           errors == Only(asked, failed)
           trends == [k \in DOMAIN kept |-> Trend(kept[k], answers[kept[k]], n)]
<1>1. Indices \in Seq(I) /\ Distinct(Indices)
  BY DEF Indices, Distinct, ToSet
<1>2. asked \in Seq(I) /\ Distinct(asked) /\ ToSet(asked) \subseteq I
  <2> DEFINE set == {i \in ToSet(Indices) : group \in {"all", GroupOf(i)}}
  <2>1. asked = Only(Indices, set)
    BY DEF IndicesFor
  <2> HIDE DEF set, asked
  <2>2. asked \in Seq(I) /\ Distinct(asked)
    BY <1>1, <2>1, OnlyKeeps, OnlyStaysDistinct
  <2>3. \A q \in Seq(I) : ToSet(q) \subseteq I
    BY DEF ToSet
  <2> QED
    BY <2>2, <2>3
<1>3. IndexTrends(group, answers, n) = [trends |-> trends, errors |-> errors]
  BY DEF IndexTrends
<1> HIDE DEF asked, I
<1>4. \A i \in ToSet(asked) : i \in I \ failed <=> i \notin failed
  BY <1>2
<1>5. \A i : i \in ToSet(asked) => (i \in failed <=> Fails(answers[i], n))
  BY <1>2
<1> HIDE DEF failed
<1>6. kept \in Seq(I) /\ \A i : i \in ToSet(kept) <=> i \in ToSet(asked) /\ i \notin failed
  <2>1. kept \in Seq(I) /\ \A i : i \in ToSet(kept) <=> i \in ToSet(asked) /\ i \in I \ failed
    BY <1>2, OnlyKeeps
  <2> HIDE DEF kept
  <2> QED
    BY <1>2, <2>1
<1>7. errors \in Seq(I) /\ \A i : i \in ToSet(errors) <=> i \in ToSet(asked) /\ i \in failed
  BY <1>2, OnlyKeeps
<1>8. Len(kept) + Len(errors) = Len(asked)
  BY <1>2, <1>4, OnlySplits
<1>9. Len(asked) = Cardinality(ToSet(asked))
  BY <1>2, DistinctLength
<1> HIDE DEF kept, errors
<1>10. Len(trends) = Len(kept)
  <2>1. DOMAIN trends = 1..Len(kept) /\ Len(kept) \in Nat
    BY <1>6
  <2> QED
    BY <2>1
<1>11. \A t : t \in ToSet(trends) <=>
         \E i \in ToSet(kept) : t = Trend(i, answers[i], n)
  BY DEF ToSet
<1> HIDE DEF trends
<1>12. \A t : t \in ToSet(trends) <=>
         \E i \in ToSet(asked) : ~ Fails(answers[i], n) /\ t = Trend(i, answers[i], n)
  BY <1>5, <1>6, <1>11
<1>13. \A i : i \in ToSet(errors) <=> i \in ToSet(asked) /\ Fails(answers[i], n)
  BY <1>5, <1>7
<1>14. Len(trends) + Len(errors) = Cardinality(ToSet(asked))
  BY <1>8, <1>9, <1>10
<1> QED
  BY <1>2, <1>3, <1>12, <1>13, <1>14 DEF asked, I, Reports

\* What a report says of an index, from what its feed answered.
Says(report, i, answer, n) ==
  /\ {t \in ToSet(report.trends) : t.index = i}
       = IF Fails(answer, n) THEN {} ELSE {Trend(i, answer, n)}
  /\ i \in ToSet(report.errors) <=> Fails(answer, n)

\* Whatever the others answer, or whether they fail, what is said of an index is
\* made of its own answer alone, and is a trend or an error.
THEOREM IndexIsOnItsOwn ==
  ASSUME NEW group, NEW answers, NEW n, NEW i \in ToSet(IndicesFor(group))
  PROVE  Says(IndexTrends(group, answers, n), i, answers[i], n)
<1> DEFINE report == IndexTrends(group, answers, n)
           asked == ToSet(IndicesFor(group))
           of == {u \in ToSet(report.trends) : u.index = i}
<1>1. /\ \A t : t \in ToSet(report.trends) <=>
            \E j \in asked : ~ Fails(answers[j], n) /\ t = Trend(j, answers[j], n)
      /\ \A j : j \in ToSet(report.errors) <=> j \in asked /\ Fails(answers[j], n)
  <2>1. Reports(report, IndicesFor(group), answers, n)
    BY TrendsReport
  <2> HIDE DEF report
  <2> QED
    BY <2>1 DEF Reports
<1> HIDE DEF report
<1>2. \A j, a : Trend(j, a, n).index = j
  BY DEF Trend
<1>3. \A t : t \in of <=> ~ Fails(answers[i], n) /\ t = Trend(i, answers[i], n)
  BY <1>1, <1>2
<1> HIDE DEF of
<1>4. of = IF Fails(answers[i], n) THEN {} ELSE {Trend(i, answers[i], n)}
  BY <1>3
<1> QED
  BY <1>1, <1>4 DEF Says, report, of

\* No index of a report is affected by another.
THEOREM TrendsIsolated == Spec => []TrendsAreIsolated
<1>1. ASSUME Answered, Done("trends")
      PROVE  TrendsAreIsolated
  <2> DEFINE asked == ToSet(IndicesFor(case.group))
             On(report, i) == <<{t \in ToSet(report.trends) : t.index = i}, i \in ToSet(report.errors)>>
  <2>1. /\ result = IndexTrends(case.group, case.answers, case.sessions)
        /\ case.answers \in [ToSet(Indices) -> Answers]
    <3>1. case \in Groups /\ result = IndexTrends(case.group, case.answers, case.sessions)
      BY <1>1, InputOfRule DEF Done, Answered, ReturnedWhatItMakes
    <3> QED
      BY <3>1 DEF Groups
  <2>2. asked \subseteq ToSet(Indices)
    BY TrendsReport
  <2>3. Len(result.trends) + Len(result.errors) = Cardinality(asked)
    BY <2>1, TrendsReport DEF Reports
  <2>4. ASSUME NEW i \in asked
        PROVE  Says(result, i, case.answers[i], case.sessions)
    BY <2>1, IndexIsOnItsOwn
  <2>5. ASSUME NEW i \in asked
        PROVE  i \in ToSet(result.errors) <=> {t \in ToSet(result.trends) : t.index = i} = {}
    BY <2>4 DEF Says
  <2>6. ASSUME NEW i \in asked, NEW j \in asked \ {i}, NEW answer \in Answers
        PROVE  On(IndexTrends(case.group, [case.answers EXCEPT ![j] = answer], case.sessions), i)
                 = On(result, i)
    <3> DEFINE others == [case.answers EXCEPT ![j] = answer]
               report == IndexTrends(case.group, others, case.sessions)
    <3>1. others[i] = case.answers[i]
      BY <2>1, <2>2
    <3> HIDE DEF others
    <3>2. Says(report, i, others[i], case.sessions)
      BY IndexIsOnItsOwn
    <3> HIDE DEF report
    <3>3. /\ {t \in ToSet(report.trends) : t.index = i} = {t \in ToSet(result.trends) : t.index = i}
          /\ (i \in ToSet(report.errors)) = (i \in ToSet(result.errors))
      BY <2>4, <3>1, <3>2 DEF Says
    <3>4. On(report, i) = On(result, i)
      BY <3>3, Zenon
    <3> QED
      BY <3>4 DEF report, others
  <2> QED
    BY <2>3, <2>5, <2>6 DEF TrendsAreIsolated
<1>2. Answered => TrendsAreIsolated
  BY <1>1 DEF TrendsAreIsolated
<1> QED
  BY <1>2, AnsweredInvariant, PTL

\* What a feed may answer: rows in the order of their days, some with a close.
SoundAnswer(answer) ==
  /\ answer.days \in Seq(Int) /\ Ascending(answer.days)
  /\ DOMAIN answer.closes \subseteq DOMAIN answer.days

\* The lesser of two numbers, and the last m members of a list of that length.
IsLesser(m, a, b) == m <= a /\ m <= b /\ (m = a \/ m = b)
IsEnd(end, list, length, m) ==
  /\ DOMAIN end = 1..m /\ Len(end) = m
  /\ \A k \in 1..m : end[k] = list[length - m + k]

\* The end of a list is its last members, in their order.
LEMMA EndingIsTheEnd ==
  ASSUME NEW X, NEW list \in Seq(X), NEW n \in Nat, NEW len \in Nat, len = Len(list),
         NEW m \in Nat, IsLesser(m, n, len)
  PROVE  IsEnd(Ending(list, n), list, len, m)
<1>0. m <= n /\ m <= len /\ (m = n \/ m = len)
  BY DEF IsLesser
<1>1. Min({n, len}) = m
  <2>1. n \in Int /\ len \in Int
    OBVIOUS
  <2>2. Min({n, len}) = IF n < len THEN n ELSE len
    BY <2>1, OfTwo
  <2> QED
    BY <1>0, <2>2
<1>2. PICK a \in Nat : a = len - m + 1
  <2>1. len - m + 1 \in Nat
    BY <1>0
  <2> QED
    BY <2>1
<1>3. Ending(list, n) = SubSeq(list, a, len)
  BY <1>1, <1>2 DEF Ending
<1>4. a \in 1..(len + 1) /\ len - a + 1 = m /\ (a <= len \/ m = 0)
  BY <1>0, <1>2
<1>5. /\ SubSeq(list, a, len) \in Seq(X)
      /\ Len(SubSeq(list, a, len)) = m
      /\ \A k \in 1..m : SubSeq(list, a, len)[k] = list[a + k - 1]
  <2>1. \A i \in a..len : list[i] \in X
    BY <1>4
  <2>2. /\ SubSeq(list, a, len) \in Seq(X)
        /\ Len(SubSeq(list, a, len)) = IF a <= len THEN len - a + 1 ELSE 0
        /\ \A k \in 1..(len - a + 1) : SubSeq(list, a, len)[k] = list[a + k - 1]
    BY <2>1, SubSeqProperties
  <2> QED
    BY <1>4, <2>2
<1>6. \A k \in 1..m : a + k - 1 = len - m + k
  BY <1>2
<1>7. DOMAIN Ending(list, n) = 1..m
  <2>1. PICK end \in Seq(X) : end = SubSeq(list, a, len) /\ Len(end) = m
    BY <1>5
  <2>2. DOMAIN end = 1..m
    BY <2>1
  <2> QED
    BY <1>3, <2>1, <2>2
<1> QED
  BY <1>3, <1>5, <1>6, <1>7 DEF IsEnd

\* The rows with a close, in the order of their days.
LEMMA QuotedRows ==
  ASSUME NEW answer, SoundAnswer(answer)
  PROVE  /\ Quoted(answer) \in Seq(Int) /\ Ascending(Quoted(answer))
         /\ ToSet(Quoted(answer)) = DOMAIN answer.closes
<1> DEFINE places == [i \in DOMAIN answer.days |-> i]
<1>1. PICK len \in Nat : DOMAIN answer.days = 1..len
  BY DEF SoundAnswer
<1>2. DOMAIN places = 1..len /\ \A i \in 1..len : places[i] = i
  BY <1>1
<1>3. places \in Seq(Int)
  <2>1. places = [i \in 1..len |-> i]
    BY <1>1
  <2> QED
    BY <2>1
<1> HIDE DEF places
<1>4. ToSet(places) = 1..len /\ Ascending(places)
  BY <1>2 DEF ToSet, Ascending
<1>5. Quoted(answer) = Only(places, DOMAIN answer.closes)
  BY DEF Quoted, places
<1>6. DOMAIN answer.closes \subseteq 1..len
  BY <1>1 DEF SoundAnswer
<1>7. /\ Only(places, DOMAIN answer.closes) \in Seq(Int)
      /\ \A x : x \in ToSet(Only(places, DOMAIN answer.closes))
                <=> x \in ToSet(places) /\ x \in DOMAIN answer.closes
  BY <1>3, OnlyKeeps
<1>8. Ascending(Only(places, DOMAIN answer.closes))
  BY <1>3, <1>4, OnlyStaysAscending
<1> QED
  BY <1>4, <1>5, <1>6, <1>7, <1>8

\* The rows a week is made of, and the candle of the k-th of them.
RowAt(answer, n, m, k) == Quoted(answer)[n - m + k]
BarOf(answer, row) == [on |-> answer.days[row], close |-> answer.closes[row]]

\* The candles of a feed have the day and the close of one row each: the last of
\* the rows with a close.
LEMMA BarsAreRows ==
  ASSUME NEW answer, SoundAnswer(answer), NEW sessions \in Nat \ {0},
         NEW n \in Nat, n = Len(Quoted(answer)),
         NEW m \in Nat, IsLesser(m, sessions, n)
  PROVE  /\ DOMAIN Bars(answer, sessions) = 1..m /\ Len(Bars(answer, sessions)) = m
         /\ \A k \in 1..m : Bars(answer, sessions)[k] = BarOf(answer, RowAt(answer, n, m, k))
<1> DEFINE rows == Quoted(answer)
           all == [k \in DOMAIN rows |->
                     [on |-> answer.days[rows[k]], close |-> answer.closes[rows[k]]]]
           X == {BarOf(answer, rows[k]) : k \in DOMAIN rows}
<1>1. DOMAIN rows = 1..n
  BY QuotedRows
<1>2. Max({1, sessions}) = sessions
  <2>1. sessions \in Int /\ 1 \in Int
    OBVIOUS
  <2>2. Max({1, sessions}) = IF 1 < sessions THEN sessions ELSE 1
    BY <2>1, OfTwo, Zenon
  <2> QED
    BY <2>2
<1>3. Bars(answer, sessions) = Ending(all, sessions)
  BY <1>2 DEF Bars
<1>4. DOMAIN all = 1..n /\ \A k \in 1..n : all[k] = BarOf(answer, rows[k]) /\ all[k] \in X
  BY <1>1 DEF BarOf
<1>5. all \in Seq(X) /\ n = Len(all)
  <2>1. all = [k \in 1..n |-> BarOf(answer, rows[k])]
    BY <1>1 DEF BarOf
  <2>2. \A k \in 1..n : BarOf(answer, rows[k]) \in X
    BY <1>1
  <2> HIDE DEF all, X
  <2> QED
    BY <1>4, <2>1, <2>2
<1> HIDE DEF all, X
<1>6. /\ DOMAIN Ending(all, sessions) = 1..m /\ Len(Ending(all, sessions)) = m
      /\ \A k \in 1..m : Ending(all, sessions)[k] = all[n - m + k]
  <2>1. sessions \in Nat
    OBVIOUS
  <2>2. IsEnd(Ending(all, sessions), all, n, m)
    BY <1>5, <2>1, EndingIsTheEnd, Zenon
  <2> QED
    BY <2>2 DEF IsEnd
<1>7. \A k \in 1..m : n - m + k \in 1..n
  BY DEF IsLesser
<1> HIDE DEF rows
<1>8. \A k \in 1..m : Ending(all, sessions)[k] = BarOf(answer, rows[n - m + k])
  BY <1>4, <1>6, <1>7
<1> QED
  BY <1>3, <1>6, <1>8 DEF RowAt, rows

\* Whatever rows a feed has and whichever lack a close: what is made of them has
\* its days right, and there is nothing to make only if no row has a close.
THEOREM WeeksAreDated ==
  ASSUME NEW index, NEW answer, SoundAnswer(answer), NEW sessions \in Nat \ {0}
  PROVE  /\ Bars(answer, sessions) = << >> <=> DaysClosed(answer) = {}
         /\ Bars(answer, sessions) # << >> =>
              IsDated(Trend(index, answer, sessions), answer, sessions)
<1> DEFINE rows == Quoted(answer)
           bars == Bars(answer, sessions)
<1>1. /\ rows \in Seq(Int) /\ Ascending(rows) /\ ToSet(rows) = DOMAIN answer.closes
  BY QuotedRows
<1>2. PICK n \in Nat : n = Len(rows) /\ DOMAIN rows = 1..n
  BY <1>1
<1>3. PICK m \in Nat : IsLesser(m, sessions, n)
  BY DEF IsLesser
<1> DEFINE row(k) == RowAt(answer, n, m, k)
           ons == [k \in 1..m |-> answer.days[row(k)]]
<1>4. /\ DOMAIN bars = 1..m /\ Len(bars) = m
      /\ \A k \in 1..m : bars[k] = BarOf(answer, row(k))
  BY <1>2, <1>3, BarsAreRows
<1>5. \A k : row(k) = rows[n - m + k]
  BY DEF RowAt
<1>6. ons \in [1..m -> {answer.days[row(k)] : k \in 1..m}]
      /\ \A k \in 1..m : ons[k] = answer.days[row(k)]
  OBVIOUS
<1> HIDE DEF rows, bars, row, ons
<1>7. \A p \in 1..n : rows[p] \in DOMAIN answer.closes /\ rows[p] \in DOMAIN answer.days
  BY <1>1, <1>2 DEF ToSet, SoundAnswer
<1>8. \A i \in DOMAIN answer.closes : \E p \in 1..n : rows[p] = i
  BY <1>1, <1>2 DEF ToSet
<1>9. \A p, q \in 1..n : p < q => answer.days[rows[p]] < answer.days[rows[q]]
  <2>1. \A p, q \in 1..n : p < q => rows[p] < rows[q]
    BY <1>1, <1>2 DEF Ascending
  <2> QED
    BY <1>7, <2>1 DEF SoundAnswer, Ascending
<1>10. \A p \in 1..n : answer.days[rows[p]] \in Int
  BY <1>7 DEF SoundAnswer
<1>11. m <= n /\ (n # 0 => m # 0) /\ (m < n => m = sessions) /\ \A k \in 1..m : n - m + k \in 1..n
  BY <1>3 DEF IsLesser
<1>12. bars = << >> <=> n = 0
  BY <1>4, <1>11
<1>13. n = 0 <=> DaysClosed(answer) = {}
  BY <1>7, <1>8 DEF DaysClosed
<1>14. ASSUME bars # << >>
       PROVE  IsDated(Trend(index, answer, sessions), answer, sessions)
  <2> DEFINE t == Trend(index, answer, sessions)
             named == {bar.on : bar \in ToSet(t.sessions)}
             closes == [k \in DOMAIN bars |-> bars[k].close]
  <2>1. m # 0 /\ 1 \in 1..m /\ m \in 1..m
    BY <1>11, <1>12, <1>14
  <2>2. t.sessions = bars /\ t.direction = Direction(closes) /\ t.asOf = Last(bars).on
    BY DEF Trend, bars
  <2>3. \A k \in 1..m : bars[k].on = ons[k] /\ bars[k].close = answer.closes[row(k)]
    <3>1. \A r : BarOf(answer, r).on = answer.days[r] /\ BarOf(answer, r).close = answer.closes[r]
      BY DEF BarOf
    <3> QED
      BY <1>4, <1>6, <3>1
  <2> HIDE DEF t
  <2>4. named = {ons[k] : k \in 1..m}
    BY <1>4, <2>2, <2>3 DEF ToSet
  <2>5. \A k \in 1..m : ons[k] = answer.days[rows[n - m + k]] /\ ons[k] \in Int
    BY <1>5, <1>6, <1>10, <1>11
  <2>6. \A j, k \in 1..m : j < k => ons[j] < ons[k]
    <3> SUFFICES ASSUME NEW j \in 1..m, NEW k \in 1..m, j < k
                 PROVE  ons[j] < ons[k]
      OBVIOUS
    <3>1. PICK p \in 1..n, q \in 1..n : p = n - m + j /\ q = n - m + k
      BY <1>11
    <3>2. p < q
      BY <3>1
    <3> QED
      BY <1>9, <2>5, <3>1, <3>2
  <2>7. IsFiniteSet(named) /\ Cardinality(named) = m
    <3>1. ons \in [1..m -> Int] /\ DOMAIN ons = 1..m
      BY <1>6, <2>5
    <3>2. ons \in Seq(Int) /\ Len(ons) = m
      BY <3>1
    <3>3. ToSet(ons) = named
      BY <2>4, <3>1 DEF ToSet
    <3>4. Distinct(ons)
      BY <2>5, <2>6, <3>1 DEF Distinct
    <3> QED
      BY <3>2, <3>3, <3>4, DistinctLength
  <2> HIDE DEF named
  <2>8. Min(named) = ons[1] /\ Max(named) = ons[m]
    <3>1. named \in SUBSET Int /\ named # {} /\ ons[1] \in named /\ ons[m] \in named
      BY <2>1, <2>4, <2>5
    <3>2. /\ Min(named) \in named /\ \A y \in named : Min(named) <= y
          /\ Max(named) \in named /\ \A y \in named : Max(named) >= y
      BY <2>7, <3>1, MinIsLeast, MaxIsGreatest
    <3>3. \A k \in 1..m : ons[1] <= ons[k] /\ ons[k] <= ons[m]
      <4> SUFFICES ASSUME NEW k \in 1..m PROVE ons[1] <= ons[k] /\ ons[k] <= ons[m]
        OBVIOUS
      <4>1. (k = 1 \/ 1 < k) /\ (k = m \/ k < m)
        OBVIOUS
      <4> QED
        BY <2>1, <2>5, <2>6, <4>1
    <3>4. \A y \in named : ons[1] <= y /\ y <= ons[m]
      BY <2>4, <3>3
    <3>5. /\ Min(named) \in Int /\ ons[1] \in Int /\ Min(named) <= ons[1] /\ ons[1] <= Min(named)
          /\ Max(named) \in Int /\ ons[m] \in Int /\ Max(named) >= ons[m] /\ Max(named) <= ons[m]
      BY <3>1, <3>2, <3>4
    <3> QED
      BY <3>5
  <2>9. named # {} /\ named \subseteq DaysClosed(answer)
    BY <1>7, <1>11, <2>1, <2>4, <2>5 DEF DaysClosed
  <2>10. ASSUME NEW day \in DaysClosed(answer) \ named
         PROVE  Cardinality(named) = sessions /\ day < Min(named)
    <3>1. PICK i \in DOMAIN answer.closes : day = answer.days[i]
      BY <2>10 DEF DaysClosed
    <3>2. PICK p \in 1..n : rows[p] = i
      BY <1>8
    <3>3. ASSUME NEW k \in 1..m, p = n - m + k PROVE FALSE
      <4>1. ons[k] = day
        BY <2>5, <3>1, <3>2, <3>3
      <4> QED
        BY <2>4, <2>10, <4>1
    <3>4. p <= n - m
      <4> SUFFICES ASSUME p > n - m PROVE FALSE
        BY <1>11
      <4>1. PICK k \in 1..m : p = n - m + k
        <5>1. p - (n - m) \in 1..m /\ p = n - m + (p - (n - m))
          BY <1>11
        <5> QED
          BY <5>1
      <4> QED
        BY <3>3, <4>1
    <3>5. m = sessions
      BY <1>11, <3>4
    <3>6. PICK q \in 1..n : q = n - m + 1 /\ p < q
      BY <1>11, <2>1, <3>4
    <3>7. ons[1] = answer.days[rows[q]]
      BY <2>1, <2>5, <3>6
    <3> QED
      BY <1>9, <2>7, <2>8, <3>1, <3>2, <3>5, <3>6, <3>7
  <2>11. t.asOf = Max(named)
    BY <1>4, <2>1, <2>2, <2>3, <2>8 DEF Last
  <2>12. \A k \in 1..m : CloseOn(answer, ons[k]) = answer.closes[row(k)]
    <3> SUFFICES ASSUME NEW k \in 1..m
                 PROVE  CloseOn(answer, ons[k]) = answer.closes[row(k)]
      OBVIOUS
    <3>1. PICK p \in 1..n : p = n - m + k
      BY <1>11
    <3>2. row(k) = rows[p] /\ rows[p] \in DOMAIN answer.closes /\ ons[k] = answer.days[rows[p]]
      BY <1>5, <1>7, <2>5, <3>1
    <3>3. \A i \in DOMAIN answer.closes : answer.days[i] = ons[k] => i = rows[p]
      <4> SUFFICES ASSUME NEW i \in DOMAIN answer.closes, answer.days[i] = ons[k]
                   PROVE  i = rows[p]
        OBVIOUS
      <4>1. PICK q \in 1..n : rows[q] = i
        BY <1>8
      <4>2. answer.days[rows[q]] = answer.days[rows[p]]
        BY <3>2, <4>1
      <4>3. q = p
        <5>1. q < p \/ p < q \/ q = p
          OBVIOUS
        <5> QED
          BY <1>9, <1>10, <4>2, <5>1
      <4> QED
        BY <4>1, <4>3
    <3> QED
      BY <3>2, <3>3 DEF CloseOn
  <2>13. t.direction = Direction(<<CloseOn(answer, Min(named)), CloseOn(answer, Max(named))>>)
    <3>1. closes = [k \in 1..m |-> bars[k].close]
      BY <1>4
    <3> HIDE DEF closes
    <3>2. /\ closes[1] = CloseOn(answer, ons[1]) /\ closes[m] = CloseOn(answer, ons[m])
          /\ Len(closes) = m
      BY <2>1, <2>3, <2>12, <3>1
    <3>3. Head(closes) = CloseOn(answer, Min(named)) /\ Last(closes) = CloseOn(answer, Max(named))
      BY <2>8, <3>2 DEF Last
    <3>4. \A a, b : Head(<<a, b>>) = a /\ Last(<<a, b>>) = b
      BY DEF Last
    <3> QED
      BY <2>2, <3>3, <3>4 DEF Direction
  <2> QED
    BY <2>9, <2>10, <2>11, <2>13 DEF IsDated, named, t
<1> QED
  BY <1>12, <1>13, <1>14 DEF bars

\* Every trend of a report is dated right, and an index is an error only if its
\* feed raised or had no close.
THEOREM TrendsDated == Spec => []TrendsAreDated
<1>1. ASSUME Answered, Done("trends")
      PROVE  TrendsAreDated
  <2> DEFINE asked == ToSet(IndicesFor(case.group))
  <2>1. /\ result = IndexTrends(case.group, case.answers, case.sessions)
        /\ case.answers \in [ToSet(Indices) -> Answers] /\ case.sessions \in Nat \ {0}
    <3>1. case \in Groups /\ result = IndexTrends(case.group, case.answers, case.sessions)
      BY <1>1, InputOfRule DEF Done, Answered, ReturnedWhatItMakes
    <3> QED
      BY <3>1 DEF Groups
  <2>2. asked \subseteq ToSet(Indices)
    BY TrendsReport
  <2>3. Reports(result, IndicesFor(case.group), case.answers, case.sessions)
    BY <2>1, TrendsReport
  <2>4. ASSUME NEW answer \in Answers PROVE SoundAnswer(answer)
    <3>1. CASE answer.raised
      <4>1. answer.days = << >> /\ answer.closes = << >>
        BY <3>1 DEF Answers
      <4> QED
        BY <4>1 DEF SoundAnswer, Ascending
    <3>2. CASE ~ answer.raised
      <4>1. \A f, rows : DOMAIN Restrict(f, rows) = rows
        BY DEF Restrict
      <4>2. answer.days = <<3, 4, 7>>
        BY <3>2 DEF Answers, Days
      <4>3. \/ \E rows \in SUBSET (1..3) : answer.closes = Restrict(<<200, 202, 201>>, rows)
            \/ \E rows \in {{1, 3}, {1, 2, 3}} : answer.closes = Restrict(<<203, 201, 200>>, rows)
        BY <3>2 DEF Answers
      <4>4. \E rows \in SUBSET (1..3) : DOMAIN answer.closes = rows
        BY <4>1, <4>3
      <4>5. DOMAIN answer.closes \subseteq 1..3
        BY <4>4
      <4> QED
        BY <4>2, <4>5 DEF SoundAnswer, Ascending
    <3> QED
      BY <3>1, <3>2
  <2>5. ASSUME NEW t \in ToSet(result.trends)
        PROVE  IsDated(t, case.answers[t.index], case.sessions)
    <3>1. PICK i \in asked : /\ ~ Fails(case.answers[i], case.sessions)
                             /\ t = Trend(i, case.answers[i], case.sessions)
      BY <2>3, <2>5 DEF Reports
    <3>2. t.index = i /\ SoundAnswer(case.answers[i])
      BY <2>1, <2>2, <2>4, <3>1 DEF Trend
    <3>3. Bars(case.answers[i], case.sessions) # << >>
      BY <3>1 DEF Fails
    <3> QED
      BY <2>1, <3>1, <3>2, <3>3, WeeksAreDated
  <2>6. ASSUME NEW i \in ToSet(result.errors)
        PROVE  case.answers[i].raised \/ DaysClosed(case.answers[i]) = {}
    <3>1. i \in asked /\ Fails(case.answers[i], case.sessions)
      BY <2>3 DEF Reports
    <3>2. SoundAnswer(case.answers[i])
      BY <2>1, <2>2, <2>4, <3>1
    <3> QED
      BY <2>1, <3>1, <3>2, WeeksAreDated DEF Fails
  <2> QED
    BY <2>5, <2>6 DEF TrendsAreDated
<1>2. Answered => TrendsAreDated
  BY <1>1 DEF TrendsAreDated
<1> QED
  BY <1>2, AnsweredInvariant, PTL

-----------------------------------------------------------------------------
(***************************************************************************)
(* Deduplication: no text is lost, none stays twice.                       *)
(***************************************************************************)
\* Dedupe, unfolded, and the step it takes at each place of the list.
DedupeStep(texts, h, s) ==
  IF s = {} THEN << >>
  ELSE IF Contains(h[s \ {Max(s)}], texts[Max(s)]) THEN h[s \ {Max(s)}]
  ELSE Append(h[s \ {Max(s)}], texts[Max(s)])

IsDedupe(h, texts) == h = [s \in SUBSET DOMAIN texts |-> DedupeStep(texts, h, s)]

\* Dedupe as the choice of its unfolded function.
LEMMA DedupeIsFold ==
  ASSUME NEW texts
  PROVE  Dedupe(texts) = (CHOOSE h : IsDedupe(h, texts))[DOMAIN texts]
BY DEF Dedupe, FoldLeft, MapThenFoldSet, IsDedupe, DedupeStep

\* What deduplication has kept of a list up to each place.
KeepsFirst(f, n, X, texts) ==
  /\ f \in [0..n -> Seq(X)]
  /\ f[0] = << >> /\ f[n] = Dedupe(texts)
  /\ \A i \in 1..n : f[i] = IF Contains(f[i - 1], texts[i]) THEN f[i - 1] ELSE Append(f[i - 1], texts[i])

\* Dedupe goes through the list and appends what is not there yet.
LEMMA DedupeIsBuilt ==
  ASSUME NEW X, NEW texts \in Seq(X), NEW n \in Nat, n = Len(texts)
  PROVE  \E f : KeepsFirst(f, n, X, texts)
<1>0. n = Len(texts)
  OBVIOUS
<1> DEFINE V == Seq(X)
           none == << >>
           G == [p \in (1..n) \X V |-> IF Contains(p[2], texts[p[1]]) THEN p[2]
                                       ELSE Append(p[2], texts[p[1]])]
<1>1. n \in Nat /\ DOMAIN texts = 1..n /\ none \in V /\ \A i \in 1..n : texts[i] \in X
  BY <1>0
<1>2. /\ G \in Steps(n, V)
      /\ \A i \in 1..n, q \in V :
           G[<<i, q>>] = IF Contains(q, texts[i]) THEN q ELSE Append(q, texts[i])
  <2>1. \A i \in 1..n, q \in V : Append(q, texts[i]) \in V
    BY <1>1
  <2> HIDE DEF V
  <2> QED
    BY <2>1 DEF Steps
<1> HIDE DEF G, V, none
<1>3. PICK e \in [SUBSET (1..n) -> V] : IsLeftFold(e, G, none, n)
  <2>1. G \in Steps(n, V) /\ n \in Nat /\ none \in V
    BY <1>1, <1>2
  <2> QED
    BY <2>1, LeftFoldExists
<1>4. \A h \in [SUBSET (1..n) -> V] : \A s \in SUBSET (1..n) :
        LeftStep(G, none, h, s) = DedupeStep(texts, h, s)
  <2> SUFFICES ASSUME NEW h \in [SUBSET (1..n) -> V], NEW s \in SUBSET (1..n)
               PROVE  LeftStep(G, none, h, s) = DedupeStep(texts, h, s)
    OBVIOUS
  <2>1. CASE s = {}
    BY <2>1 DEF LeftStep, DedupeStep, none
  <2>2. CASE s # {}
    <3>1. Max(s) \in 1..n
      <4>1. IsFiniteSet(1..n) /\ 1..n \in SUBSET Int
        BY <1>1, FS_Interval
      <4>2. IsFiniteSet(s) /\ s \in SUBSET Int
        BY <4>1, FS_Subset
      <4> QED
        BY <2>2, <4>2, MaxIsGreatest
    <3>2. h[s \ {Max(s)}] \in V
      OBVIOUS
    <3> QED
      BY <1>2, <2>2, <3>1, <3>2 DEF LeftStep, DedupeStep
  <2> QED
    BY <2>1, <2>2
<1>5. IsDedupe(e, texts)
  BY <1>1, <1>3, <1>4 DEF IsDedupe, IsLeftFold
<1>6. PICK h : IsDedupe(h, texts) /\ h[1..n] = Dedupe(texts)
  BY <1>1, <1>5, DedupeIsFold
<1>7. ASSUME NEW i \in 1..n, h[1..(i - 1)] \in V
      PROVE  h[1..i] = G[<<i, h[1..(i - 1)]>>]
  <2>1. 1..i # {} /\ 1..i \in SUBSET (1..n) /\ Max(1..i) = i /\ (1..i) \ {i} = 1..(i - 1)
    BY <1>1, PlacesUpTo
  <2>2. h[1..i] = DedupeStep(texts, h, 1..i)
    BY <1>1, <1>6, <2>1 DEF IsDedupe
  <2> DEFINE before == h[1..(i - 1)]
  <2>3. h[1..i] = IF Contains(before, texts[i]) THEN before ELSE Append(before, texts[i])
    BY <2>1, <2>2 DEF DedupeStep
  <2>4. before \in V
    BY <1>7
  <2> HIDE DEF before
  <2>5. G[<<i, before>>] = IF Contains(before, texts[i]) THEN before ELSE Append(before, texts[i])
    BY <1>2, <2>4
  <2> QED
    BY <2>3, <2>5 DEF before
<1>8. h[{}] = none
  BY <1>1, <1>6 DEF IsDedupe, DedupeStep, none
<1>9. PICK f : IsRecursion(f, V, none, n, G) /\ f[n] = h[1..n]
  <2>1. n \in Nat /\ none \in V /\ G \in Steps(n, V)
    BY <1>1, <1>2
  <2>2. \A i \in 1..n : h[1..(i - 1)] \in V => h[1..i] = G[<<i, h[1..(i - 1)]>>]
    BY <1>7
  <2> QED
    BY <1>8, <2>1, <2>2, FoldByPlaces
<1>10. \A i \in 1..n : f[i] = IF Contains(f[i - 1], texts[i]) THEN f[i - 1]
                             ELSE Append(f[i - 1], texts[i])
  <2> SUFFICES ASSUME NEW i \in 1..n
               PROVE  f[i] = IF Contains(f[i - 1], texts[i]) THEN f[i - 1]
                             ELSE Append(f[i - 1], texts[i])
    OBVIOUS
  <2>1. i - 1 \in 0..n
    BY <1>1
  <2>2. f[i - 1] \in V /\ f[i] = G[<<i, f[i - 1]>>]
    BY <1>9, <2>1 DEF IsRecursion
  <2> QED
    BY <1>2, <2>2
<1> QED
  BY <1>0, <1>6, <1>9, <1>10 DEF V, none, KeepsFirst, IsRecursion

\* A list without duplicates stays one when something new is appended.
LEMMA AppendedDistinct ==
  ASSUME NEW X, NEW q \in Seq(X), NEW x \in X, Distinct(q), x \notin ToSet(q)
  PROVE  Distinct(Append(q, x))
<1>1. PICK n \in Nat : n = Len(q) /\ DOMAIN q = 1..n
  OBVIOUS
<1>2. /\ DOMAIN Append(q, x) = 1..(n + 1)
      /\ \A i \in 1..n : Append(q, x)[i] = q[i]
      /\ Append(q, x)[n + 1] = x
  BY <1>1
<1>3. \A i \in 1..n : q[i] # x
  BY <1>1 DEF ToSet
<1>4. \A i \in 1..(n + 1) : i \in 1..n \/ i = n + 1
  OBVIOUS
<1> QED
  BY <1>1, <1>2, <1>3, <1>4 DEF Distinct

\* Deduplication loses no text, invents none and leaves no two equal ones.
THEOREM DedupeKeepsEveryText ==
  ASSUME NEW X, NEW texts \in Seq(X)
  PROVE  /\ Dedupe(texts) \in Seq(X) /\ Distinct(Dedupe(texts))
         /\ \A x : x \in ToSet(Dedupe(texts)) <=> x \in ToSet(texts)
<1>1. PICK n \in Nat : n = Len(texts) /\ DOMAIN texts = 1..n
  OBVIOUS
<1>2. PICK f : KeepsFirst(f, n, X, texts)
  BY <1>1, DedupeIsBuilt
<1>a. \A q \in Seq(X) : \A x : Contains(q, x) <=> x \in ToSet(q)
  BY DEF Contains, ToSet
<1> USE DEF KeepsFirst
<1> DEFINE upto(m) == {texts[k] : k \in 1..m}
           Q == {m \in 0..n : /\ Distinct(f[m])
                              /\ \A x : x \in ToSet(f[m]) <=> x \in upto(m)}
<1>3. 0 \in Q
  BY <1>2 DEF ToSet, Distinct
<1>4. ASSUME NEW k \in 0..(n-1), k \in Q PROVE k + 1 \in Q
  <2>1. k + 1 \in 1..n /\ k + 1 \in 0..n /\ (k + 1) - 1 = k /\ f[k] \in Seq(X)
    BY <1>2
  <2>2. \A x : x \in upto(k + 1) <=> x \in upto(k) \/ x = texts[k + 1]
    <3>1. \A i : i \in 1..(k + 1) <=> i \in 1..k \/ i = k + 1
      OBVIOUS
    <3> QED
      BY <3>1
  <2>3. Distinct(f[k]) /\ \A x : x \in ToSet(f[k]) <=> x \in upto(k)
    BY <1>4
  <2>4. texts[k + 1] \in X
    BY <1>1, <2>1
  <2>5. f[k + 1] = IF texts[k + 1] \in ToSet(f[k]) THEN f[k] ELSE Append(f[k], texts[k + 1])
    BY <1>2, <1>a, <2>1
  <2> HIDE DEF upto
  <2>6. CASE texts[k + 1] \in ToSet(f[k])
    BY <2>1, <2>2, <2>3, <2>5, <2>6
  <2>7. CASE texts[k + 1] \notin ToSet(f[k])
    <3>1. f[k + 1] = Append(f[k], texts[k + 1])
      BY <2>5, <2>7
    <3>2. \A x : x \in ToSet(f[k + 1]) <=> x \in ToSet(f[k]) \/ x = texts[k + 1]
      BY <2>1, <2>4, <3>1, AppendedToSet
    <3>3. Distinct(Append(f[k], texts[k + 1]))
      BY <2>1, <2>3, <2>4, <2>7, AppendedDistinct
    <3> QED
      BY <2>1, <2>2, <2>3, <3>1, <3>2, <3>3
  <2> QED
    BY <2>6, <2>7
<1>5. n \in Q
  <2> HIDE DEF Q
  <2>1. Q \in SUBSET Nat
    BY DEF Q
  <2> QED
    BY <1>3, <1>4, <2>1, NatSetInduction
<1>6. upto(n) = ToSet(texts)
  BY <1>1 DEF ToSet
<1>7. Dedupe(texts) \in Seq(X)
  BY <1>2
<1> QED
  BY <1>2, <1>5, <1>6, <1>7

-----------------------------------------------------------------------------
(***************************************************************************)
(* The evidence of a recommendation and the two sides of its page.         *)
(***************************************************************************)
\* A signal of a report as a piece of evidence.
Cites(report, s, now) ==
  [claim |-> Claim(s), source |-> report.agent, weight |-> s.strength.value, observedAt |-> now]

\* The signals of a report that are not neutral, as evidence.
CitedBy(report, now) ==
  LET kept == Only(report.signals, {s \in ToSet(report.signals) : s.strength.value # 0})
  IN [n \in DOMAIN kept |-> Cites(report, kept[n], now)]

IsCited(e, reports, now) ==
  \E i \in DOMAIN reports : \E s \in ToSet(reports[i].signals) :
    s.strength.value # 0 /\ e = Cites(reports[i], s, now)

EvenEvidence(now) == [claim |-> Balanced, source |-> "synthesis", weight |-> 0, observedAt |-> now]

\* What may be cited from some reports.
CitedSet(reports, now) ==
  UNION {{Cites(reports[i], s, now) : s \in ToSet(reports[i].signals)} : i \in DOMAIN reports}

\* A list is empty exactly if it has no members.
LEMMA NonemptyToSet ==
  ASSUME NEW X, NEW q \in Seq(X)
  PROVE  q # << >> <=> \E x : x \in ToSet(q)
<1>1. PICK n \in Nat : n = Len(q) /\ DOMAIN q = 1..n
  OBVIOUS
<1>2. CASE n = 0
  <2>1. q = << >> /\ 1..n = {}
    BY <1>1, <1>2
  <2> QED
    BY <1>1, <2>1 DEF ToSet
<1>3. CASE n # 0
  <2>1. 1 \in 1..n
    BY <1>3
  <2>2. q[1] \in ToSet(q)
    BY <1>1, <2>1 DEF ToSet
  <2>3. q # << >>
    BY <1>1, <1>3
  <2> QED
    BY <2>2, <2>3
<1> QED
  BY <1>2, <1>3

\* Evidence, in terms of the lists its reports are cited with.
LEMMA EvidenceIsCited ==
  ASSUME NEW reports, NEW now
  PROVE  Evidence(reports, now) =
           LET cited == FlattenSeq([i \in DOMAIN reports |-> CitedBy(reports[i], now)])
           IN IF cited # << >> THEN cited ELSE <<EvenEvidence(now)>>
BY DEF Evidence, CitedBy, Cites, EvenEvidence

\* A report is cited with those of its signals that are not neutral.
LEMMA ReportIsCited ==
  ASSUME NEW S, NEW report, report.signals \in Seq(S), NEW now
  PROVE  /\ CitedBy(report, now) \in Seq({Cites(report, s, now) : s \in ToSet(report.signals)})
         /\ \A e : e \in ToSet(CitedBy(report, now)) <=>
                   \E s \in ToSet(report.signals) : s.strength.value # 0 /\ e = Cites(report, s, now)
<1> DEFINE directed == {s \in ToSet(report.signals) : s.strength.value # 0}
           kept == Only(report.signals, directed)
           cited == [k \in DOMAIN kept |-> Cites(report, kept[k], now)]
<1>1. CitedBy(report, now) = cited
  BY DEF CitedBy
<1>2. kept \in Seq(S) /\ \A x : x \in ToSet(kept) <=> x \in ToSet(report.signals) /\ x \in directed
  <2> HIDE DEF directed
  <2> QED
    BY OnlyKeeps
<1> HIDE DEF kept
<1>3. PICK n \in Nat : DOMAIN kept = 1..n
  BY <1>2
<1>4. \A x : x \in ToSet(kept) <=> x \in ToSet(report.signals) /\ x.strength.value # 0
  BY <1>2
<1> HIDE DEF directed
<1>5. \A k \in 1..n : kept[k] \in ToSet(kept)
  BY <1>3 DEF ToSet
<1>6. cited \in Seq({Cites(report, s, now) : s \in ToSet(report.signals)})
  <2> DEFINE C == {Cites(report, s, now) : s \in ToSet(report.signals)}
  <2>1. \A k \in 1..n : Cites(report, kept[k], now) \in C
    BY <1>4, <1>5
  <2> HIDE DEF C
  <2>2. cited \in [1..n -> C]
    BY <1>3, <2>1
  <2> HIDE DEF cited
  <2>3. cited \in Seq(C)
    BY <2>2
  <2> QED
    BY <2>3 DEF C
<1>7. \A e : e \in ToSet(cited) <=> \E s \in ToSet(kept) : e = Cites(report, s, now)
  BY <1>3 DEF ToSet
<1> HIDE DEF cited
<1> QED
  BY <1>1, <1>4, <1>6, <1>7

\* The evidence of a recommendation is what its reports' signals say, neutral ones
\* left out, or that they are balanced; there is always some.
THEOREM EvidenceIsWhatIsSaid ==
  ASSUME NEW S, NEW R, NEW reports \in Seq(R), NEW now,
         \A i \in DOMAIN reports : reports[i].signals \in Seq(S)
  PROVE  /\ Evidence(reports, now) \in Seq(CitedSet(reports, now) \cup {EvenEvidence(now)})
         /\ Evidence(reports, now) # << >>
         /\ \A e : e \in ToSet(Evidence(reports, now)) <=>
                   \/ IsCited(e, reports, now)
                   \/ e = EvenEvidence(now) /\ ~ \E d : IsCited(d, reports, now)
<1> DEFINE C == CitedSet(reports, now)
           lists == [i \in DOMAIN reports |-> CitedBy(reports[i], now)]
           cited == FlattenSeq(lists)
<1>1. PICK n \in Nat : DOMAIN reports = 1..n
  OBVIOUS
<1>2. \A i \in 1..n : \A e : e \in ToSet(CitedBy(reports[i], now)) <=>
        \E s \in ToSet(reports[i].signals) : s.strength.value # 0 /\ e = Cites(reports[i], s, now)
  BY <1>1, ReportIsCited
<1>3. \A i \in 1..n : CitedBy(reports[i], now) \in Seq(C)
  <2> SUFFICES ASSUME NEW i \in 1..n PROVE CitedBy(reports[i], now) \in Seq(C)
    OBVIOUS
  <2> DEFINE D == {Cites(reports[i], s, now) : s \in ToSet(reports[i].signals)}
  <2>1. CitedBy(reports[i], now) \in Seq(D)
    BY <1>1, ReportIsCited
  <2>2. D \subseteq C
    BY <1>1 DEF CitedSet
  <2> HIDE DEF D, C
  <2> QED
    BY <2>1, <2>2
<1>4. lists \in Seq(Seq(C)) /\ DOMAIN lists = 1..n /\ \A i \in 1..n : lists[i] = CitedBy(reports[i], now)
  <2> DEFINE Q == Seq(C)
  <2> HIDE DEF Q
  <2>1. lists \in [1..n -> Q] /\ \A i \in 1..n : lists[i] = CitedBy(reports[i], now)
    BY <1>1, <1>3 DEF Q
  <2> HIDE DEF lists
  <2> QED
    BY <2>1 DEF Q
<1> HIDE DEF lists, C
<1>5. /\ cited \in Seq(C)
      /\ \A e : e \in ToSet(cited) <=> \E i \in DOMAIN lists : e \in ToSet(lists[i])
  BY <1>4, FlattenKeeps
<1>6. Evidence(reports, now) = IF cited # << >> THEN cited ELSE <<EvenEvidence(now)>>
  BY EvidenceIsCited DEF lists
<1> HIDE DEF cited
<1>7. \A e : e \in ToSet(cited) <=> IsCited(e, reports, now)
  BY <1>1, <1>2, <1>4, <1>5 DEF IsCited
<1>8. CASE cited # << >>
  <2>1. \E d : d \in ToSet(cited)
    BY <1>5, <1>8, NonemptyToSet
  <2>2. cited \in Seq(C \cup {EvenEvidence(now)})
    BY <1>5
  <2> QED
    BY <1>6, <1>7, <1>8, <2>1, <2>2 DEF C
<1>9. CASE cited = << >>
  <2>1. PICK x : x = EvenEvidence(now)
    OBVIOUS
  <2>2. <<x>> \in Seq(C \cup {x}) /\ <<x>> # << >> /\ ToSet(<<x>>) = {x} /\ ToSet(<< >>) = {}
    BY DEF ToSet
  <2>3. ~ \E d : IsCited(d, reports, now)
    BY <1>7, <1>9, <2>2
  <2>4. Evidence(reports, now) = <<x>>
    BY <1>6, <1>9, <2>1
  <2> QED
    BY <2>1, <2>2, <2>3, <2>4 DEF C
<1> QED
  BY <1>8, <1>9

\* What a side of the page lists of its claims.
LEMMA FirstOfSome ==
  ASSUME NEW X, NEW q \in Seq(X)
  PROVE  /\ FirstOf(q) \in Seq(X) /\ ToSet(FirstOf(q)) \subseteq ToSet(q)
         /\ ToSet(FirstOf(q)) = ToSet(q) \/ Len(FirstOf(q)) = PageLimit
         /\ q # << >> => FirstOf(q) # << >>
<1>1. PICK n \in Nat : n = Len(q) /\ DOMAIN q = 1..n /\ \A i \in 1..n : q[i] \in X
  OBVIOUS
<1>2. PICK m \in Nat : m = IF n < PageLimit THEN n ELSE PageLimit
  BY PageLimitAssumption
<1>3. m \in 0..n /\ (m = n \/ m = PageLimit) /\ (n # 0 => m # 0)
  BY <1>2, PageLimitAssumption
<1>4. FirstOf(q) = SubSeq(q, 1, m)
  BY <1>1, <1>2 DEF FirstOf
<1>5. /\ SubSeq(q, 1, m) \in Seq(X) /\ Len(SubSeq(q, 1, m)) = m /\ DOMAIN SubSeq(q, 1, m) = 1..m
      /\ \A i \in 1..m : SubSeq(q, 1, m)[i] = q[i]
  BY <1>1, <1>3
<1>6. m = n => ToSet(SubSeq(q, 1, m)) = ToSet(q)
  BY <1>1, <1>5 DEF ToSet
<1>7. ToSet(SubSeq(q, 1, m)) \subseteq ToSet(q)
  BY <1>1, <1>3, <1>5 DEF ToSet
<1>8. q # << >> => n # 0
  BY <1>1
<1>9. m # 0 => SubSeq(q, 1, m) # << >>
  BY <1>5
<1> QED
  BY <1>3, <1>4, <1>5, <1>6, <1>7, <1>8, <1>9

\* A piece of evidence as the response tells it.
Told(e) == [claim |-> e.claim, isCounter |-> IsCounter(e)]

\* The response tells evidence against from evidence for.
LEMMA ToldApart ==
  ASSUME NEW e
  PROVE  /\ Told(e).claim = e.claim
         /\ Told(e).isCounter = TRUE <=> IsCounter(e)
         /\ Told(e).isCounter = FALSE <=> ~ IsCounter(e)
<1>1. Told(e).isCounter = IsCounter(e) /\ Told(e).claim = e.claim
  BY DEF Told
<1>2. IsCounter(e) \in BOOLEAN
  BY DEF IsCounter
<1> QED
  BY <1>1, <1>2, Zenon

\* The response lists all evidence and all counter-arguments.
LEMMA ResponseTells ==
  ASSUME NEW rec
  PROVE  /\ Response(rec).evidence = [i \in DOMAIN rec.evidence |-> Told(rec.evidence[i])]
         /\ Response(rec).counterArguments = rec.counterArguments
BY DEF Response, Told

\* The claims of one side of a response are those of the evidence on that side.
LEMMA ClaimsAreOfOneSide ==
  ASSUME NEW E, NEW rec, rec.evidence \in Seq(E), NEW counter \in BOOLEAN
  PROVE  /\ Claims(Response(rec), counter) \in Seq({e.claim : e \in E})
         /\ \A c : c \in ToSet(Claims(Response(rec), counter)) <=>
                   \E e \in ToSet(rec.evidence) : c = e.claim /\ (IsCounter(e) <=> counter)
<1> DEFINE told == Response(rec).evidence
           T == {Told(e) : e \in E}
           ours == {t \in ToSet(told) : t.isCounter = counter}
           side == Only(told, ours)
           claims == [k \in DOMAIN side |-> side[k].claim]
<1>1. PICK n \in Nat : DOMAIN rec.evidence = 1..n /\ \A i \in 1..n : rec.evidence[i] \in E
  OBVIOUS
<1>2. told \in Seq(T) /\ DOMAIN told = 1..n /\ \A i \in 1..n : told[i] = Told(rec.evidence[i])
  <2>1. told = [i \in 1..n |-> Told(rec.evidence[i])]
    BY <1>1, ResponseTells
  <2>2. \A i \in 1..n : Told(rec.evidence[i]) \in T
    BY <1>1
  <2> HIDE DEF told, T
  <2>3. told \in [1..n -> T]
    BY <2>1, <2>2
  <2> QED
    BY <2>1, <2>3
<1>3. Claims(Response(rec), counter) = claims
  BY DEF Claims
<1> HIDE DEF told, ours
<1>4. side \in Seq(T) /\ \A x : x \in ToSet(side) <=> x \in ToSet(told) /\ x \in ours
  <2> HIDE DEF T
  <2> QED
    BY <1>2, OnlyKeeps
<1> HIDE DEF side
<1>5. PICK m \in Nat : DOMAIN side = 1..m /\ \A k \in 1..m : side[k] \in T
  BY <1>4
<1>6. \A t : t \in ToSet(told) <=> \E e \in ToSet(rec.evidence) : t = Told(e)
  BY <1>1, <1>2 DEF ToSet
<1>7. \A e : Told(e).claim = e.claim /\ (Told(e).isCounter = counter <=> (IsCounter(e) <=> counter))
  <2>1. counter = TRUE \/ counter = FALSE
    OBVIOUS
  <2> QED
    BY <2>1, ToldApart, Zenon
<1>8. \A t : t \in ToSet(side) <=> \E e \in ToSet(rec.evidence) : t = Told(e) /\ (IsCounter(e) <=> counter)
  <2>1. \A t : t \in ours <=> t \in ToSet(told) /\ t.isCounter = counter
    BY DEF ours
  <2> QED
    BY <1>4, <1>6, <1>7, <2>1, Zenon
<1>9. \A c : c \in ToSet(claims) <=> \E t \in ToSet(side) : c = t.claim
  BY <1>5 DEF ToSet
<1>10. claims \in Seq({e.claim : e \in E})
  <2> DEFINE D == {e.claim : e \in E}
  <2>1. \A k \in 1..m : side[k].claim \in D
    <3>1. \A k \in 1..m : \E e \in E : side[k] = Told(e)
      BY <1>5
    <3> QED
      BY <1>7, <3>1
  <2> HIDE DEF D
  <2>2. claims \in [1..m -> D]
    BY <1>5, <2>1
  <2> HIDE DEF claims
  <2>3. claims \in Seq(D)
    BY <2>2
  <2> QED
    BY <2>3 DEF D
<1> HIDE DEF claims
<1>11. \A c : c \in ToSet(claims) <=>
              \E e \in ToSet(rec.evidence) : c = e.claim /\ (IsCounter(e) <=> counter)
  <2> DEFINE Ours(e) == IsCounter(e) <=> counter
  <2>1. \A e : Told(e).claim = e.claim
    BY <1>7
  <2>2. \A t : t \in ToSet(side) <=> \E e \in ToSet(rec.evidence) : t = Told(e) /\ Ours(e)
    BY <1>8, Zenon
  <2> HIDE DEF Ours
  <2>3. \A c : (\E t \in ToSet(side) : c = t.claim)
               <=> \E e \in ToSet(rec.evidence) : c = e.claim /\ Ours(e)
    BY <2>1, <2>2
  <2>4. \A c : c \in ToSet(claims) <=> \E e \in ToSet(rec.evidence) : c = e.claim /\ Ours(e)
    BY <1>9, <2>3
  <2> QED
    BY <2>4, Zenon DEF Ours
<1> QED
  BY <1>3, <1>10, <1>11

\* The counter-arguments are the claims against, or else the bear's thesis.
AreCounters(claims, E, evidence, debate) ==
  /\ claims \in Seq({e.claim : e \in E} \cup {debate.bear})
  /\ claims # << >>
  /\ \A c : c \in ToSet(claims) <=>
            \/ \E e \in ToSet(evidence) : c = e.claim /\ IsCounter(e)
            \/ c = debate.bear /\ \A e \in ToSet(evidence) : ~ IsCounter(e)

\* Synthesis never leaves a recommendation without counter-arguments.
LEMMA CountersAreAgainst ==
  ASSUME NEW E, NEW evidence \in Seq(E), NEW debate
  PROVE  AreCounters(CounterArguments(evidence, debate), E, evidence, debate)
<1> DEFINE ours == {e \in ToSet(evidence) : IsCounter(e)}
           against == Only(evidence, ours)
           D == {e.claim : e \in E}
           claims == [k \in DOMAIN against |-> against[k].claim]
<1>1. CounterArguments(evidence, debate) = IF against = << >> THEN <<debate.bear>> ELSE claims
  BY DEF CounterArguments
<1>2. against \in Seq(E) /\ \A x : x \in ToSet(against) <=> x \in ToSet(evidence) /\ x \in ours
  <2> HIDE DEF ours
  <2> QED
    BY OnlyKeeps
<1>3. \A x : x \in ToSet(against) <=> x \in ToSet(evidence) /\ IsCounter(x)
  BY <1>2
<1> HIDE DEF against
<1>4. PICK m \in Nat : m = Len(against) /\ DOMAIN against = 1..m /\ \A k \in 1..m : against[k] \in E
  BY <1>2
<1>5. \A c : c \in ToSet(claims) <=> \E e \in ToSet(against) : c = e.claim
  BY <1>4 DEF ToSet
<1>6. claims \in Seq(D) /\ Len(claims) = m
  <2>1. \A k \in 1..m : against[k].claim \in D
    BY <1>4
  <2> HIDE DEF D
  <2>2. claims \in [1..m -> D]
    BY <1>4, <2>1
  <2> HIDE DEF claims
  <2> QED
    BY <2>2
<1> HIDE DEF claims, ours, D
<1>7. CASE against = << >>
  <2>1. PICK bear : bear = debate.bear
    OBVIOUS
  <2>2. <<bear>> \in Seq(D \cup {bear}) /\ <<bear>> # << >> /\ ToSet(<<bear>>) = {bear}
    BY DEF ToSet
  <2>3. \A x : x \notin ToSet(against)
    BY <1>2, <1>7, NonemptyToSet
  <2>4. CounterArguments(evidence, debate) = <<bear>>
    BY <1>1, <1>7, <2>1
  <2> QED
    BY <1>3, <2>1, <2>2, <2>3, <2>4 DEF D, AreCounters
<1>8. CASE against # << >>
  <2>1. CounterArguments(evidence, debate) = claims
    BY <1>1, <1>8
  <2>2. \E x : x \in ToSet(against)
    BY <1>2, <1>8, NonemptyToSet
  <2>3. claims # << >>
    <3>1. \E c : c \in ToSet(claims)
      BY <1>5, <2>2
    <3> QED
      BY <1>6, <3>1, NonemptyToSet
  <2>4. claims \in Seq(D \cup {debate.bear})
    BY <1>6
  <2>5. \A c : c \in ToSet(claims) <=> \E e \in ToSet(evidence) : c = e.claim /\ IsCounter(e)
    BY <1>3, <1>5
  <2>6. \E e \in ToSet(evidence) : IsCounter(e)
    BY <1>3, <2>2
  <2> QED
    BY <2>1, <2>3, <2>4, <2>5, <2>6 DEF D, AreCounters
<1> QED
  BY <1>7, <1>8

SignalsOf(reports) == UNION {ToSet(r.signals) : r \in ToSet(reports)}

\* The claims of the signals that point up, or down.
DirectedClaims(reports, up) ==
  {Claim(s) : s \in {t \in SignalsOf(reports) : IF up THEN t.strength.value > 0
                                                ELSE t.strength.value < 0}}

\* Reports whose signals are lists of directed statements.
WellFormed(reports, S) ==
  /\ \A i \in DOMAIN reports : reports[i].signals \in Seq(S)
  /\ \A s \in SignalsOf(reports) : s.strength.value \in Int

SignalsPlaced(reports) ==
  \A s : s \in SignalsOf(reports) <=> \E i \in DOMAIN reports : s \in ToSet(reports[i].signals)

\* Every signal is in some report.
LEMMA SignalledWhere ==
  ASSUME NEW reports
  PROVE  SignalsPlaced(reports)
<1>1. \A r : r \in ToSet(reports) <=> \E i \in DOMAIN reports : r = reports[i]
  BY DEF ToSet
<1> QED
  BY <1>1 DEF SignalsOf, SignalsPlaced

ClaimsPlaced(reports) ==
  /\ \A c : c \in DirectedClaims(reports, TRUE) <=>
            \E s \in SignalsOf(reports) : s.strength.value > 0 /\ c = Claim(s)
  /\ \A c : c \in DirectedClaims(reports, FALSE) <=>
            \E s \in SignalsOf(reports) : s.strength.value < 0 /\ c = Claim(s)

\* A claim is directed if a signal with that strength makes it.
LEMMA DirectedMeans ==
  ASSUME NEW reports
  PROVE  ClaimsPlaced(reports)
<1>1. \A c : c \in DirectedClaims(reports, TRUE) <=>
            \E s \in SignalsOf(reports) : s.strength.value > 0 /\ c = Claim(s)
  BY DEF DirectedClaims
<1>2. \A c : c \in DirectedClaims(reports, FALSE) <=>
            \E s \in SignalsOf(reports) : s.strength.value < 0 /\ c = Claim(s)
  BY DEF DirectedClaims
<1> QED
  BY <1>1, <1>2 DEF ClaimsPlaced

\* The claims of the evidence on each side.
LEMMA ClaimsByDirection ==
  ASSUME NEW S, NEW R, NEW reports \in Seq(R), WellFormed(reports, S), NEW now, NEW c
  PROVE  /\ (\E e \in ToSet(Evidence(reports, now)) : c = e.claim /\ IsCounter(e))
              <=> c \in DirectedClaims(reports, FALSE)
         /\ (\E e \in ToSet(Evidence(reports, now)) : c = e.claim /\ ~ IsCounter(e))
              => c \in DirectedClaims(reports, TRUE)
                 \/ (DirectedClaims(reports, TRUE) = {} /\ DirectedClaims(reports, FALSE) = {})
         /\ c \in DirectedClaims(reports, TRUE) =>
              \E e \in ToSet(Evidence(reports, now)) : c = e.claim /\ ~ IsCounter(e)
<1> DEFINE Item(s, e) == e.claim = Claim(s) /\ e.weight = s.strength.value
           E == ToSet(Evidence(reports, now))
<1>1. \A e : e \in E <=> \/ IsCited(e, reports, now)
                         \/ e = EvenEvidence(now) /\ ~ \E d : IsCited(d, reports, now)
  BY EvidenceIsWhatIsSaid DEF WellFormed
<1> HIDE DEF E
<1>a. SignalsPlaced(reports) /\ ClaimsPlaced(reports)
  BY SignalledWhere, DirectedMeans
<1>2. \A s : s \in SignalsOf(reports) <=> \E i \in DOMAIN reports : s \in ToSet(reports[i].signals)
  BY <1>a DEF SignalsPlaced
<1>3. \A e : IsCited(e, reports, now) =>
        \E s \in SignalsOf(reports) : s.strength.value # 0 /\ Item(s, e)
  BY <1>2 DEF IsCited, Cites
<1>4. \A s \in SignalsOf(reports) : s.strength.value # 0 =>
        \E e : IsCited(e, reports, now) /\ Item(s, e)
  <2> SUFFICES ASSUME NEW s \in SignalsOf(reports), s.strength.value # 0
               PROVE  \E e : IsCited(e, reports, now) /\ Item(s, e)
    OBVIOUS
  <2>1. PICK i \in DOMAIN reports : s \in ToSet(reports[i].signals)
    BY <1>2
  <2>2. PICK e : e = Cites(reports[i], s, now)
    OBVIOUS
  <2>3. Item(s, e)
    BY <2>2 DEF Cites
  <2> HIDE DEF Item
  <2>4. IsCited(e, reports, now)
    BY <2>1, <2>2 DEF IsCited
  <2> QED
    BY <2>3, <2>4
<1> HIDE DEF Item
<1>5. \A s \in SignalsOf(reports) : s.strength.value \in Int
  BY DEF WellFormed
<1>6. \A b : b \in DirectedClaims(reports, FALSE) <=>
             \E s \in SignalsOf(reports) : s.strength.value < 0 /\ b = Claim(s)
  BY <1>a DEF ClaimsPlaced
<1>7. \A b : b \in DirectedClaims(reports, TRUE) <=>
             \E s \in SignalsOf(reports) : s.strength.value > 0 /\ b = Claim(s)
  BY <1>a DEF ClaimsPlaced
<1>8. ~ IsCounter(EvenEvidence(now))
  BY DEF IsCounter, EvenEvidence
<1>9. ASSUME NEW e \in E, c = e.claim, IsCounter(e) PROVE c \in DirectedClaims(reports, FALSE)
  <2>1. PICK s \in SignalsOf(reports) : s.strength.value # 0 /\ Item(s, e)
    BY <1>1, <1>3, <1>8, <1>9
  <2>2. s.strength.value < 0 /\ c = Claim(s)
    BY <1>9, <2>1 DEF Item, IsCounter
  <2> QED
    BY <1>6, <2>2
<1>10. ASSUME c \in DirectedClaims(reports, FALSE) PROVE \E e \in E : c = e.claim /\ IsCounter(e)
  <2>1. PICK s \in SignalsOf(reports) : s.strength.value < 0 /\ c = Claim(s)
    BY <1>6, <1>10
  <2>2. s.strength.value # 0
    BY <1>5, <2>1
  <2>3. PICK e : IsCited(e, reports, now) /\ Item(s, e)
    BY <1>4, <2>2
  <2> QED
    BY <1>1, <2>1, <2>3 DEF Item, IsCounter
<1>11. ASSUME c \in DirectedClaims(reports, TRUE) PROVE \E e \in E : c = e.claim /\ ~ IsCounter(e)
  <2>1. PICK s \in SignalsOf(reports) : s.strength.value > 0 /\ c = Claim(s)
    BY <1>7, <1>11
  <2>2. s.strength.value # 0 /\ ~ (s.strength.value < 0)
    BY <1>5, <2>1
  <2>3. PICK e : IsCited(e, reports, now) /\ Item(s, e)
    BY <1>4, <2>2
  <2> QED
    BY <1>1, <2>1, <2>2, <2>3 DEF Item, IsCounter
<1>12. ASSUME NEW e \in E, c = e.claim, ~ IsCounter(e)
       PROVE  \/ c \in DirectedClaims(reports, TRUE)
              \/ DirectedClaims(reports, TRUE) = {} /\ DirectedClaims(reports, FALSE) = {}
  <2>1. CASE IsCited(e, reports, now)
    <3>1. PICK s \in SignalsOf(reports) : s.strength.value # 0 /\ Item(s, e)
      BY <1>3, <2>1
    <3>2. s.strength.value > 0 /\ c = Claim(s)
      BY <1>5, <1>12, <3>1 DEF Item, IsCounter
    <3> QED
      BY <1>7, <3>2
  <2>2. CASE ~ \E d : IsCited(d, reports, now)
    <3>1. \A s \in SignalsOf(reports) : s.strength.value = 0
      BY <1>4, <2>2
    <3>2. \A s \in SignalsOf(reports) : ~ (s.strength.value > 0) /\ ~ (s.strength.value < 0)
      BY <3>1
    <3>3. DirectedClaims(reports, TRUE) = {} /\ DirectedClaims(reports, FALSE) = {}
      BY <1>6, <1>7, <3>2
    <3> QED
      BY <3>3
  <2> QED
    BY <1>1, <1>12, <2>1, <2>2
<1>13. (\E e \in E : c = e.claim /\ IsCounter(e)) <=> c \in DirectedClaims(reports, FALSE)
  BY <1>9, <1>10
<1>14. ASSUME \E e \in E : c = e.claim /\ ~ IsCounter(e)
       PROVE  \/ c \in DirectedClaims(reports, TRUE)
              \/ DirectedClaims(reports, TRUE) = {} /\ DirectedClaims(reports, FALSE) = {}
  <2>1. PICK e \in E : c = e.claim /\ ~ IsCounter(e)
    BY <1>14, Zenon
  <2> QED
    BY <1>12, <2>1, Zenon
<1>15. (\E e \in E : c = e.claim /\ ~ IsCounter(e))
         => c \in DirectedClaims(reports, TRUE)
            \/ (DirectedClaims(reports, TRUE) = {} /\ DirectedClaims(reports, FALSE) = {})
  BY <1>14, Zenon
<1>16. c \in DirectedClaims(reports, TRUE) => \E e \in E : c = e.claim /\ ~ IsCounter(e)
  BY <1>11, Zenon
<1> QED
  BY <1>13, <1>15, <1>16, Zenon DEF E

\* What a side of the page owes to the signals of its direction.
Shows(side, other, claims) ==
  /\ claims \cap ToSet(other) = {}
  /\ \/ claims \subseteq ToSet(side)
     \/ Len(side) = PageLimit /\ ToSet(side) \subseteq claims

\* The page of a recommendation made from any reports shows each directed claim on its
\* own side and not on the other, unless that side is full of such claims, and something
\* against in any case; provided that no claim is made in both directions and the bear's
\* thesis is no signal's claim.
THEOREM PageShowsBothSides ==
  ASSUME NEW S, NEW R, NEW reports \in Seq(R), WellFormed(reports, S), NEW now, NEW debate, NEW rec,
         rec.evidence = Evidence(reports, now),
         rec.counterArguments = CounterArguments(rec.evidence, debate),
         DirectedClaims(reports, TRUE) \cap DirectedClaims(reports, FALSE) = {},
         debate.bear \notin DirectedClaims(reports, TRUE)
  PROVE  LET page == Page(Response(rec))
         IN /\ Shows(page.supporting, page.against, DirectedClaims(reports, TRUE))
            /\ Shows(page.against, page.supporting, DirectedClaims(reports, FALSE))
            /\ page.against # << >>
<1> DEFINE E == CitedSet(reports, now) \cup {EvenEvidence(now)}
           X == {e.claim : e \in E}
           for == Claims(Response(rec), FALSE)
           against == rec.counterArguments
           up == DirectedClaims(reports, TRUE)
           down == DirectedClaims(reports, FALSE)
<1>1. rec.evidence \in Seq(E)
  BY EvidenceIsWhatIsSaid DEF WellFormed
<1> HIDE DEF E
<1>2. for \in Seq(X) /\ \A c : c \in ToSet(for) <=>
                          \E e \in ToSet(rec.evidence) : c = e.claim /\ (IsCounter(e) <=> FALSE)
  BY <1>1, ClaimsAreOfOneSide
<1>3. /\ against \in Seq(X \cup {debate.bear}) /\ against # << >>
      /\ \A c : c \in ToSet(against) <=>
                \/ \E e \in ToSet(rec.evidence) : c = e.claim /\ IsCounter(e)
                \/ c = debate.bear /\ \A e \in ToSet(rec.evidence) : ~ IsCounter(e)
  <2>1. PICK q : q = rec.evidence /\ q \in Seq(E)
    BY <1>1
  <2>2. against = CounterArguments(q, debate)
    BY <2>1
  <2>3. AreCounters(CounterArguments(q, debate), E, q, debate)
    BY <2>1, CountersAreAgainst
  <2>4. AreCounters(against, E, rec.evidence, debate)
    BY <2>1, <2>2, <2>3
  <2> HIDE DEF X, against
  <2> QED
    BY <2>4, Zenon DEF AreCounters, X
<1>4. Page(Response(rec)).supporting = FirstOf(for) /\ Page(Response(rec)).against = FirstOf(against)
  BY <1>3, ResponseTells DEF Page
<1> HIDE DEF for, against, X
<1>5. /\ \A c : c \in ToSet(for) => c \in up \/ (up = {} /\ down = {})
      /\ up \subseteq ToSet(for)
  <2>1. \A c : c \in ToSet(for) <=> \E e \in ToSet(rec.evidence) : c = e.claim /\ ~ IsCounter(e)
    BY <1>2
  <2> QED
    BY <2>1, ClaimsByDirection
<1>6. /\ \A c : c \in ToSet(against) => c \in down \/ c = debate.bear
      /\ down \subseteq ToSet(against)
      /\ down # {} => ToSet(against) \subseteq down
  <2>1. \A c : (\E e \in ToSet(rec.evidence) : c = e.claim /\ IsCounter(e)) <=> c \in down
    BY ClaimsByDirection
  <2>2. down # {} => \E e \in ToSet(rec.evidence) : IsCounter(e)
    BY <2>1
  <2> HIDE DEF down
  <2> QED
    BY <1>3, <2>1, <2>2
<1>7. up \cap down = {} /\ debate.bear \notin up
  OBVIOUS
<1> HIDE DEF up, down
<1>8. /\ ToSet(FirstOf(for)) \subseteq ToSet(for)
      /\ ToSet(FirstOf(for)) = ToSet(for) \/ Len(FirstOf(for)) = PageLimit
  BY <1>2, FirstOfSome
<1>9. /\ ToSet(FirstOf(against)) \subseteq ToSet(against)
      /\ ToSet(FirstOf(against)) = ToSet(against) \/ Len(FirstOf(against)) = PageLimit
      /\ FirstOf(against) # << >>
  BY <1>3, FirstOfSome
<1>10. Shows(FirstOf(for), FirstOf(against), up)
  <2>1. up \cap ToSet(FirstOf(against)) = {}
    BY <1>6, <1>7, <1>9
  <2>2. up # {} => ToSet(FirstOf(for)) \subseteq up
    BY <1>5, <1>8
  <2> QED
    BY <1>5, <1>8, <2>1, <2>2 DEF Shows
<1>11. Shows(FirstOf(against), FirstOf(for), down)
  <2>1. down \cap ToSet(FirstOf(for)) = {}
    BY <1>5, <1>7, <1>8
  <2>2. down # {} => ToSet(FirstOf(against)) \subseteq down
    BY <1>6, <1>9
  <2> QED
    BY <1>6, <1>9, <2>1, <2>2 DEF Shows
<1> QED
  BY <1>4, <1>9, <1>10, <1>11 DEF up, down

\* The signals, reports and outlooks that the dossiers are made from.
Stated == [name : {"NEWS", "RISK"}, value : Nat, strength : [kind : {"Strength"}, value : -2..2]]
AgentReport == [agent : {"NEWS", "RISK"}, score : [kind : {"Score"}, value : 0..100],
             signals : Seq(Stated), assumptions : Seq({"NEWS", "RISK"})]

\* Each agent reports once, under its name, on signals that it numbers.
Numbered(reports) ==
  /\ reports \in Seq(AgentReport) /\ reports # << >>
  /\ \A i, j \in DOMAIN reports : reports[i].agent = reports[j].agent => i = j
  /\ \A i \in DOMAIN reports :
       /\ reports[i].assumptions = <<reports[i].agent>>
       /\ \A n \in DOMAIN reports[i].signals :
            reports[i].signals[n].name = reports[i].agent /\ reports[i].signals[n].value = n

\* The signals among the inputs are numbered by their agent.
LEMMA SignalsAreNumbered ==
  ASSUME NEW agent \in {"NEWS", "RISK"}, NEW signals \in Signals(agent)
  PROVE  /\ signals \in Seq(Stated)
         /\ \A n \in DOMAIN signals : signals[n].name = agent /\ signals[n].value = n
<1>1. PICK strengths \in BoundedSeq(-2..2, 3) :
        signals = [n \in DOMAIN strengths |-> [name |-> agent, value |-> n,
                                               strength |-> Value("Strength", strengths[n])]]
  BY DEF Signals
<1>2. PICK m \in Nat : DOMAIN strengths = 1..m /\ \A n \in 1..m : strengths[n] \in -2..2
  <2>1. strengths \in Seq(-2..2)
    BY BoundedSeqs
  <2> QED
    BY <2>1
<1>3. \A n \in 1..m : [name |-> agent, value |-> n, strength |-> Value("Strength", strengths[n])]
                        \in Stated
  BY <1>2 DEF Stated, Value
<1>4. DOMAIN signals = 1..m /\ signals \in [1..m -> Stated]
  BY <1>1, <1>2, <1>3
<1>5. signals \in Seq(Stated)
  BY <1>4
<1> QED
  BY <1>1, <1>4, <1>5

\* The report of an agent on such signals.
LEMMA ReportIsNumbered ==
  ASSUME NEW agent \in {"NEWS", "RISK"}, NEW signals \in Seq(Stated)
  PROVE  /\ ReportBy(agent, signals) \in AgentReport
         /\ ReportBy(agent, signals).agent = agent
         /\ ReportBy(agent, signals).signals = signals
         /\ ReportBy(agent, signals).assumptions = <<agent>>
BY DEF ReportBy, AgentReport, Value

\* Each agent among the inputs reports once, on signals that it numbers.
LEMMA FindingsAreNumbered ==
  ASSUME NEW c \in Findings
  PROVE  Numbered(c.of.reports)
<1>1. \/ \E o \in Outlooks : c.of = ResultOf(o, <<ReportBy("RISK", << >>)>>)
      \/ \E n \in Signals("NEWS"), r \in Signals("RISK") :
           c.of = ResultOf(OutlookOf(50, 0, 50), <<ReportBy("NEWS", n), ReportBy("RISK", r)>>)
  BY DEF Findings
<1>2. CASE \E o \in Outlooks : c.of = ResultOf(o, <<ReportBy("RISK", << >>)>>)
  <2> DEFINE none == << >>
  <2>1. none \in Seq(Stated) /\ DOMAIN none = {}
    OBVIOUS
  <2>a. c.of.reports = <<ReportBy("RISK", none)>>
    BY <1>2 DEF ResultOf
  <2> HIDE DEF none
  <2> DEFINE r == ReportBy("RISK", none)
  <2>2. r \in AgentReport /\ r.agent = "RISK" /\ r.signals = none /\ r.assumptions = <<r.agent>>
    BY <2>1, ReportIsNumbered
  <2>3. c.of.reports = <<r>>
    BY <2>a
  <2> HIDE DEF r
  <2> DEFINE rs == <<r>>
  <2>4. rs \in Seq(AgentReport) /\ rs # << >> /\ (\A i : i \in DOMAIN rs => i = 1) /\ rs[1] = r
    <3>1. rs \in Seq(AgentReport) /\ rs # << >> /\ Len(rs) = 1 /\ rs[1] = r
      BY <2>2
    <3>2. DOMAIN rs = 1..1
      BY <3>1
    <3> HIDE DEF rs
    <3> QED
      BY <3>1, <3>2
  <2>b. c.of.reports = rs
    BY <2>3
  <2> HIDE DEF rs
  <2>5. Numbered(rs)
    BY <2>1, <2>2, <2>4 DEF Numbered
  <2> QED
    BY <2>b, <2>5
<1>3. CASE \E n \in Signals("NEWS"), r \in Signals("RISK") :
             c.of = ResultOf(OutlookOf(50, 0, 50), <<ReportBy("NEWS", n), ReportBy("RISK", r)>>)
  <2>1. PICK n \in Signals("NEWS"), r \in Signals("RISK") :
          c.of = ResultOf(OutlookOf(50, 0, 50), <<ReportBy("NEWS", n), ReportBy("RISK", r)>>)
    BY <1>3
  <2>2. /\ n \in Seq(Stated) /\ r \in Seq(Stated)
        /\ \A k \in DOMAIN n : n[k].name = "NEWS" /\ n[k].value = k
        /\ \A k \in DOMAIN r : r[k].name = "RISK" /\ r[k].value = k
    BY SignalsAreNumbered
  <2>3. PICK a \in AgentReport : a = ReportBy("NEWS", n) /\ a.agent = "NEWS" /\ a.signals = n
                              /\ a.assumptions = <<a.agent>>
    BY <2>2, ReportIsNumbered
  <2>4. PICK b \in AgentReport : b = ReportBy("RISK", r) /\ b.agent = "RISK" /\ b.signals = r
                              /\ b.assumptions = <<b.agent>>
    BY <2>2, ReportIsNumbered
  <2>5. c.of.reports = <<a, b>>
    BY <2>1, <2>3, <2>4 DEF ResultOf
  <2> DEFINE rs == <<a, b>>
  <2>6. /\ rs \in Seq(AgentReport) /\ rs # << >> /\ \A i : i \in DOMAIN rs => i = 1 \/ i = 2
        /\ rs[1] = a /\ rs[2] = b
    <3>1. rs \in Seq(AgentReport) /\ rs # << >> /\ Len(rs) = 2 /\ rs[1] = a /\ rs[2] = b
      OBVIOUS
    <3>2. DOMAIN rs = 1..2
      BY <3>1
    <3> HIDE DEF rs
    <3> QED
      BY <3>1, <3>2
  <2>c. c.of.reports = rs
    BY <2>5
  <2> HIDE DEF rs
  <2>7. Numbered(rs)
    BY <2>2, <2>3, <2>4, <2>6 DEF Numbered
  <2> QED
    BY <2>c, <2>7
<1> QED
  BY <1>1, <1>2, <1>3

\* Where each agent numbers its signals, a claim tells which signal it quotes.
LEMMA NumberedClaims ==
  ASSUME NEW reports, Numbered(reports)
  PROVE  /\ WellFormed(reports, Stated)
         /\ DirectedClaims(reports, TRUE) \cap DirectedClaims(reports, FALSE) = {}
         /\ <<"bearThesis", 0>> \notin DirectedClaims(reports, TRUE)
<1>1. PICK n \in Nat : DOMAIN reports = 1..n /\ \A i \in 1..n : reports[i] \in AgentReport
  <2>1. reports \in Seq(AgentReport)
    BY DEF Numbered
  <2> QED
    BY <2>1
<1>2. \A i \in 1..n : reports[i].signals \in Seq(Stated) /\ reports[i].agent \in {"NEWS", "RISK"}
  BY <1>1 DEF AgentReport
<1>3. \A s \in SignalsOf(reports) : \E i \in 1..n : \E k \in DOMAIN reports[i].signals :
        s = reports[i].signals[k]
  <2> SUFFICES ASSUME NEW s \in SignalsOf(reports)
               PROVE  \E i \in 1..n : \E k \in DOMAIN reports[i].signals : s = reports[i].signals[k]
    OBVIOUS
  <2>1. PICK i \in 1..n : s \in ToSet(reports[i].signals)
    <3>1. SignalsPlaced(reports)
      BY SignalledWhere
    <3> QED
      BY <1>1, <3>1 DEF SignalsPlaced
  <2> QED
    BY <2>1 DEF ToSet
<1>4. \A s \in SignalsOf(reports) : s \in Stated
  BY <1>2, <1>3
<1>5. \A s, t \in SignalsOf(reports) : s.name = t.name /\ s.value = t.value => s = t
  BY <1>1, <1>3 DEF Numbered
<1>6. \A s \in Stated : s.strength.value \in Int /\ s.name \in {"NEWS", "RISK"}
  BY DEF Stated
<1>7. \A s, t : Claim(s) = Claim(t) => s.name = t.name /\ s.value = t.value
  BY DEF Claim
<1>8. DirectedClaims(reports, TRUE) \cap DirectedClaims(reports, FALSE) = {}
  <2>1. \A s, t \in SignalsOf(reports) : Claim(s) = Claim(t) => s = t
    BY <1>5, <1>7
  <2>a. ClaimsPlaced(reports)
    BY DirectedMeans
  <2>2. \A c \in DirectedClaims(reports, TRUE) :
          \E s \in SignalsOf(reports) : c = Claim(s) /\ s.strength.value > 0
    BY <2>a DEF ClaimsPlaced
  <2>3. \A c \in DirectedClaims(reports, FALSE) :
          \E s \in SignalsOf(reports) : c = Claim(s) /\ s.strength.value < 0
    BY <2>a DEF ClaimsPlaced
  <2>4. \A s \in SignalsOf(reports) : ~ (s.strength.value > 0 /\ s.strength.value < 0)
    BY <1>4, <1>6
  <2> QED
    BY <2>1, <2>2, <2>3, <2>4
<1>9. \A s \in SignalsOf(reports) : Claim(s) # <<"bearThesis", 0>>
  BY <1>4, <1>6 DEF Claim
<1>10. WellFormed(reports, Stated)
  <2>1. \A i \in DOMAIN reports : reports[i].signals \in Seq(Stated)
    BY <1>1, <1>2
  <2>2. \A s \in SignalsOf(reports) : s.strength.value \in Int
    BY <1>4, <1>6
  <2> QED
    BY <2>1, <2>2 DEF WellFormed
<1>11. <<"bearThesis", 0>> \notin DirectedClaims(reports, TRUE)
  <2>1. ClaimsPlaced(reports)
    BY DirectedMeans
  <2> QED
    BY <1>9, <2>1 DEF ClaimsPlaced
<1> QED
  BY <1>8, <1>10, <1>11

\* The page of every recommendation shows both sides, and something against.
THEOREM PagesAreTwoSided == Spec => []PageIsTwoSided
<1>1. ASSUME Answered, Done("dossier")
      PROVE  PageIsTwoSided
  <2> DEFINE reports == case.of.reports
             rec == Synthesize("id", case.of, [at |-> 1, zone |-> "utc"])
  <2>1. case \in Findings /\ result = Published(case.of)
    BY <1>1, InputOfRule DEF Done, Answered, ReturnedWhatItMakes
  <2>2. result.page = Page(Response(rec))
    BY <2>1 DEF Published
  <2>3. case.of.debate.bear = <<"bearThesis", 0>>
    BY <2>1 DEF Findings, ResultOf
  <2>4. Numbered(reports)
    BY <2>1, FindingsAreNumbered
  <2>5. /\ rec.evidence = Evidence(reports, [at |-> 1, zone |-> "utc"])
        /\ rec.counterArguments = CounterArguments(rec.evidence, case.of.debate)
    BY DEF Synthesize
  <2>6. reports \in Seq(AgentReport)
    BY <2>4 DEF Numbered
  <2> HIDE DEF rec, reports
  <2>7. PICK page : page = Page(Response(rec))
    OBVIOUS
  <2>8. /\ Shows(page.supporting, page.against, DirectedClaims(reports, TRUE))
        /\ Shows(page.against, page.supporting, DirectedClaims(reports, FALSE))
        /\ page.against # << >>
    BY <2>3, <2>4, <2>5, <2>6, <2>7, NumberedClaims, PageShowsBothSides
  <2>9. /\ Shows(result.page.supporting, result.page.against, DirectedClaims(case.of.reports, TRUE))
        /\ Shows(result.page.against, result.page.supporting, DirectedClaims(case.of.reports, FALSE))
        /\ result.page.against # << >>
    BY <2>2, <2>7, <2>8 DEF reports
  <2> QED
    BY <2>9 DEF PageIsTwoSided, Shows, DirectedClaims, SignalsOf
<1>2. Answered => PageIsTwoSided
  BY <1>1 DEF PageIsTwoSided
<1> QED
  BY <1>2, AnsweredInvariant, PTL

-----------------------------------------------------------------------------
(***************************************************************************)
(* Synthesis: what it makes of a sound result passes every constructor and *)
(* is read back as it was said.                                            *)
(***************************************************************************)
\* What the pipeline hands to synthesis: every value within its kind's range, and some
\* report that states an assumption.
StrengthOf == [kind : {"Strength"}, value : -2..2]
SignalOf(T) == [name : T, value : T, strength : StrengthOf]
ReportOf(T) == [agent : T, score : [kind : {"Score"}, value : 0..100],
                signals : Seq(SignalOf(T)), assumptions : Seq(T)]
OutlookOfRange == [probability : 0..100, cagr : [kind : {"Percent"}, value : Int],
                   low : [kind : {"Percent"}, value : Int], high : [kind : {"Percent"}, value : Int],
                   confidence : [kind : {"Confidence"}, value : 0..100]]

Sound(of, T) ==
  /\ of.outlook \in OutlookOfRange /\ of.outlook.low.value <= of.outlook.high.value
  /\ of.risk \in [atRisk : [kind : {"Money"}, value : Nat]]
  /\ of.debate.leaning \in -100..100
  /\ of.reports \in Seq(ReportOf(T))
  /\ \E i \in DOMAIN of.reports : of.reports[i].assumptions # << >>

\* Seven accepted values are accepted one by one.
LEMMA SevenAccepted ==
  ASSUME NEW a, NEW b, NEW c, NEW d, NEW e, NEW f, NEW g,
         Accepts(a), Accepts(b), Accepts(c), Accepts(d), Accepts(e), Accepts(f), Accepts(g)
  PROVE  \A i \in DOMAIN <<a, b, c, d, e, f, g>> : Accepts(<<a, b, c, d, e, f, g>>[i])
<1> DEFINE q == <<a, b, c, d, e, f, g>>
<1>1. /\ DOMAIN q = 1..7
      /\ q[1] = a /\ q[2] = b /\ q[3] = c /\ q[4] = d /\ q[5] = e /\ q[6] = f /\ q[7] = g
  OBVIOUS
<1> HIDE DEF q
<1>2. \A i \in 1..7 : i = 1 \/ i = 2 \/ i = 3 \/ i = 4 \/ i = 5 \/ i = 6 \/ i = 7
  OBVIOUS
<1>3. \A i \in DOMAIN q : Accepts(q[i])
  BY <1>1, <1>2
<1> QED
  BY <1>3 DEF q

\* The fields of a synthesised recommendation.
FieldsOf(rec, id, of, now) ==
  /\ rec.id = id /\ rec.outlook = of.outlook /\ rec.risk = of.risk /\ rec.debate = of.debate
  /\ rec.reports = of.reports /\ rec.evidence = Evidence(of.reports, now)
  /\ rec.action = Value("Action", Classify(of.outlook.probability, of.outlook.cagr.value))
  /\ rec.conviction = Value("Conviction", Conviction(of.outlook.confidence.value))
  /\ rec.confidence = of.outlook.confidence
  /\ rec.assumptions = Dedupe(FlattenSeq([i \in DOMAIN of.reports |-> of.reports[i].assumptions]))
  /\ rec.counterArguments = CounterArguments(rec.evidence, of.debate)
  /\ rec.generatedAt = now
  /\ rec = [id |-> rec.id, outlook |-> rec.outlook, risk |-> rec.risk, debate |-> rec.debate,
            reports |-> rec.reports, evidence |-> rec.evidence, action |-> rec.action,
            conviction |-> rec.conviction, confidence |-> rec.confidence,
            assumptions |-> rec.assumptions, counterArguments |-> rec.counterArguments,
            generatedAt |-> rec.generatedAt]

\* Synthesis fills the fields with these values and has no other.
LEMMA SynthesisFields ==
  ASSUME NEW id, NEW of, NEW now, NEW rec, rec = Synthesize(id, of, now)
  PROVE  FieldsOf(rec, id, of, now)
BY DEF Synthesize, FieldsOf

\* The recommendation states an assumption if some report does.
LEMMA AssumptionsAreKept ==
  ASSUME NEW T, NEW reports \in Seq(ReportOf(T)), NEW k \in DOMAIN reports,
         reports[k].assumptions # << >>
  PROVE  Dedupe(FlattenSeq([i \in DOMAIN reports |-> reports[i].assumptions])) # << >>
<1> DEFINE lists == [i \in DOMAIN reports |-> reports[i].assumptions]
           V == Seq(T)
<1>1. PICK n \in Nat : DOMAIN reports = 1..n /\ \A i \in 1..n : reports[i].assumptions \in V
  <2>1. \A r \in ReportOf(T) : r.assumptions \in V
    BY DEF ReportOf
  <2> HIDE DEF V
  <2> QED
    BY <2>1
<1>2. lists \in Seq(V) /\ DOMAIN lists = 1..n /\ lists[k] = reports[k].assumptions
  <2> HIDE DEF V
  <2>1. lists \in [1..n -> V] /\ lists[k] = reports[k].assumptions
    BY <1>1
  <2> HIDE DEF lists
  <2> QED
    BY <2>1
<1> HIDE DEF lists
<1>3. /\ FlattenSeq(lists) \in Seq(T)
      /\ \A x : x \in ToSet(FlattenSeq(lists)) <=> \E i \in DOMAIN lists : x \in ToSet(lists[i])
  BY <1>2, FlattenKeeps
<1>4. \E x : x \in ToSet(lists[k])
  BY <1>1, <1>2, NonemptyToSet
<1>5. /\ Dedupe(FlattenSeq(lists)) \in Seq(T)
      /\ \A x : x \in ToSet(Dedupe(FlattenSeq(lists))) <=> x \in ToSet(FlattenSeq(lists))
  BY <1>3, DedupeKeepsEveryText
<1>6. Dedupe(FlattenSeq(lists)) # << >>
  BY <1>1, <1>2, <1>3, <1>4, <1>5, NonemptyToSet
<1> QED
  BY <1>6 DEF lists

\* Whatever sound result the pipeline hands over, no constructor refuses the
\* recommendation made from it.
THEOREM SynthesisIsValid ==
  ASSUME NEW T, NEW id, NEW of, Sound(of, T), NEW now, NEW rec, rec = Synthesize(id, of, now)
  PROVE  Valid(rec)
<1>0. FieldsOf(rec, id, of, now)
  BY SynthesisFields
<1>1. Accepts(rec.action) /\ Accepts(rec.conviction)
  <2>1. Classify(of.outlook.probability, of.outlook.cagr.value) \in Actions
    BY DEF Classify, Actions
  <2>2. Conviction(of.outlook.confidence.value) \in {"LOW", "MODERATE", "HIGH"}
    BY DEF Conviction
  <2> QED
    BY <1>0, <2>1, <2>2 DEF FieldsOf, Accepts, Value
<1>2. /\ Accepts(rec.confidence) /\ Accepts(rec.outlook.cagr) /\ Accepts(rec.outlook.low)
      /\ Accepts(rec.outlook.high) /\ Accepts(rec.risk.atRisk)
  <2>1. \A x \in [kind : {"Percent"}, value : Int] : Accepts(x)
    BY DEF Accepts
  <2>2. \A x \in [kind : {"Confidence"}, value : 0..100] : Accepts(x)
    BY DEF Accepts
  <2>3. \A x \in [kind : {"Money"}, value : Nat] : Accepts(x)
    <3>1. \A x \in [kind : {"Money"}, value : Nat] : x.kind = "Money" /\ x.value >= 0
      OBVIOUS
    <3> QED
      BY <3>1 DEF Accepts
  <2>4. /\ rec.confidence \in [kind : {"Confidence"}, value : 0..100]
        /\ rec.outlook.cagr \in [kind : {"Percent"}, value : Int]
        /\ rec.outlook.low \in [kind : {"Percent"}, value : Int]
        /\ rec.outlook.high \in [kind : {"Percent"}, value : Int]
        /\ rec.risk.atRisk \in [kind : {"Money"}, value : Nat]
    BY <1>0 DEF FieldsOf, Sound, OutlookOfRange
  <2> QED
    BY <2>1, <2>2, <2>3, <2>4
<1>3. /\ rec.outlook.probability \in 0..100 /\ rec.outlook.low.value <= rec.outlook.high.value
      /\ rec.debate.leaning \in -100..100
  BY <1>0 DEF FieldsOf, Sound, OutlookOfRange
<1>4. of.reports \in Seq(ReportOf(T)) /\ rec.reports = of.reports
  BY <1>0 DEF FieldsOf, Sound
<1>5. ASSUME NEW i \in DOMAIN rec.reports
      PROVE  /\ Accepts(rec.reports[i].score)
             /\ \A n \in DOMAIN rec.reports[i].signals : Accepts(rec.reports[i].signals[n].strength)
  <2>1. PICK r \in ReportOf(T) : r = rec.reports[i]
    BY <1>4
  <2>2. Accepts(r.score)
    BY DEF ReportOf, Accepts
  <2>3. r.signals \in Seq(SignalOf(T))
    BY DEF ReportOf
  <2>4. \A n \in DOMAIN r.signals : r.signals[n] \in SignalOf(T)
    BY <2>3
  <2>5. \A s \in SignalOf(T) : Accepts(s.strength)
    BY DEF SignalOf, StrengthOf, Accepts
  <2> QED
    BY <2>1, <2>2, <2>4, <2>5
<1>6. rec.evidence # << >>
  <2>1. \A i \in DOMAIN of.reports : of.reports[i].signals \in Seq(SignalOf(T))
    <3>1. \A r \in ReportOf(T) : r.signals \in Seq(SignalOf(T))
      BY DEF ReportOf
    <3> QED
      BY <1>4, <3>1
  <2>2. Evidence(of.reports, now) # << >>
    BY <1>4, <2>1, EvidenceIsWhatIsSaid
  <2> QED
    BY <1>0, <2>2 DEF FieldsOf
<1>7. rec.assumptions # << >>
  <2>1. PICK k \in DOMAIN of.reports : of.reports[k].assumptions # << >>
    BY DEF Sound
  <2>2. Dedupe(FlattenSeq([i \in DOMAIN of.reports |-> of.reports[i].assumptions])) # << >>
    BY <1>4, <2>1, AssumptionsAreKept
  <2> QED
    BY <1>0, <2>2 DEF FieldsOf
<1> DEFINE boxed == <<rec.action, rec.conviction, rec.confidence, rec.outlook.cagr,
                      rec.outlook.low, rec.outlook.high, rec.risk.atRisk>>
<1>8. \A i \in DOMAIN boxed : Accepts(boxed[i])
  BY <1>1, <1>2, SevenAccepted
<1> HIDE DEF boxed
<1>9. /\ rec.assumptions # << >> /\ rec.evidence # << >>
      /\ \A i \in DOMAIN rec.reports :
           /\ Accepts(rec.reports[i].score)
           /\ \A n \in DOMAIN rec.reports[i].signals : Accepts(rec.reports[i].signals[n].strength)
  BY <1>5, <1>6, <1>7
<1> QED
  BY <1>3, <1>8, <1>9, Zenon DEF Valid, boxed

\* A sound result gives a recommendation of the kind that is stored.
LEMMA SynthesisIsARecommendation ==
  ASSUME NEW T, NEW id, NEW of, Sound(of, T), NEW at, NEW zone, NEW rec,
         rec = Synthesize(id, of, [at |-> at, zone |-> zone])
  PROVE  \E V : rec \in Recorded(V)
<1> DEFINE now == [at |-> at, zone |-> zone]
           V == T \cup Int \cup (T \X T) \cup
                {id, at, zone, of.debate, rec.assumptions, rec.counterArguments, Balanced, "synthesis",
                 rec.action.value, rec.conviction.value} \cup Seq(T)
<1>1. /\ T \subseteq V /\ Int \subseteq V /\ (T \X T) \subseteq V /\ Seq(T) \subseteq V
      /\ id \in V /\ at \in V /\ zone \in V /\ of.debate \in V /\ rec.assumptions \in V
      /\ rec.counterArguments \in V /\ Balanced \in V /\ "synthesis" \in V
      /\ rec.action.value \in V /\ rec.conviction.value \in V
  OBVIOUS
<1>2. FieldsOf(rec, id, of, now)
  BY SynthesisFields
<1>3. now \in Timed(V)
  BY <1>1 DEF Timed
<1> HIDE DEF V, now
<1>a. 0..100 \subseteq V
  <2>1. 0..100 \subseteq Int
    OBVIOUS
  <2> QED
    BY <1>1, <2>1, Zenon
<1>4. rec.outlook \in Outlooked(V) /\ rec.risk \in [atRisk : Boxed("Money", V)] /\ rec.confidence \in Boxed("Confidence", V)
  <2>1. OutlookOfRange \subseteq Outlooked(V)
    <3>1. /\ [kind : {"Percent"}, value : Int] \subseteq Boxed("Percent", V)
          /\ [kind : {"Confidence"}, value : 0..100] \subseteq Boxed("Confidence", V)
      BY <1>1, <1>a DEF Boxed
    <3> QED
      BY <1>a, <3>1 DEF OutlookOfRange, Outlooked
  <2>2. [atRisk : [kind : {"Money"}, value : Nat]] \subseteq [atRisk : Boxed("Money", V)]
    <3>1. [kind : {"Money"}, value : Nat] \subseteq Boxed("Money", V)
      BY <1>1 DEF Boxed
    <3> QED
      BY <3>1
  <2>3. \A o \in Outlooked(V) : o.confidence \in Boxed("Confidence", V)
    BY DEF Outlooked
  <2>4. of.outlook \in OutlookOfRange /\ of.risk \in [atRisk : [kind : {"Money"}, value : Nat]]
    BY DEF Sound
  <2>5. rec.outlook = of.outlook /\ rec.risk = of.risk /\ rec.confidence = of.outlook.confidence
    BY <1>2 DEF FieldsOf
  <2> QED
    BY <2>1, <2>2, <2>3, <2>4, <2>5
<1>5. SignalOf(T) \subseteq Signalled(V)
  BY <1>1 DEF SignalOf, StrengthOf, Signalled, Boxed
<1>6. Seq(SignalOf(T)) \subseteq Seq(Signalled(V))
  BY <1>5
<1>7. ReportOf(T) \subseteq Reported(V)
  <2> SUFFICES ASSUME NEW r \in ReportOf(T) PROVE r \in Reported(V)
    OBVIOUS
  <2>1. /\ r = [agent |-> r.agent, score |-> r.score, signals |-> r.signals,
                assumptions |-> r.assumptions]
        /\ r.agent \in T /\ r.score \in [kind : {"Score"}, value : 0..100]
        /\ r.signals \in Seq(SignalOf(T)) /\ r.assumptions \in Seq(T)
    BY DEF ReportOf
  <2>2. [kind : {"Score"}, value : 0..100] \subseteq Boxed("Score", V)
    BY <1>a DEF Boxed
  <2>3. r.agent \in V /\ r.score \in Boxed("Score", V) /\ r.signals \in Seq(Signalled(V))
        /\ r.assumptions \in V
    BY <1>1, <1>6, <2>1, <2>2
  <2> QED
    BY <2>1, <2>3 DEF Reported
<1>8. of.reports \in Seq(ReportOf(T)) /\ rec.reports = of.reports
  BY <1>2 DEF FieldsOf, Sound
<1>9. rec.reports \in Seq(Reported(V))
  BY <1>7, <1>8
<1>10. \A r \in ReportOf(T) : r.signals \in Seq(SignalOf(T)) /\ r.agent \in V
  BY <1>1 DEF ReportOf
<1>11. CitedSet(of.reports, now) \cup {EvenEvidence(now)} \subseteq Cited(V)
  <2>1. EvenEvidence(now) \in Cited(V)
    BY <1>1, <1>3 DEF EvenEvidence, Cited
  <2>2. ASSUME NEW r \in ReportOf(T), NEW s \in SignalOf(T)
        PROVE  Cites(r, s, now) \in Cited(V)
    <3>1. Claim(s) \in V /\ s.strength.value \in V
      BY <1>1 DEF Claim, SignalOf, StrengthOf
    <3> QED
      BY <1>3, <1>10, <3>1 DEF Cites, Cited
  <2>3. \A i \in DOMAIN of.reports : /\ of.reports[i] \in ReportOf(T)
                                     /\ \A s \in ToSet(of.reports[i].signals) : s \in SignalOf(T)
    BY <1>8, <1>10 DEF ToSet
  <2>4. \A e \in CitedSet(of.reports, now) : e \in Cited(V)
    BY <2>2, <2>3 DEF CitedSet
  <2> QED
    BY <2>1, <2>4
<1>12. rec.evidence \in Seq(Cited(V))
  <2> DEFINE E == CitedSet(of.reports, now) \cup {EvenEvidence(now)}
  <2>1. \A i \in DOMAIN of.reports : of.reports[i].signals \in Seq(SignalOf(T))
    BY <1>8, <1>10
  <2>2. Evidence(of.reports, now) \in Seq(E)
    BY <1>8, <2>1, EvidenceIsWhatIsSaid
  <2>3. E \subseteq Cited(V)
    BY <1>11
  <2> HIDE DEF E
  <2>4. Evidence(of.reports, now) \in Seq(Cited(V))
    BY <2>2, <2>3
  <2> QED
    BY <1>2, <2>4 DEF FieldsOf
<1>13. rec.action \in Boxed("Action", V) /\ rec.conviction \in Boxed("Conviction", V)
  BY <1>1, <1>2 DEF FieldsOf, Boxed, Value
<1>14. /\ rec.id \in V /\ rec.debate \in V /\ rec.assumptions \in V /\ rec.counterArguments \in V
       /\ rec.generatedAt \in Timed(V)
  BY <1>1, <1>2, <1>3 DEF FieldsOf
<1>15. rec \in Recorded(V)
  <2>1. rec = [id |-> rec.id, outlook |-> rec.outlook, risk |-> rec.risk, debate |-> rec.debate,
               reports |-> rec.reports, evidence |-> rec.evidence, action |-> rec.action,
               conviction |-> rec.conviction, confidence |-> rec.confidence,
               assumptions |-> rec.assumptions, counterArguments |-> rec.counterArguments,
               generatedAt |-> rec.generatedAt]
    BY <1>2 DEF FieldsOf
  <2> QED
    BY <1>4, <1>9, <1>12, <1>13, <1>14, <2>1 DEF Recorded
<1> QED
  BY <1>15

\* What a sound result makes is accepted by every constructor, read back as it was
\* stored, and agrees with its audit record after that.
THEOREM WhatIsStoredIsWhatWasSaid ==
  ASSUME NEW T, NEW id, NEW of, Sound(of, T), NEW at, NEW zone, NEW rec,
         rec = Synthesize(id, of, [at |-> at, zone |-> zone])
  PROVE  /\ Valid(rec)
         /\ FromDict(ToDict(rec)) = rec
         /\ AuditRecord(FromDict(ToDict(rec))) = AuditRecord(rec)
<1>1. Valid(rec)
  BY SynthesisIsValid
<1>2. PICK V : rec \in Recorded(V)
  BY SynthesisIsARecommendation
<1>3. FromDict(ToDict(rec)) = rec
  BY <1>2, ReadsBack
<1> QED
  BY <1>1, <1>3

\* The inputs are results that the pipeline may hand over.
LEMMA FindingsAreSound ==
  ASSUME NEW c \in Findings
  PROVE  Sound(c.of, {"NEWS", "RISK"} \cup Nat)
<1> DEFINE T == {"NEWS", "RISK"} \cup Nat
<1>1. Numbered(c.of.reports)
  BY FindingsAreNumbered
<1>2. \/ \E o \in Outlooks : c.of = ResultOf(o, <<ReportBy("RISK", << >>)>>)
      \/ \E n \in Signals("NEWS"), r \in Signals("RISK") :
           c.of = ResultOf(OutlookOf(50, 0, 50), <<ReportBy("NEWS", n), ReportBy("RISK", r)>>)
  BY DEF Findings
<1>3. \E o \in Outlooks \cup {OutlookOf(50, 0, 50)} : \E reports : c.of = ResultOf(o, reports)
  BY <1>2
<1>a. PICK o \in Outlooks \cup {OutlookOf(50, 0, 50)} : \E reports : c.of = ResultOf(o, reports)
  BY <1>3
<1>4. PICK reports : c.of = ResultOf(o, reports)
  BY <1>a
<1>5. /\ c.of.outlook = o /\ c.of.risk = [atRisk |-> Value("Money", 0)] /\ c.of.debate.leaning = 0
  BY <1>4 DEF ResultOf
<1>6. PICK p \in 0..100, cagr \in -1..1, confidence \in 0..100 : o = OutlookOf(p, cagr, confidence)
  BY DEF Outlooks, Probabilities
<1>7. o \in OutlookOfRange /\ o.low.value <= o.high.value
  BY <1>6 DEF OutlookOf, OutlookOfRange, Value
<1>8. c.of.risk \in [atRisk : [kind : {"Money"}, value : Nat]]
  BY <1>5 DEF Value
<1>9. Stated \subseteq SignalOf(T)
  BY DEF Stated, SignalOf, StrengthOf
<1>10. AgentReport \subseteq ReportOf(T)
  <2>1. Seq(Stated) \subseteq Seq(SignalOf(T)) /\ {"NEWS", "RISK"} \subseteq T
    BY <1>9
  <2> HIDE DEF T
  <2>2. Seq({"NEWS", "RISK"}) \subseteq Seq(T)
    BY <2>1
  <2> QED
    BY <2>1, <2>2 DEF AgentReport, ReportOf
<1> HIDE DEF T
<1>11. c.of.reports \in Seq(ReportOf(T))
  BY <1>1, <1>10 DEF Numbered
<1>12. \E i \in DOMAIN c.of.reports : c.of.reports[i].assumptions # << >>
  <2>1. PICK n \in Nat : DOMAIN c.of.reports = 1..n /\ n # 0
    <3>1. c.of.reports \in Seq(AgentReport) /\ c.of.reports # << >>
      BY <1>1 DEF Numbered
    <3>2. PICK n \in Nat : n = Len(c.of.reports) /\ DOMAIN c.of.reports = 1..n
      BY <3>1
    <3> QED
      BY <3>1, <3>2
  <2>2. 1 \in DOMAIN c.of.reports
    BY <2>1
  <2>3. PICK a : c.of.reports[1].assumptions = <<a>>
    BY <1>1, <2>2 DEF Numbered
  <2>4. <<a>> # << >>
    OBVIOUS
  <2> QED
    BY <2>2, <2>3, <2>4
<1>13. Sound(c.of, T)
  BY <1>5, <1>7, <1>8, <1>11, <1>12 DEF Sound
<1> QED
  BY <1>13 DEF T

\* Every recommendation is stored and read back as it was said, and passes its
\* constructors.
THEOREM StoresReadBack == Spec => []StoredReadsBack
<1>1. ASSUME Answered, Done("dossier")
      PROVE  StoredReadsBack
  <2> DEFINE rec == Synthesize("id", case.of, [at |-> 1, zone |-> "utc"])
  <2>1. case \in Findings /\ result = Published(case.of)
    BY <1>1, InputOfRule DEF Done, Answered, ReturnedWhatItMakes
  <2>2. result.rec = rec /\ result.reread = FromDict(ToDict(rec)) /\ result.audit = AuditRecord(rec)
    BY <2>1 DEF Published
  <2>3. Sound(case.of, {"NEWS", "RISK"} \cup Nat)
    BY <2>1, FindingsAreSound
  <2>4. PICK r : r = rec
    OBVIOUS
  <2>5. r = Synthesize("id", case.of, [at |-> 1, zone |-> "utc"])
    BY <2>4
  <2> HIDE DEF rec
  <2>6. Valid(r) /\ FromDict(ToDict(r)) = r /\ AuditRecord(FromDict(ToDict(r))) = AuditRecord(r)
    BY <2>3, <2>5, WhatIsStoredIsWhatWasSaid
  <2> QED
    BY <2>2, <2>4, <2>6 DEF StoredReadsBack
<1>2. Answered => StoredReadsBack
  BY <1>1 DEF StoredReadsBack
<1> QED
  BY <1>2, AnsweredInvariant, PTL

=============================================================================

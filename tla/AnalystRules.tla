---------------------------- MODULE AnalystRules ----------------------------
(***************************************************************************)
(* The rules of the analysts that have boundaries: position sizing, fit in *)
(* the book, max pain, the walk-forward backtest, the memory prior, news   *)
(* sentiment.                                                              *)
(*                                                                         *)
(* Numbers are exact: a ratio is a numerator and a denominator, compared   *)
(* with thresholds given in percent.  The code computes in floating point  *)
(* and may differ where a ratio meets a threshold to the last bit.         *)
(* A signal's strength is -2 (STRONG_BEARISH) to 2 (STRONG_BULLISH).       *)
(***************************************************************************)
EXTENDS Integers, Sequences, SequencesExt, FiniteSetsExt

CONSTANTS SmaPeriod,     \* days of the trend rule's average (20 in the code)
          Horizon,       \* days a backtested trade is held (5)
          RecentWindow   \* headlines the recent tilt looks at (3)

ASSUME WindowAssumption ==
  SmaPeriod \in Nat \ {0} /\ Horizon \in Nat \ {0} /\ RecentWindow \in Nat \ {0}

AtLeast(x, y) == IF x >= y THEN x ELSE y

\* How many of four ascending thresholds (percent) num/den reaches, from -2 to 2.
Grade(num, den, thresholds) ==
  Cardinality({i \in 1..4 : 100 * num >= thresholds[i] * den}) - 2

-----------------------------------------------------------------------------
\* RiskAgent.  Prices and capital in ticks of 0.01; atr = 0 stands for "not
\* enough candles", then 2% of the price, at least a tick.
StopDistance(entry, atr) ==
  2 * (IF atr = 0 THEN AtLeast(entry \div 50, 1) ELSE atr)

\* Bug: capital is not checked once the quantity is known.
UncappedQuantity(entry, perShare, capital) == capital \div (100 * perShare)

\* 1% of the capital at risk, but no position larger than the capital.
Quantity(entry, perShare, capital) ==
  LET budgeted == capital \div (100 * perShare)
  IN IF budgeted * entry > capital THEN capital \div entry ELSE budgeted

Plan(entry, atr, capital) ==
  LET stop     == AtLeast(entry - StopDistance(entry, atr), 1)
      perShare == AtLeast(entry - stop, 1)
      quantity == Quantity(entry, perShare, capital)
  IN [entry |-> entry, stop |-> stop, target |-> entry + 2 * perShare,
      quantity |-> quantity, atRisk |-> quantity * perShare,
      value |-> quantity * entry]

-----------------------------------------------------------------------------
\* PortfolioAgent.  A holding is [symbol, value]; value is |quantity| * price.

\* An excerpt of the sector map; unmapped symbols are all "OTHER".
SectorOf(symbol) ==
  CASE symbol \in {"TCS", "INFY"} -> "IT"
    [] symbol \in {"SBIN"} -> "BANK"
    [] OTHER -> "OTHER"

\* The dictionary of values: keyed by symbol, the last holding of a symbol wins.
BookValues(holdings) ==
  [s \in {holdings[i].symbol : i \in DOMAIN holdings} |->
     holdings[Max({i \in DOMAIN holdings : holdings[i].symbol = s})].value]

ValueOf(book, symbols) == SumFunctionOnSet(book, symbols \cap DOMAIN book)

\* Bug: what is held of the candidate itself is left out of its sector.
CrowdOfOthers(book, candidate) ==
  {s \in DOMAIN book \ {candidate} : SectorOf(s) = SectorOf(candidate)}

Crowd(book, candidate) == {s \in DOMAIN book : SectorOf(s) = SectorOf(candidate)}

PositionFit(own, crowd, total) ==
  CASE 100 * own >= 15 * total \/ 100 * crowd >= 50 * total -> -1
    [] own = 0 /\ 100 * crowd < 20 * total -> 1
    [] OTHER -> 0

JudgeBook(holdings, candidate) ==
  IF holdings = << >> THEN [fit |-> 1]
  ELSE
    LET book   == BookValues(holdings)
        total  == AtLeast(ValueOf(book, DOMAIN book), 1)   \* weights are 0 if the book is worth 0
        own    == ValueOf(book, {candidate})
        crowd  == ValueOf(book, Crowd(book, candidate))
        square == SumFunction([s \in DOMAIN book |-> book[s] * book[s]])
    IN [concentration |-> - Grade(square, total * total, <<25, 40, 60, 80>>),
        exposure      |-> - Grade(crowd, total, <<15, 30, 45, 60>>),
        fit           |-> PositionFit(own, crowd, total)]

-----------------------------------------------------------------------------
\* OptionsAgent.  A side of a chain maps strikes to [oi, iv], iv in points.
Strikes(chain) == DOMAIN chain.calls \cup DOMAIN chain.puts

OpenInterest(side) == SumFunction([k \in DOMAIN side |-> side[k].oi])

\* Bug: puts pay above their strike, as calls do.
PainOfCallsOnly(chain, settle) ==
  SumFunction([k \in DOMAIN chain.calls |-> chain.calls[k].oi * AtLeast(settle - k, 0)])
  + SumFunction([k \in DOMAIN chain.puts |-> chain.puts[k].oi * AtLeast(settle - k, 0)])

\* What option buyers are owed if the price settles there.
PainAt(chain, settle) ==
  SumFunction([k \in DOMAIN chain.calls |-> chain.calls[k].oi * AtLeast(settle - k, 0)])
  + SumFunction([k \in DOMAIN chain.puts |-> chain.puts[k].oi * AtLeast(k - settle, 0)])

\* The lowest of the strikes with the least pain.
MaxPain(chain) ==
  Min({s \in Strikes(chain) : \A r \in Strikes(chain) : PainAt(chain, s) <= PainAt(chain, r)})

Gap(x, y) == AtLeast(x - y, y - x)

Nearest(strikes, x) == {k \in strikes : \A r \in strikes : Gap(k, x) <= Gap(r, x)}

\* The volatility quoted nearest to a strike, 0 if the side quotes none; the
\* rows come in ascending order, so the lower of two equally near strikes.
NearestIv(side, strike) ==
  LET quoted == {k \in DOMAIN side : side[k].iv > 0}
  IN IF quoted = {} THEN 0 ELSE side[Min(Nearest(quoted, strike))].iv

\* atm is a strike nearest to spot: which of two, the order of a set decides.
JudgeChain(chain, atm) ==
  LET callOi == OpenInterest(chain.calls)
      putOi  == OpenInterest(chain.puts)
  IN [maxPain |-> MaxPain(chain),
      pcr     |-> IF callOi = 0 THEN Grade(1, 1, <<60, 80, 110, 140>>)
                  ELSE Grade(putOi, callOi, <<60, 80, 110, 140>>),
      pull    |-> Grade(MaxPain(chain) - chain.spot, chain.spot, <<-3, -1, 1, 3>>),
      skew    |-> - Grade(NearestIv(chain.puts, atm) - NearestIv(chain.calls, atm), 100,
                          <<-4, -1, 1, 4>>)]

-----------------------------------------------------------------------------
\* LearningAgent._backtest over closes[1 .. n], oldest first.

\* Bug: the average takes in the day after the decision.
AbovePeeking(closes, d) ==
  closes[d] * SmaPeriod > SumFunctionOnSet(closes, (d - SmaPeriod + 2)..(d + 1))

\* Day d closes above the average of the SmaPeriod days that end with it.
Above(closes, d) ==
  closes[d] * SmaPeriod > SumFunctionOnSet(closes, (d - SmaPeriod + 1)..d)

\* The days on which the rule buys: from the first with a full average before
\* it to the last whose holding period has ended.
Decisions(closes) ==
  {d \in (SmaPeriod + 1)..(Len(closes) - Horizon) : Above(closes, d)}

\* The trades, each under the day it is entered.
Backtest(closes) ==
  [d \in Decisions(closes) |-> [entry |-> closes[d], exit |-> closes[d + Horizon]]]

-----------------------------------------------------------------------------
\* MemoryAgent.  Stances in halves, the most recent look first.
Stance(action) ==
  CASE action = "BUY" -> 2 [] action = "ACCUMULATE" -> 1 [] action = "HOLD" -> 0
    [] action = "REDUCE" -> -1 [] action \in {"SELL", "AVOID"} -> -2

Power(base, n) == LET power[k \in 0..n] == IF k = 0 THEN 1 ELSE base * power[k - 1] IN power[n]

\* Bug: the oldest look weighs most.
WeightFromOldest(i, n) == Power(4, n - i) * Power(5, i - 1)

\* 0.8^(i-1), scaled by 5^(n-1).
Weight(i, n) == Power(4, i - 1) * Power(5, n - i)

\* The recency-weighted stance, as numerator and denominator.
Prior(actions) ==
  LET n == Len(actions)
  IN [num |-> SumFunction([i \in 1..n |-> Weight(i, n) * Stance(actions[i])]),
      den |-> 2 * SumFunction([i \in 1..n |-> Weight(i, n)])]

\* Consistency is always NEUTRAL, so PriorStance is the report's only direction.
PriorStance(actions) ==
  IF actions = << >> THEN 0
  ELSE Grade(Prior(actions).num, Prior(actions).den, <<-50, -15, 15, 50>>)

-----------------------------------------------------------------------------
\* NewsAgent.  An item is [sentiment, reliability, at]: sentiment in halves,
\* reliability in tenths.

\* Bug: a sentiment of exactly -0.15 or -0.5 is taken for the milder one.
LenientTone(num, den) ==
  Cardinality({t \in {-50, -15, 15, 50} : 100 * num >= t * den}) - 2

Tone(num, den) ==
  Cardinality({t \in {15, 50} : 100 * num >= t * den})
  - Cardinality({t \in {-15, -50} : 100 * num <= t * den})

\* sorted(..., reverse=True) is stable: of items of one date the earlier in the
\* feed comes first.
Latest(items) ==
  {i \in DOMAIN items :
     Cardinality({j \in DOMAIN items :
                    \/ items[j].at > items[i].at
                    \/ items[j].at = items[i].at /\ j < i}) < RecentWindow}

JudgeNews(items) ==
  LET reliability == SumFunction([i \in DOMAIN items |-> items[i].reliability])
      weighted == SumFunction([i \in DOMAIN items |-> items[i].sentiment * items[i].reliability])
      recent   == SumFunctionOnSet([i \in DOMAIN items |-> items[i].sentiment], Latest(items))
  IN IF items = << >> THEN [coverage |-> 0]
     ELSE [net  |-> IF reliability = 0 THEN 0 ELSE Tone(weighted, 2 * reliability),
           tilt |-> Tone(recent, 2 * Cardinality(Latest(items))),
           coverage |-> 0]

=============================================================================

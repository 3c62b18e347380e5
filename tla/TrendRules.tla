----------------------------- MODULE TrendRules -----------------------------
(***************************************************************************)
(* The factual reads: which days a feed is asked for and which it hands    *)
(* on, the direction of one instrument's week, and the week of many        *)
(* indices, of which some may fail.                                        *)
(*                                                                         *)
(* Days are numbers, day 0 a Monday.  An adapter is built once, when the   *)
(* process starts, and may be asked days later.  A feed's answer on an     *)
(* index is [raised, days, closes]: unless its call raises, it has a row   *)
(* for each of the days, and a close in some of the rows.                  *)
(***************************************************************************)
EXTENDS Lists, FiniteSetsExt

\* Markets trade on weekdays.
Weekday(day) == day % 7 < 5

\* Bug: no allowance for holidays beyond the stretch for weekends.
WindowForWeekends(today, sessions) == (today - (16 * sessions) \div 10)..today

\* The calendar days asked for to get that many sessions.
Window(today, sessions) == (today - ((16 * sessions) \div 10 + 10))..today

\* The day an adapter takes for today: that of its construction.
Today(built, asked) == built

\* The days of the candles handed on: the last so many that traded.
Candles(today, sessions, holidays) ==
  LET span == Max({1, sessions})
      bars == {day \in Window(today, span) : Weekday(day) /\ day \notin holidays}
  IN {day \in bars : Cardinality({later \in bars : later > day}) < span}

\* Up or down by more than 0.5%, else flat; flat as well from a first close of 0.
Direction(closes) ==
  LET first  == Head(closes)
      change == 200 * (Last(closes) - first)
  IN CASE first # 0 /\ change > first -> "UP"
       [] first # 0 /\ change < -first -> "DOWN"
       [] OTHER -> "FLAT"

-----------------------------------------------------------------------------
\* An excerpt of the table of indices, in its order.
Indices == <<"nifty50", "banknifty", "niftyit">>

GroupOf(index) == IF index = "niftyit" THEN "sector" ELSE "broad"

IndicesFor(group) == Only(Indices, {i \in ToSet(Indices) : group \in {"all", GroupOf(i)}})

\* The last n members of a list, list[-n:].
Ending(list, n) == SubSeq(list, Len(list) - Min({n, Len(list)}) + 1, Len(list))

\* The places of the rows that have a close.
Quoted(answer) == Only([i \in DOMAIN answer.days |-> i], DOMAIN answer.closes)

\* Bug: the gaps are taken out of the closes before they meet their days.
BarsShifted(answer, sessions) ==
  LET rows == Quoted(answer)
  IN Ending([k \in DOMAIN rows |-> [on |-> answer.days[k], close |-> answer.closes[rows[k]]]],
            Max({1, sessions}))

\* The candles made of a feed's rows: a gap row is skipped, a candle has the day
\* and the close of its row, and the last so many are handed on.
Bars(answer, sessions) ==
  LET rows == Quoted(answer)
  IN Ending([k \in DOMAIN rows |-> [on |-> answer.days[rows[k]], close |-> answer.closes[rows[k]]]],
            Max({1, sessions}))

\* GetWeeklyTrend raises if its feed does or has no candles.
Fails(answer, sessions) == answer.raised \/ Bars(answer, sessions) = << >>

\* What is said of an index from what its feed answered.
Trend(index, answer, sessions) ==
  LET bars == Bars(answer, sessions)
  IN [index     |-> index,
      sessions  |-> bars,
      direction |-> Direction([k \in DOMAIN bars |-> bars[k].close]),
      asOf      |-> Last(bars).on]

\* Bug: the first failure ends the loop.
TrendsUntilFailure(group, answers, sessions) ==
  LET asked == IndicesFor(group)
      done  == {n \in DOMAIN asked : \A m \in 1..n : ~ Fails(answers[asked[m]], sessions)}
      kept  == SubSeq(asked, 1, Cardinality(done))
  IN [trends |-> [n \in DOMAIN kept |-> Trend(kept[n], answers[kept[n]], sessions)],
      errors |-> SubSeq(asked, Cardinality(done) + 1, Len(asked))]

\* An index that fails is listed under errors; the others are not affected.
IndexTrends(group, answers, sessions) ==
  LET failed == {i \in ToSet(Indices) : Fails(answers[i], sessions)}
      kept   == Only(IndicesFor(group), ToSet(Indices) \ failed)
  IN [trends |-> [n \in DOMAIN kept |-> Trend(kept[n], answers[kept[n]], sessions)],
      errors |-> Only(IndicesFor(group), failed)]
=============================================================================

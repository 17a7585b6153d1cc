---------------------------- MODULE MarketInputs -----------------------------
(***************************************************************************)
(* The inputs of a research replay: bars built from trades and adjusted for *)
(* corporate actions (core/market-data/src/lib.rs, apps/cli/src/            *)
(* build_bars.rs), headlines with the sentiment derived from them           *)
(* (core/news/src), reference data and foreign exchange (ReferenceData),    *)
(* and the replay that reads them (core/control-plane/src/lib.rs).          *)
(*                                                                         *)
(* The operator comes to know rows one by one and asks questions of         *)
(* documents that hold them in any order, or one of them twice.  Instants   *)
(* are seconds; those of headlines are half seconds.  Instruments, sources  *)
(* and identities are numbers, for the code orders them.                    *)
(***************************************************************************)
EXTENDS ReferenceData, FiniteSetsExt

CONSTANTS Studies,   \* what one behaviour is about: [rows, questions, asks, bars]
          BarSeconds,
          Unit       \* the decimal 1, as a count of the smallest one

VARIABLES known,     \* the rows known so far
          answers,   \* history: questions with the rows they were asked of and the answers
          replay,    \* the replay: what is left of feed and bars, clock, what was shown, log
          study

inputVars == <<known, answers, replay, study>>

-----------------------------------------------------------------------------
(* Trades and bars.                                                         *)

Bucket(t) == (t.at \div BarSeconds) * BarSeconds
Ambiguous(t, u) == t.id = u.id \/ (t.instrument = u.instrument /\ t.sequence = u.sequence)
TradesHold(trades) ==
    /\ trades # <<>> /\ \A t \in Range(trades) : t.price > 0 /\ t.quantity > 0
    /\ ~AnyTwo(trades, Ambiguous)

LessIn(a, b) == \E n \in DOMAIN a : a[n] < b[n] /\ \A m \in 1..(n - 1) : a[m] = b[m]
InTradeOrder(t, u) == LessIn(<<t.at, t.sequence, t.id>>, <<u.at, u.sequence, u.id>>)

BarOf(trades) ==
    LET ordered == InOrder(trades, InTradeOrder)
        prices == {t.price : t \in trades}
        volume(total, t) == total + t.quantity
    IN  [at |-> Bucket(Head(ordered)), instrument |-> Head(ordered).instrument,
         open |-> Head(ordered).price, high |-> Max(prices), low |-> Min(prices),
         close |-> Last(ordered).price, volume |-> FoldLeft(volume, 0, ordered)]

KeyOf(bar) == <<bar.at, bar.instrument>>

(* BarBuilder::build.                                                       *)
BarsFrom(trades) ==
    LET keys == {<<Bucket(t), t.instrument>> : t \in Range(trades)}
        mine(k) == {t \in Range(trades) : <<Bucket(t), t.instrument>> = k}
        order == InOrder(keys, LessIn)
    IN  [n \in DOMAIN order |-> BarOf(mine(order[n]))]

(* import_historical_bars and load_persisted_market_bars: canonical order.  *)
Canonical(bars) ==
    bars # <<>> /\ \A n \in 1..(Len(bars) - 1) : LessIn(KeyOf(bars[n]), KeyOf(bars[n + 1]))

-----------------------------------------------------------------------------
(* Corporate actions, in the order they take effect.                        *)

ActionsHold(actions) ==
    (\A a \in Range(actions) : a.value > 0) /\ ~AnyTwo(actions, LAMBDA a, b : a.id = b.id)
InActionOrder(a, b) == LessIn(<<a.at, a.id>>, <<b.at, b.id>>)

AfterSplit(bar, ratio) ==
    LET price(p) == (p * Unit) \div ratio
    IN  [bar EXCEPT !.open = price(@), !.high = price(@), !.low = price(@),
                    !.close = price(@), !.volume = (@ * ratio) \div Unit]
AfterDividend(bar, amount) ==
    [bar EXCEPT !.open = @ - amount, !.high = @ - amount, !.low = @ - amount,
                !.close = @ - amount]

Affects(action, bar) == bar.instrument = action.instrument /\ bar.at < action.at
AdjustedFor(bar, action) ==
    IF bar = Refused \/ ~Affects(action, bar) THEN bar
    ELSE IF action.type = "SPLIT" THEN AfterSplit(bar, action.value)
    ELSE IF bar.low <= action.value THEN Refused ELSE AfterDividend(bar, action.value)

(* adjust_bars_for_corporate_actions; a bar needs a price and a volume.     *)
Adjusted(bars, actions) ==
    LET ordered == InOrder(Range(actions), InActionOrder)
        after == [n \in DOMAIN bars |-> FoldLeft(AdjustedFor, bars[n], ordered)]
    IN  IF \E n \in DOMAIN after : after[n] = Refused \/ after[n].low <= 0
        THEN Refused ELSE [kind |-> "ADJUSTED", bars |-> after]

BarsAnswer(document) ==
    LET trades == RowsOf(document, "TRADE")
        actions == RowsOf(document, "ACTION")
    IN  IF ~TradesHold(trades) \/ ~ActionsHold(actions) THEN Refused
        ELSE [kind |-> "BARS", bars |-> BarsFrom(trades),
              readable |-> Canonical(BarsFrom(trades)),
              adjusted |-> Adjusted(BarsFrom(trades), actions)]

-----------------------------------------------------------------------------
(* Headlines, in half seconds, and the sentiment derived from each.         *)

HeadlinesHold(headlines) ==
    /\ headlines # <<>> /\ \A h \in Range(headlines) : h.at <= h.received
    /\ ~AnyTwo(headlines, LAMBDA g, h : g.id = h.id)
ItemsOf(h) ==
    {[kind |-> "NEWS", id |-> h.id, nth |-> n, about |-> IF n = 0 THEN 0 ELSE h.about[n],
      source |-> h.source, sequence |-> h.sequence, at |-> h.at, received |-> h.received] :
        n \in 0..Len(h.about)}

(* replay_item_sort_key.                                                    *)
InFeedOrder(i, j) ==
    LET key(k) == <<k.received, k.source, k.sequence, IF k.nth = 0 THEN 0 ELSE 1, k.at,
                    k.id, k.nth>>
    IN  LessIn(key(i), key(j))

(* ReplayNewsFeed::from_headlines.                                          *)
FeedOf(headlines) ==
    InOrder(UNION {ItemsOf(h) : h \in Range(headlines)}, InFeedOrder)
FeedAnswer(document) ==
    LET headlines == RowsOf(document, "HEADLINE")
    IN  IF HeadlinesHold(headlines) THEN [kind |-> "FEED", items |-> FeedOf(headlines)]
        ELSE Refused

-----------------------------------------------------------------------------
InputInit ==
    /\ study \in Studies
    /\ known = {} /\ answers = {} /\ replay = [phase |-> "NONE"]

Answer(q, document) ==
    CASE q.kind = "BARS" -> BarsAnswer(document)
      [] q.kind = "FEED" -> FeedAnswer(document)
      [] q.kind = "REFERENCE" -> ReferenceAt(document, q.instrument, q.at)
      [] q.kind = "PRICE" -> PriceAt(RowsOf(document, "SNAPSHOT"), q)
      [] q.kind = "CONVERT" -> Convert(RowsOf(document, "RATE"), q, Unit)

Learn(row) ==
    /\ replay.phase = "NONE" /\ known' = known \union {row}
    /\ UNCHANGED <<answers, replay, study>>

(* Rows in any order.                                                       *)
Arrangements(rows) ==
    LET one == SetToSeq(rows)
    IN  {[n \in DOMAIN one |-> order[one[n]]] : order \in Permutations(rows)}

(* A document of the rows known, one of which may come again at the end.    *)
Ask(q, document, again) ==
    /\ replay.phase = "NONE" /\ Cardinality(answers) < study.asks
    /\ answers' = answers \union
          {[question |-> q, rows |-> known, repeated |-> again # <<>>,
            answer |-> Answer(q, document \o again)]}
    /\ UNCHANGED <<known, replay, study>>

(* The feed of an answer is replayed together with a file of bars.          *)
Begin(answer) ==
    /\ replay.phase = "NONE" /\ answer.kind = "FEED" /\ Canonical(study.bars)
    /\ replay' = [phase |-> "RUNS", feed |-> answer.items, bars |-> study.bars, clock |-> 0,
                  shown |-> <<>>, log |-> <<>>]
    /\ UNCHANGED <<known, answers, study>>

(* replay_availability_time_from_unix_ns.                                   *)
AvailableAt(instant) == (instant + 1) \div 2

(* ReplayClock::advance_to.                                                 *)
Shows(item, at, rest) ==
    replay' =
        IF at < replay.clock THEN [replay EXCEPT !.phase = "REFUSED"]
        ELSE [rest EXCEPT !.clock = at,
                          !.shown = Append(@, [item |-> item, at |-> at]),
                          !.log = Append(@, item)]

NewsFirst == replay.bars # <<>> => AvailableAt(Head(replay.feed).received) <= Head(replay.bars).at
BarsFirst == replay.feed # <<>> => Head(replay.bars).at <= AvailableAt(Head(replay.feed).received)

(* process_news_headline, process_news_sentiment: a sentiment needs its     *)
(* headline.  The driver shows what is due next.                            *)
ShowNews ==
    /\ replay.phase = "RUNS" /\ replay.feed # <<>> /\ NewsFirst
    /\ LET item == Head(replay.feed)
           caused == \E s \in Range(replay.shown) :
                        s.item.kind = "NEWS" /\ s.item.id = item.id /\ s.item.nth = 0
       IN  IF item.nth = 0 \/ caused
           THEN Shows(item, AvailableAt(item.received), [replay EXCEPT !.feed = Tail(@)])
           ELSE replay' = [replay EXCEPT !.phase = "REFUSED"]
    /\ UNCHANGED <<known, answers, study>>

ShowBar ==
    /\ replay.phase = "RUNS" /\ replay.bars # <<>> /\ BarsFirst
    /\ LET bar == Head(replay.bars)
       IN  Shows([kind |-> "MARKET", bar |-> bar], bar.at, [replay EXCEPT !.bars = Tail(@)])
    /\ UNCHANGED <<known, answers, study>>

(* load_persisted_market_bars, of the log a replay leaves.                  *)
LogBars(log) ==
    LET market == SelectSeq(log, LAMBDA e : e.kind = "MARKET")
    IN  [n \in DOMAIN market |-> market[n].bar]

InputNext ==
    \/ \E row \in study.rows : Learn(row)
    \/ \E q \in study.questions, document \in Arrangements(known),
          again \in {<<>>} \union {<<row>> : row \in known} : Ask(q, document, again)
    \/ \E a \in answers : Begin(a.answer)
    \/ ShowNews \/ ShowBar

InputSpec == InputInit /\ [][InputNext]_inputVars

-----------------------------------------------------------------------------
InputTypeOK ==
    /\ study \in Studies /\ known \subseteq study.rows
    /\ Cardinality(answers) <= study.asks
    /\ replay.phase \in {"NONE", "RUNS", "REFUSED"}

(* A file says the same in whatever order its rows were written, and one   *)
(* that says something twice is refused.  Conversion rates are taken in the *)
(* order declared; so are the multiplier of an instrument whose versions    *)
(* differ in it, and events of one instant.                                 *)
Unordered(rows) ==
    /\ \A v, w \in rows : v.kind = "VERSION" /\ w.kind = "VERSION"
          /\ v.instrument = w.instrument => v.multiplier = w.multiplier
    /\ \A e, f \in rows : e.kind = "LIFECYCLE" /\ f.kind = "LIFECYCLE" /\ e.at = f.at => e = f
OrderIsImmaterial ==
    \A a, b \in answers : a.question.kind # "CONVERT" =>
        /\ a.repeated => a.answer = Refused
        /\ a.question = b.question /\ a.rows = b.rows /\ a.repeated = b.repeated
              /\ Unordered(a.rows) => a.answer = b.answer

(* What becomes known after an instant changes no answer as of it, and a    *)
(* trade changes the bar of its own bucket only.                            *)
AsOf(rows, at) ==
    {r \in rows : CASE r.kind = "SNAPSHOT" -> r.received <= at
                    [] r.kind \in {"VERSION", "SESSION", "HALT", "MEMBERSHIP"} -> r.from <= at
                    [] OTHER -> FALSE}
Looked(answer) ==
    IF answer.kind = "REFERENCE" THEN <<answer.version, answer.open, answer.covered>>
    ELSE <<answer>>
AnswersLookBack ==
    \A a, b \in answers :
        a.question = b.question /\ a.answer # Refused /\ b.answer # Refused =>
            /\ a.question.kind \in {"PRICE", "REFERENCE"}
                  /\ AsOf(a.rows, a.question.at) = AsOf(b.rows, b.question.at) =>
                  Looked(a.answer) = Looked(b.answer)
            /\ a.question.kind = "BARS" => \A bar \in Range(a.answer.bars) :
                  (\A t \in b.rows \ a.rows :
                      t.kind = "TRADE" /\ t.instrument = bar.instrument =>
                          t.at \notin bar.at..(bar.at + BarSeconds - 1))
                  /\ a.rows \subseteq b.rows => bar \in Range(b.answer.bars)

(* Every trade is in one bar, whose volume is that of its trades, which     *)
(* opens at the earliest and closes at the latest; the bars can be read.    *)
BarsSummarize ==
    \A a \in answers : a.answer.kind = "BARS" =>
        /\ a.answer.readable
        /\ \A t \in a.rows : t.kind = "TRADE" =>
              \E bar \in Range(a.answer.bars) :
                  bar.instrument = t.instrument /\ t.at \in bar.at..(bar.at + BarSeconds - 1)
        /\ \A bar \in Range(a.answer.bars) :
              LET mine == {t \in a.rows : t.kind = "TRADE" /\ t.instrument = bar.instrument
                                          /\ t.at \in bar.at..(bar.at + BarSeconds - 1)}
                  later(t, u) == t.at > u.at \/ (t.at = u.at /\ t.sequence > u.sequence)
              IN  /\ bar.volume = MapThenSumSet(LAMBDA t : t.quantity, mine)
                  /\ \A t \in mine : bar.low <= t.price /\ t.price <= bar.high
                  /\ \E t \in mine : bar.open = t.price /\ ~\E u \in mine : later(t, u)
                  /\ \E t \in mine : bar.close = t.price /\ ~\E u \in mine : later(u, t)

(* What a bar's volume is worth after the actions, with the dividends it    *)
(* was paid, is what it was worth before them, but for what the division of *)
(* a price drops.                                                           *)
ValueIsKept ==
    \A a \in answers : a.answer.kind = "BARS" /\ a.answer.adjusted # Refused =>
        \A n \in DOMAIN a.answer.bars :
            LET bar == a.answer.bars[n]
                new == a.answer.adjusted.bars[n]
                due(type) == {x \in a.rows : /\ x.kind = "ACTION" /\ x.type = type
                                             /\ x.instrument = bar.instrument /\ bar.at < x.at}
                splitsBy(x) == {s \in due("SPLIT") :
                                   s.at < x.at \/ (s.at = x.at /\ s.id <= x.id)}
                held(x) == FoldSet(LAMBDA s, v : (v * s.value) \div Unit, bar.volume, splitsBy(x))
                paid == MapThenSumSet(LAMBDA d : d.value * held(d), due("DIVIDEND"))
                lost == bar.close * bar.volume - (new.close * new.volume + paid)
            IN  0 <= lost /\ lost <= MapThenSumSet(held, due("SPLIT"))

(* One version of an instrument applies at a time, the account values it by *)
(* its multiplier unless versions differ in it, and what happens to the     *)
(* account happens in order.                                                *)
ReferenceIsOne ==
    \A a \in answers : a.answer.kind = "REFERENCE" =>
        LET versions == {v \in a.rows : v.kind = "VERSION"}
        IN  /\ \A v, w \in versions :
                  v.instrument = w.instrument /\ Within(v, a.question.at)
                      /\ Within(w, a.question.at) => v = w
            /\ \A t \in a.answer.account, v \in versions :
                  t.instrument = v.instrument
                      /\ (\A w \in versions : w.instrument = v.instrument =>
                                                 w.multiplier = v.multiplier)
                      => t.multiplier = v.multiplier
            /\ Range(a.answer.lifecycle) = {e \in a.rows : e.kind = "LIFECYCLE"}
            /\ \A n \in 1..(Len(a.answer.lifecycle) - 1) :
                  a.answer.lifecycle[n].at <= a.answer.lifecycle[n + 1].at

(* A price or a rate used was known by then and not older than allowed.     *)
PricesAreFresh ==
    \A a \in answers :
        /\ a.answer.kind = "PRICE" =>
              a.question.at - a.question.age <= a.answer.received
                  /\ a.answer.received <= a.question.at
        /\ a.answer.kind = "AMOUNT" =>
              a.question.at - a.question.age <= a.answer.observed
                  /\ a.answer.observed <= a.question.at

(* A feed that was accepted replays to its end: the clock never goes back,  *)
(* nothing is shown before it was available or a sentiment before its       *)
(* headline, and the log gives back the bars that were replayed.            *)
FeedsReplay ==
    /\ replay.phase # "REFUSED"
    /\ replay.phase = "RUNS" =>
          /\ \A n \in DOMAIN replay.shown :
                LET s == replay.shown[n]
                IN  s.item.kind = "NEWS" =>
                        /\ s.item.received <= 2 * s.at
                        /\ s.item.nth > 0 => \E m \in 1..(n - 1) :
                              replay.shown[m].item.kind = "NEWS"
                              /\ replay.shown[m].item.id = s.item.id
                              /\ replay.shown[m].item.nth = 0
          /\ LogBars(replay.log) \o replay.bars = study.bars
          /\ LogBars(replay.log) # <<>> => Canonical(LogBars(replay.log))

InputsArePointInTime ==
    /\ OrderIsImmaterial /\ AnswersLookBack /\ BarsSummarize /\ ValueIsKept
    /\ ReferenceIsOne /\ PricesAreFresh /\ FeedsReplay
=============================================================================

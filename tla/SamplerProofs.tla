----------------------------- MODULE SamplerProofs -----------------------------
(***************************************************************************)
(* Proofs about Sampler, for any number of rows, samples, tokens and       *)
(* chains of polls.  The inductive invariant joins what a row covers to    *)
(* the scrape the next one will be compared with.                          *)
(***************************************************************************)
EXTENDS Sampler, SequenceTheorems, TLAPS

\* The page may only exist once there is a view, and is answered only then.
Started ==
  /\ server = "serving" => view # NoView
  /\ server = "first" => ~paused /\ shown = NoView /\ \A c \in Pollers : ~Active(c)
  /\ \A c \in Pollers : poller[c] = "answered" => server = "serving"

\* Rows are in the order of their ticks; the newest sample is not published before it
\* is, and its row is the last one.
Times ==
  /\ \A j \in 1..Len(history) :
       /\ history[j].tick <= tick
       /\ \A i \in 1..(j - 1) : history[i].tick < history[j].tick
  /\ pc = "publish" =>
       /\ tick > 0
       /\ \A i \in 1..Len(history) : history[i].tick = tick =>
            scrape # NoScrape /\ history[i].until = scrape.made
       /\ scrape # NoScrape =>
            Len(history) > 0 /\ history[Len(history)].tick = tick

\* Between two readings the counter has risen by no more than the tokens made.
Bounded(from, number, total) ==
  from # NoScrape =>
    /\ from.made <= total
    /\ from.count # None /\ number # None => number - from.count <= total - from.made

Readings ==
  /\ Bounded(prev, count, made)
  /\ Bounded(scrape, count, made)
  /\ scrape # NoScrape => Bounded(prev, scrape.count, scrape.made)

\* No row covers a token that is still to be made, nor a published row one that the next
\* row will cover.
Covered ==
  \A i \in 1..Len(history) :
    /\ history[i].until <= made
    /\ scrape # NoScrape => history[i].until <= scrape.made
    /\ prev # NoScrape /\ history[i].tick \in published => history[i].until <= prev.made

\* If there is a scrape to compare with, the last published sample had a row.
Noticed ==
  prev # NoScrape =>
    /\ Len(history) > 0
    /\ \A k \in published : k <= history[Len(history)].tick

Rowwise == Times /\ Readings /\ Covered /\ CurveInventsNothing /\ Noticed /\ RatesShowOutages

\* Without a second chain the page is never ahead of the next answer.
Forward ==
  /\ view # NoView => view.tick <= tick
  /\ ~crowded =>
       /\ \A c, d \in Pollers : Active(c) /\ Active(d) => c = d
       /\ server = "serving" /\ shown # NoView => shown.tick <= view.tick
       /\ \A c \in Pollers : poller[c] = "answered" =>
            /\ got[c].tick <= view.tick
            /\ shown # NoView => shown.tick <= got[c].tick

IInv == TypeOK /\ Started /\ Rowwise /\ ViewsAreWhole /\ Forward

-----------------------------------------------------------------------------
\* The buffer after a row was added: the new row is the last one, and the others are
\* those of before, shifted by one if the oldest was dropped.
LEMMA Window ==
  ASSUME NEW S, NEW h \in Seq(S), NEW row \in S, Len(h) <= HistoryPoints
  PROVE  /\ Recent(Append(h, row)) \in Seq(S)
         /\ Len(Recent(Append(h, row))) \in 1..HistoryPoints
         /\ \E s \in {0, 1} :
              /\ Len(Recent(Append(h, row))) = Len(h) + 1 - s
              /\ \A i \in 1..Len(h) - s : Recent(Append(h, row))[i] = h[i + s]
              /\ Recent(Append(h, row))[Len(h) + 1 - s] = row
<1> DEFINE a == Append(h, row)
<1>1. /\ a \in Seq(S) /\ Len(a) = Len(h) + 1 /\ Len(h) \in Nat
      /\ \A i \in 1..Len(h) : a[i] = h[i]
      /\ a[Len(h) + 1] = row
  OBVIOUS
<1>2. CASE Len(a) > HistoryPoints
  <2>1. Recent(a) = Tail(a)
    BY <1>2 DEF Recent
  <2>2. /\ Tail(a) \in Seq(S) /\ Len(Tail(a)) = Len(h)
        /\ \A i \in 1..Len(h) : Tail(a)[i] = a[i + 1]
    BY <1>1
  <2>3. Len(h) = HistoryPoints
    BY <1>1, <1>2, SamplerAssumption
  <2>4. Tail(a)[Len(h)] = row
    BY <1>1, <2>2, <2>3, SamplerAssumption
  <2>5. \A i \in 1..Len(h) - 1 : Tail(a)[i] = h[i + 1]
    BY <1>1, <2>2
  <2>6. QED
    BY <1>1, <2>1, <2>2, <2>3, <2>4, <2>5, SamplerAssumption
<1>3. CASE ~(Len(a) > HistoryPoints)
  <2>1. Recent(a) = a
    BY <1>3 DEF Recent
  <2>2. QED
    BY <1>1, <1>3, <2>1, SamplerAssumption
<1>4. QED
  BY <1>2, <1>3

LEMMA InitInv ==
  ASSUME Init
  PROVE  IInv
<1>1. TypeOK
  <2>1. history \in Seq(Rows) /\ Len(history) = 0 /\ published \subseteq 1..tick
    BY DEF Init
  <2>2. /\ poller \in [Pollers -> {"none", "armed", "asked", "answered"}]
        /\ got \in [Pollers -> Views \cup {NoView}]
        /\ \A c \in Pollers : poller[c] # "answered"
    BY DEF Init
  <2>3. /\ count \in Counts /\ made \in Nat /\ tick \in Nat /\ Len(history) <= HistoryPoints
    BY <2>1, SamplerAssumption DEF Init, Counts
  <2>4. QED
    BY <2>1, <2>2, <2>3 DEF Init, TypeOK
<1>2. QED
  BY <1>1 DEF Init, IInv, Started, Active, Rowwise, Times, Readings, Bounded, Covered,
              CurveInventsNothing, Noticed, RatesShowOutages, ViewsAreWhole, Forward

\* A sample that is reachable is a record of the right kind.
LEMMA ScrapeType ==
  ASSUME TypeOK
  PROVE  /\ scrape # NoScrape => scrape.made \in Nat /\ scrape.count \in Counts
                                 /\ scrape.gpu \in Levels
         /\ prev # NoScrape => prev.made \in Nat /\ prev.count \in Counts
         /\ \A i \in 1..Len(history) :
              /\ history[i].tick \in Nat /\ history[i].since \in Nat
              /\ history[i].until \in Nat /\ history[i].gen \in Counts
         /\ Len(history) \in Nat
<1>1. history \in Seq(Rows) /\ scrape \in Scrapes \cup {NoScrape}
      /\ prev \in Scrapes \cup {NoScrape}
  BY DEF TypeOK
<1>2. Len(history) \in Nat /\ \A i \in 1..Len(history) : history[i] \in Rows
  BY <1>1
<1>3. QED
  BY <1>1, <1>2 DEF Scrapes, Rows

LEMMA RateType ==
  ASSUME TypeOK, scrape # NoScrape
  PROVE  Rate(scrape, prev) \in Counts
BY ScrapeType DEF Rate, Rise, Counts

\* The row that Collect appends.
NewRow ==
  [tick |-> tick + 1, gpu |-> scrape.gpu, gen |-> Rate(scrape, prev),
   since |-> IF prev = NoScrape THEN scrape.made ELSE prev.made,
   until |-> scrape.made]

LEMMA NewRowType ==
  ASSUME TypeOK, scrape # NoScrape
  PROVE  NewRow \in Rows
BY ScrapeType, RateType DEF NewRow, Rows, TypeOK

-----------------------------------------------------------------------------
LEMMA EngineStep ==
  ASSUME IInv, Engine
  PROVE  IInv'
<1>1. UNCHANGED <<sampleVars, pageVars>> /\ made' \in Nat /\ count' \in Counts /\ made' >= made
  BY DEF Engine, Generate, Restart, IInv, TypeOK, Counts
<1>2. TypeOK'
  BY <1>1 DEF IInv, TypeOK, sampleVars, pageVars
<1>3. Started' /\ Times' /\ CurveInventsNothing' /\ Noticed' /\ RatesShowOutages'
      /\ ViewsAreWhole' /\ Forward'
  BY <1>1 DEF IInv, Rowwise, Started, Active, Times, CurveInventsNothing, Noticed,
              RatesShowOutages, OutageBefore, ViewsAreWhole, Forward, sampleVars, pageVars
<1>4. Covered'
  BY <1>1, ScrapeType DEF IInv, Rowwise, Covered, sampleVars, TypeOK
<1>5. Readings'
  <2>1. ASSUME NEW s \in {prev, scrape}, Bounded(s, count, made)
        PROVE  Bounded(s, count', made')
    <3>1. SUFFICES ASSUME s # NoScrape
                   PROVE  /\ s.made <= made'
                          /\ s.count # None /\ count' # None =>
                               count' - s.count <= made' - s.made
      BY DEF Bounded
    <3>2. s.made \in Nat /\ s.count \in Counts /\ s.made <= made /\ made \in Nat
      BY <2>1, <3>1, ScrapeType DEF Bounded, IInv, TypeOK
    <3>3. CASE Generate
      <4>1. CASE count = None
        BY <3>2, <3>3, <4>1, SamplerAssumption DEF Generate, Counts
      <4>2. CASE count # None
        <5>1. count \in Nat /\ count' = count + 1 /\ made' = made + 1
          BY <3>3, <4>2 DEF Generate, Counts, IInv, TypeOK
        <5>2. s.count # None => s.count \in Nat /\ count - s.count <= made - s.made
          BY <2>1, <3>1, <3>2, <4>2 DEF Bounded, Counts
        <5>3. QED
          BY <3>2, <5>1, <5>2
      <4>3. QED
        BY <4>1, <4>2
    <3>4. CASE Restart
      BY <3>2, <3>4 DEF Restart, Counts
    <3>5. QED
      BY <3>3, <3>4 DEF Engine
  <2>2. prev' = prev /\ scrape' = scrape
    BY <1>1 DEF sampleVars
  <2>3. QED
    BY <2>1, <2>2 DEF IInv, Rowwise, Readings
<1>6. QED
  BY <1>2, <1>3, <1>4, <1>5 DEF IInv, Rowwise

LEMMA FetchStep ==
  ASSUME IInv, Fetch
  PROVE  IInv'
<1>1. /\ UNCHANGED <<engineVars, server, tick, prev, history, view, published, pageVars>>
      /\ pc = "fetch" /\ pc' = "collect"
  BY DEF Fetch
<1>2. \/ scrape' = NoScrape
      \/ \E u \in Levels : scrape' = [count |-> count, gpu |-> u, made |-> made]
  BY DEF Fetch
<1>3. TypeOK'
  BY <1>1, <1>2 DEF IInv, TypeOK, Scrapes, engineVars, pageVars
<1>4. Started' /\ Times' /\ CurveInventsNothing' /\ Noticed' /\ RatesShowOutages'
      /\ ViewsAreWhole' /\ Forward'
  BY <1>1 DEF IInv, Rowwise, Started, Active, Times, CurveInventsNothing, Noticed,
              RatesShowOutages, OutageBefore, ViewsAreWhole, Forward, engineVars, pageVars
<1>5. Covered'
  BY <1>1, <1>2 DEF IInv, Rowwise, Covered, engineVars
<1>6. Readings'
  BY <1>1, <1>2, ScrapeType DEF IInv, Rowwise, Readings, Bounded, engineVars, TypeOK, Counts
<1>7. QED
  BY <1>3, <1>4, <1>5, <1>6 DEF IInv, Rowwise

\* WaitOver, and a sample that fails, leave everything but pc and the scrape alone.
LEMMA DropStep ==
  ASSUME IInv, Raise \/ WaitOver
  PROVE  IInv'
<1>1. /\ UNCHANGED <<engineVars, tick, prev, history, view, published, pageVars>>
      /\ pc' \in {"fetch", "wait"}
      /\ scrape' = NoScrape \/ scrape' = scrape
      /\ server' = server \/ (server = "first" /\ server' = "ended")
  BY DEF Raise, WaitOver, AfterError
<1>2. TypeOK'
  BY <1>1 DEF IInv, TypeOK, engineVars, pageVars
<1>3. Started' /\ Times' /\ CurveInventsNothing' /\ Noticed' /\ RatesShowOutages'
      /\ ViewsAreWhole' /\ Forward'
  BY <1>1 DEF IInv, Rowwise, Started, Active, Times, CurveInventsNothing, Noticed,
              RatesShowOutages, OutageBefore, ViewsAreWhole, Forward, engineVars, pageVars
<1>4. Covered' /\ Readings'
  BY <1>1 DEF IInv, Rowwise, Covered, Readings, Bounded, engineVars
<1>5. QED
  BY <1>2, <1>3, <1>4 DEF IInv, Rowwise

\* What the new row covers begins where the last published one ended.
LEMMA NewRowFits ==
  ASSUME IInv, pc = "collect", scrape # NoScrape
  PROVE  /\ NewRow.tick = tick + 1 /\ NewRow.until = scrape.made
         /\ NewRow.gen # None =>
              /\ prev # NoScrape /\ NewRow.since = prev.made
              /\ NewRow.gen <= NewRow.until - NewRow.since
<1>1. NewRow.tick = tick + 1 /\ NewRow.until = scrape.made
      /\ NewRow.gen = Rate(scrape, prev)
      /\ NewRow.since = IF prev = NoScrape THEN scrape.made ELSE prev.made
  BY DEF NewRow
<1>2. ASSUME Rate(scrape, prev) # None
      PROVE  /\ prev # NoScrape /\ scrape.count # None /\ prev.count # None
             /\ Rate(scrape, prev) = Rise(scrape.count - prev.count)
  BY <1>2 DEF Rate
<1>3. ASSUME Rate(scrape, prev) # None
      PROVE  Rate(scrape, prev) <= scrape.made - prev.made
  <2>1. prev # NoScrape /\ scrape.count \in Nat /\ prev.count \in Nat
    BY <1>2, <1>3, ScrapeType DEF IInv, Counts
  <2>2. /\ prev.made <= scrape.made /\ prev.made \in Nat /\ scrape.made \in Nat
        /\ scrape.count - prev.count <= scrape.made - prev.made
    BY <1>2, <1>3, <2>1, ScrapeType DEF IInv, Rowwise, Readings, Bounded
  <2>3. QED
    BY <1>2, <1>3, <2>1, <2>2 DEF Rise
<1>4. QED
  BY <1>1, <1>2, <1>3

LEMMA CollectStep ==
  ASSUME IInv, Collect
  PROVE  IInv'
<1>1. /\ UNCHANGED <<engineVars, server, scrape, prev, view, published, pageVars>>
      /\ pc = "collect" /\ pc' = "publish" /\ tick' = tick + 1
      /\ tick \in Nat /\ published \subseteq 1..tick
  BY DEF Collect, IInv, TypeOK
<1>2. Started' /\ ViewsAreWhole' /\ Forward' /\ Readings'
  <2>1. Started' /\ ViewsAreWhole' /\ Readings'
    BY <1>1 DEF IInv, Rowwise, Started, Active, ViewsAreWhole, Readings, Bounded, engineVars,
                pageVars
  <2>2. view # NoView => view.tick \in Nat
    BY DEF IInv, TypeOK, Views
  <2>3. Forward'
    BY <1>1, <2>2 DEF IInv, Forward, Active, pageVars
  <2>4. QED
    BY <2>1, <2>3
<1>3. CASE scrape = NoScrape
  <2>1. history' = history
    BY <1>3 DEF Collect
  <2>2. TypeOK'
    BY <1>1, <2>1 DEF IInv, TypeOK, engineVars, pageVars
  <2>3. Times' /\ Covered' /\ CurveInventsNothing' /\ Noticed' /\ RatesShowOutages'
    BY <1>1, <1>3, <2>1, ScrapeType DEF IInv, Rowwise, Times, Covered, CurveInventsNothing,
         Noticed, RatesShowOutages, OutageBefore, engineVars
  <2>4. QED
    BY <1>2, <2>2, <2>3 DEF IInv, Rowwise
<1>4. CASE scrape # NoScrape
  <2>1. history' = Recent(Append(history, NewRow))
    BY <1>4 DEF Collect, NewRow
  <2>2. history \in Seq(Rows) /\ NewRow \in Rows /\ Len(history) <= HistoryPoints
        /\ Len(history) \in Nat
    BY <1>4, NewRowType, ScrapeType DEF IInv, TypeOK
  <2>3. history' \in Seq(Rows) /\ Len(history') \in 1..HistoryPoints
    BY <2>1, <2>2, Window
  <2>4. PICK s \in {0, 1} :
          /\ Len(history') = Len(history) + 1 - s
          /\ \A i \in 1..Len(history) - s : history'[i] = history[i + s]
          /\ history'[Len(history) + 1 - s] = NewRow
    <3>1. \E s \in {0, 1} :
            LET w == Recent(Append(history, NewRow)) IN
              /\ Len(w) = Len(history) + 1 - s
              /\ \A i \in 1..Len(history) - s : w[i] = history[i + s]
              /\ w[Len(history) + 1 - s] = NewRow
      BY <2>2, Window, ZenonT(40)
    <3>2. QED
      BY <2>1, <3>1
  <2> DEFINE n == Len(history')
  <2>5. /\ n \in Nat \ {0} /\ history'[n] = NewRow
        /\ \A i \in 1..n - 1 : history'[i] = history[i + s] /\ i + s \in 1..Len(history)
        /\ \A i \in 1..n : i # n => i \in 1..n - 1
    <3>1. n = Len(history) + 1 - s /\ n \in 1..HistoryPoints /\ n - 1 = Len(history) - s
      BY <2>2, <2>3, <2>4
    <3>2. n \in Nat \ {0}
      BY <3>1, SamplerAssumption
    <3>3. history'[n] = NewRow
      BY <2>4, <3>1
    <3>4. \A i \in 1..n - 1 : history'[i] = history[i + s]
      BY <2>4, <3>1
    <3>5. \A i \in 1..n - 1 : i + s \in 1..Len(history)
      BY <2>2, <3>1
    <3>6. \A i \in 1..n : i # n => i \in 1..n - 1
      BY <3>2
    <3>7. QED
      BY <3>2, <3>3, <3>4, <3>5, <3>6
  <2>6. TypeOK'
    BY <1>1, <2>3 DEF IInv, TypeOK, engineVars, pageVars
  <2>7. Times'
    <3>1. ASSUME NEW j \in 1..n, NEW i \in 1..(j - 1)
          PROVE  history'[i].tick < history'[j].tick
      <4>1. i \in 1..n - 1 /\ history'[i] = history[i + s] /\ i + s \in 1..Len(history)
        BY <2>5
      <4>2. CASE j = n
        <5>1. history'[j].tick = tick + 1
          BY <1>1, <1>4, <2>5, <4>2, NewRowFits
        <5>2. history'[i].tick <= tick /\ history'[i].tick \in Nat
          BY <4>1, ScrapeType DEF IInv, Rowwise, Times
        <5>3. QED
          BY <1>1, <5>1, <5>2
      <4>3. CASE j # n
        <5>1. history'[j] = history[j + s] /\ j + s \in 1..Len(history)
          BY <2>5, <4>3
        <5>2. i + s \in 1..(j + s - 1)
          OBVIOUS
        <5>3. QED
          <6>1. \A a \in 1..Len(history) : \A b \in 1..(a - 1) : history[b].tick < history[a].tick
            BY DEF IInv, Rowwise, Times
          <6>2. QED
            BY <4>1, <5>1, <5>2, <6>1
      <4>4. QED
        BY <4>2, <4>3
    <3>2. \A j \in 1..n - 1 : history'[j].tick <= tick /\ history'[j].tick \in Nat
      BY <2>5, ScrapeType DEF IInv, Rowwise, Times
    <3>3. history'[n].tick = tick' /\ history'[n].until = scrape.made
      BY <1>1, <1>4, <2>5, NewRowFits
    <3>4. \A j \in 1..n : history'[j].tick <= tick' /\ (history'[j].tick = tick' => j = n)
      BY <1>1, <2>5, <3>2, <3>3
    <3>5. QED
      BY <1>1, <1>4, <2>5, <3>1, <3>3, <3>4 DEF Times
  <2>8. Covered'
    <3>1. ASSUME NEW i \in 1..n
          PROVE  /\ history'[i].until <= made
                 /\ history'[i].until <= scrape.made
                 /\ prev # NoScrape /\ history'[i].tick \in published =>
                      history'[i].until <= prev.made
      <4>1. CASE i = n
        <5>1. history'[i].until = scrape.made /\ history'[i].tick = tick + 1
          BY <1>1, <1>4, <2>5, <4>1, NewRowFits
        <5>2. scrape.made <= made /\ scrape.made \in Nat
          BY <1>4, ScrapeType DEF IInv, Rowwise, Readings, Bounded
        <5>3. QED
          BY <1>1, <5>1, <5>2
      <4>2. CASE i # n
        BY <1>4, <2>5, <4>2 DEF IInv, Rowwise, Covered
      <4>3. QED
        BY <4>1, <4>2
    <3>2. QED
      BY <1>1, <3>1 DEF Covered, engineVars
  <2>9. CurveInventsNothing'
    <3>1. ASSUME NEW j \in 1..n, history'[j].gen # None
          PROVE  /\ history'[j].gen <= history'[j].until - history'[j].since
                 /\ \A i \in 1..(j - 1) : history'[i].tick \in published =>
                      history'[i].until <= history'[j].since
      <4>1. CASE j = n
        <5>1. /\ prev # NoScrape /\ history'[n].since = prev.made
              /\ history'[n].gen <= history'[n].until - history'[n].since
          BY <1>1, <1>4, <2>5, <3>1, <4>1, NewRowFits
        <5>2. \A i \in 1..n - 1 : history'[i].tick \in published => history'[i].until <= prev.made
          BY <2>5, <5>1 DEF IInv, Rowwise, Covered
        <5>3. QED
          BY <4>1, <5>1, <5>2
      <4>2. CASE j # n
        <5>1. history'[j] = history[j + s] /\ j + s \in 1..Len(history)
          BY <2>5, <4>2
        <5>2. \A i \in 1..(j - 1) : history'[i] = history[i + s] /\ i + s \in 1..(j + s - 1)
          BY <2>4, <2>5
        <5>3. QED
          BY <3>1, <5>1, <5>2 DEF IInv, Rowwise, CurveInventsNothing
      <4>3. QED
        BY <4>1, <4>2
    <3>2. QED
      BY <1>1, <3>1 DEF CurveInventsNothing
  <2>10. Noticed'
    BY <1>1, <1>4, <2>5, NewRowFits DEF Noticed
  <2>11. RatesShowOutages'
    <3>1. ASSUME NEW j \in 2..n, NEW k \in published,
                 history'[j - 1].tick < k, k < history'[j].tick
          PROVE  history'[j].gen = None
      <4>1. j - 1 \in 1..n - 1
        BY <2>5
      <4>2. CASE j = n
        <5>1. SUFFICES ASSUME history'[j].gen # None
                       PROVE  FALSE
          OBVIOUS
        <5>2. prev # NoScrape
          BY <1>1, <1>4, <2>5, <4>2, <5>1, NewRowFits
        <5>3. k <= history[Len(history)].tick
          BY <5>2 DEF IInv, Rowwise, Noticed
        <5>4. history'[j - 1] = history[Len(history)]
          BY <2>2, <2>4, <2>5, <4>1, <4>2
        <5>5. k \in Nat /\ history[Len(history)].tick \in Nat
          BY <1>1, <2>2, <2>4, <2>5, <4>1, ScrapeType DEF IInv
        <5>6. QED
          BY <3>1, <5>3, <5>4, <5>5
      <4>3. CASE j # n
        <5>1. history'[j] = history[j + s] /\ history'[j - 1] = history[j + s - 1]
              /\ j + s \in 2..Len(history)
          BY <2>4, <2>5, <4>1, <4>3
        <5>2. QED
          BY <3>1, <5>1 DEF IInv, Rowwise, RatesShowOutages, OutageBefore
      <4>4. QED
        BY <4>2, <4>3
    <3>2. QED
      BY <1>1, <3>1 DEF RatesShowOutages, OutageBefore
  <2>12. QED
    BY <1>2, <2>6, <2>7, <2>8, <2>9, <2>10, <2>11 DEF IInv, Rowwise
<1>5. QED
  BY <1>3, <1>4

LEMMA PublishStep ==
  ASSUME IInv, Publish
  PROVE  IInv'
<1>1. /\ UNCHANGED <<engineVars, tick, history, pageVars>>
      /\ view' = [tick |-> tick, history |-> history]
      /\ published' = published \cup {tick} /\ prev' = scrape /\ scrape' = NoScrape
      /\ pc = "publish" /\ pc' = "wait" /\ server # "ended" /\ server' = "serving"
  BY DEF Publish, NextPrev
<1>2. tick \in Nat /\ published \subseteq 1..tick /\ history \in Seq(Rows)
      /\ Len(history) \in Nat /\ (\A i \in 1..Len(history) : history[i].tick \in Nat)
  BY ScrapeType DEF IInv, TypeOK
<1>3. tick \in 1..tick
  <2>1. pc = "publish" => tick > 0
    BY DEF IInv, Rowwise, Times
  <2>2. QED
    BY <1>1, <1>2, <2>1
<1>4. view' \in Views /\ view' # NoView /\ view'.tick = tick /\ view'.history = history
  BY <1>1, <1>2, NothingAssumption DEF Views
<1>5. TypeOK'
  BY <1>1, <1>2, <1>3, <1>4 DEF IInv, TypeOK, engineVars, pageVars
<1>6. Started' /\ ViewsAreWhole'
  <2>1. Started'
    BY <1>1, <1>4 DEF IInv, Started, Active, pageVars
  <2>2. \A i \in 1..Len(history) : history[i].tick <= tick
    BY DEF IInv, Rowwise, Times
  <2>3. QED
    BY <1>1, <1>4, <2>1, <2>2 DEF IInv, ViewsAreWhole, pageVars
<1>7. Times'
  BY <1>1 DEF IInv, Rowwise, Times
<1>8. Readings' /\ Covered'
  <2>1. Readings'
    BY <1>1 DEF IInv, Rowwise, Readings, Bounded, engineVars
  <2>2. \A i \in 1..Len(history) : history[i].until <= made
           /\ (scrape # NoScrape => history[i].until <= scrape.made)
    BY DEF IInv, Rowwise, Covered
  <2>3. QED
    BY <1>1, <2>1, <2>2 DEF Covered, engineVars
<1>9. CurveInventsNothing'
  <2>1. ASSUME NEW j \in 1..Len(history), NEW i \in 1..(j - 1)
        PROVE  history[i].tick # tick
    BY <1>2, <2>1 DEF IInv, Rowwise, Times
  <2>2. QED
    BY <1>1, <2>1 DEF IInv, Rowwise, CurveInventsNothing
<1>10. Noticed' /\ RatesShowOutages'
  <2>1. scrape # NoScrape => Len(history) > 0 /\ history[Len(history)].tick = tick
    BY <1>1 DEF IInv, Rowwise, Times
  <2>2. \A k \in published' : k <= tick
    <3>1. \A k \in published : k \in 1..tick
      BY <1>2
    <3>2. QED
      BY <1>1, <1>2, <3>1
  <2>3. Noticed'
    BY <1>1, <2>1, <2>2 DEF Noticed
  <2>4. \A j \in 2..Len(history) : ~(tick < history[j].tick)
    BY <1>2 DEF IInv, Rowwise, Times
  <2>5. RatesShowOutages'
    BY <1>1, <2>4 DEF IInv, Rowwise, RatesShowOutages, OutageBefore
  <2>6. QED
    BY <2>3, <2>5
<1>11. Forward'
  <2>1. server = "first" => shown = NoView /\ \A c \in Pollers : poller[c] # "answered"
    BY DEF IInv, Started, Active
  <2>2. server = "serving" => view # NoView /\ view.tick <= tick /\ view.tick \in Nat
    BY DEF IInv, Started, Forward, TypeOK, Views
  <2>3. /\ \A c \in Pollers : poller[c] = "answered" =>
             server = "serving" /\ got[c].tick \in Nat
        /\ shown # NoView => shown.tick \in Nat
    BY DEF IInv, Started, TypeOK, Views
  <2>4. server \in {"first", "serving"}
    BY <1>1 DEF IInv, TypeOK
  <2>5. QED
    BY <1>1, <1>2, <1>4, <2>1, <2>2, <2>3, <2>4 DEF IInv, Forward, Active, pageVars
<1>12. QED
  BY <1>5, <1>6, <1>7, <1>8, <1>9, <1>10, <1>11 DEF IInv, Rowwise

LEMMA StopStep ==
  ASSUME IInv, Stop
  PROVE  IInv'
<1>1. /\ UNCHANGED <<engineVars, paused, shown, crowded>>
      /\ server' = "ended" /\ pc' = "wait" /\ scrape' = NoScrape /\ prev' = NoScrape
      /\ tick' = 0 /\ published' = {} /\ history' = <<>> /\ view' = NoView
      /\ poller' = [c \in Pollers |-> IF poller[c] = "answered" THEN "asked" ELSE poller[c]]
      /\ got' = [c \in Pollers |-> NoView]
  BY DEF Stop
<1>2. /\ history' \in Seq(Rows) /\ Len(history') = 0
      /\ poller' \in [Pollers -> {"none", "armed", "asked", "answered"}]
      /\ got' \in [Pollers -> Views \cup {NoView}]
      /\ \A c \in Pollers : poller'[c] # "answered" /\ (Active(c)' <=> Active(c))
  BY <1>1 DEF IInv, TypeOK, Active
<1>3. TypeOK'
  BY <1>1, <1>2, SamplerAssumption DEF IInv, TypeOK, engineVars
<1>4. Rowwise'
  BY <1>1, <1>2 DEF Rowwise, Times, Readings, Bounded, Covered, CurveInventsNothing, Noticed,
                   RatesShowOutages
<1>5. Started' /\ ViewsAreWhole' /\ Forward'
  BY <1>1, <1>2 DEF IInv, Started, ViewsAreWhole, Forward
<1>6. QED
  BY <1>3, <1>4, <1>5 DEF IInv

\* A step of the page leaves the sampling alone.
LEMMA RowwiseKept ==
  ASSUME IInv, UNCHANGED <<engineVars, sampleVars>>
  PROVE  Rowwise'
BY DEF IInv, Rowwise, Times, Readings, Bounded, Covered, CurveInventsNothing, Noticed,
       RatesShowOutages, OutageBefore, engineVars, sampleVars

LEMMA BeginStep ==
  ASSUME IInv, Load \/ Pause \/ Resume
  PROVE  IInv'
<1>1. UNCHANGED <<engineVars, sampleVars, got, shown>> /\ paused' \in BOOLEAN
  BY DEF Load, Pause, Resume, IInv, TypeOK
<1>2. CASE Pause
  <2>1. UNCHANGED <<poller, crowded>> /\ server # "first"
    BY <1>2 DEF Pause, Loaded, IInv, Started
  <2>2. TypeOK' /\ Started' /\ ViewsAreWhole' /\ Forward'
    BY <1>1, <2>1 DEF IInv, TypeOK, Started, Active, ViewsAreWhole, Forward, engineVars,
                      sampleVars
  <2>3. QED
    BY <1>1, <2>2, RowwiseKept DEF IInv
<1>3. CASE Load \/ Resume
  <2> DEFINE c == CHOOSE d \in Pollers : ~Active(d)
  <2>1. /\ \E d \in Pollers : ~Active(d)
        /\ poller' = [poller EXCEPT ![c] = "asked"]
        /\ crowded' = (crowded \/ \E d \in Pollers : Active(d))
    BY <1>3 DEF Load, Resume, Begin
  <2>2. c \in Pollers /\ ~Active(c)
    BY <2>1
  <2> HIDE DEF c
  <2>3. /\ poller' \in [Pollers -> {"none", "armed", "asked", "answered"}]
        /\ crowded' \in BOOLEAN
        /\ poller'[c] = "asked" /\ \A d \in Pollers : d # c => poller'[d] = poller[d]
    BY <2>1, <2>2 DEF IInv, TypeOK
  <2>4. TypeOK'
    BY <1>1, <2>3 DEF IInv, TypeOK, engineVars, sampleVars
  <2>5. server # "first"
    BY <1>3 DEF Load, Resume, IInv, Started
  <2>6. Started' /\ ViewsAreWhole'
    BY <1>1, <2>3, <2>5 DEF IInv, Started, ViewsAreWhole, sampleVars
  <2>7. Forward'
    BY <1>1, <2>1, <2>2, <2>3 DEF IInv, Forward, Active, sampleVars
  <2>8. QED
    BY <1>1, <2>4, <2>6, <2>7, RowwiseKept DEF IInv
<1>4. QED
  BY <1>2, <1>3

\* A step of one chain.
LEMMA ChainStep ==
  ASSUME IInv, NEW c \in Pollers, Page(c)
  PROVE  IInv'
<1>1. /\ UNCHANGED <<engineVars, sampleVars, paused, crowded>>
      /\ Active(c) /\ poller' = [poller EXCEPT ![c] = poller'[c]]
      /\ got' = [got EXCEPT ![c] = got'[c]]
  BY DEF Page, Fire, Answer, Show, FetchFails, Active, IInv, TypeOK
<1>2. \/ Fire(c) /\ poller'[c] \in {"none", "asked"} /\ got' = got /\ shown' = shown
      \/ Answer(c) /\ poller'[c] = "answered" /\ got'[c] = view /\ shown' = shown
      \/ Show(c) /\ poller'[c] = "armed" /\ got'[c] = NoView /\ shown' = got[c]
      \/ FetchFails(c) /\ poller'[c] = "armed" /\ got'[c] = NoView /\ shown' = shown
  BY DEF Page, Fire, Answer, Show, FetchFails, Serialised, IInv, TypeOK
<1>3. /\ \A d \in Pollers : d # c => poller'[d] = poller[d] /\ got'[d] = got[d]
      /\ \A d \in Pollers : Active(d)' => Active(d)
      /\ server # "first"
  BY <1>1 DEF Active, IInv, TypeOK, Started
<1>4. /\ view \in Views \cup {NoView} /\ got[c] \in Views \cup {NoView}
      /\ Answer(c) => server = "serving" /\ view # NoView
      /\ Show(c) => poller[c] = "answered" /\ got[c] # NoView /\ server = "serving"
  BY DEF IInv, TypeOK, Started, Answer, Show
<1>5. TypeOK'
  <2>1. poller' \in [Pollers -> {"none", "armed", "asked", "answered"}]
    BY <1>1, <1>2 DEF IInv, TypeOK
  <2>2. got' \in [Pollers -> Views \cup {NoView}]
    BY <1>1, <1>2, <1>4 DEF IInv, TypeOK
  <2>3. shown' \in Views \cup {NoView}
    BY <1>2, <1>4 DEF IInv, TypeOK
  <2>4. \A d \in Pollers : poller'[d] = "answered" => got'[d] # NoView
    BY <1>2, <1>3, <1>4 DEF IInv, TypeOK
  <2>5. QED
    BY <1>1, <2>1, <2>2, <2>3, <2>4 DEF IInv, TypeOK, engineVars, sampleVars
<1>6. Started'
  BY <1>1, <1>2, <1>3, <1>4 DEF IInv, Started, sampleVars
<1>7. ViewsAreWhole'
  <2>1. {view', shown'} \cup {got'[d] : d \in Pollers}
          \subseteq {view, shown, NoView} \cup {got[d] : d \in Pollers}
    BY <1>1, <1>2, <1>3 DEF sampleVars
  <2>2. QED
    BY <2>1 DEF IInv, ViewsAreWhole
<1>8. Forward'
  <2>1. \A d \in Pollers : ~crowded /\ Active(d) => d = c
    BY <1>1 DEF IInv, Forward
  <2>2. \A d \in Pollers : poller'[d] = "answered" => Active(d)
    BY <1>1, <1>3 DEF Active
  <2>3. view # NoView => view.tick \in Nat
    BY <1>4 DEF Views
  <2>4. QED
    BY <1>1, <1>2, <1>3, <1>4, <2>1, <2>2, <2>3 DEF IInv, Forward, sampleVars
<1>9. QED
  BY <1>1, <1>5, <1>6, <1>7, <1>8, RowwiseKept DEF IInv

LEMMA NextInv ==
  ASSUME IInv, [Next]_vars
  PROVE  IInv'
<1>1. CASE Next
  BY <1>1, EngineStep, FetchStep, DropStep, CollectStep, PublishStep, StopStep, BeginStep,
     ChainStep DEF Next, Sampling
<1>2. CASE UNCHANGED vars
  <2>1. UNCHANGED <<engineVars, sampleVars, pageVars>>
    BY <1>2 DEF vars
  <2>2. TypeOK' /\ Started' /\ ViewsAreWhole' /\ Forward'
    BY <2>1 DEF IInv, TypeOK, Started, Active, ViewsAreWhole, Forward, engineVars, sampleVars,
                pageVars
  <2>3. QED
    BY <2>1, <2>2, RowwiseKept DEF IInv
<1>3. QED
  BY <1>1, <1>2

LEMMA Invariance == Spec => []IInv
BY InitInv, NextInv, PTL DEF Spec

-----------------------------------------------------------------------------
\* The types; in particular the buffer keeps its limit and an answered request has found
\* a sample.
THEOREM TypeCorrect == Spec => []TypeOK
<1>1. IInv => TypeOK
  BY DEF IInv
<1>2. QED
  BY <1>1, Invariance, PTL

\* The curve never shows a token twice, nor one that was not made.
THEOREM CurveIsTrue == Spec => []CurveInventsNothing
<1>1. IInv => CurveInventsNothing
  BY DEF IInv, Rowwise
<1>2. QED
  BY <1>1, Invariance, PTL

\* After an outage the curves of rates have a gap.
THEOREM RatesHaveGaps == Spec => []RatesShowOutages
<1>1. IInv => RatesShowOutages
  BY DEF IInv, Rowwise
<1>2. QED
  BY <1>1, Invariance, PTL

\* Whatever is being sent or displayed is one sample's view.
THEOREM ViewsStayWhole == Spec => []ViewsAreWhole
<1>1. IInv => ViewsAreWhole
  BY DEF IInv
<1>2. QED
  BY <1>1, Invariance, PTL

\* A page with one chain of polls only moves forward.
THEOREM PageMovesForward == Spec => ShownNeverGoesBack
<1>1. ASSUME IInv, [Next]_vars, shown # NoView, ~crowded
      PROVE  shown'.tick >= shown.tick
  <2>1. shown.tick \in Nat
    BY <1>1 DEF IInv, TypeOK, Views
  <2>2. shown' = shown \/ \E c \in Pollers : poller[c] = "answered" /\ shown' = got[c]
    BY <1>1 DEF Next, Engine, Sampling, Page, Generate, Restart, Fetch, Collect, Publish,
         Raise, WaitOver, Stop, Load, Pause, Resume, Fire, Answer, Show, FetchFails,
         Serialised, vars, pageVars
  <2>3. ASSUME NEW c \in Pollers, poller[c] = "answered"
        PROVE  shown.tick <= got[c].tick /\ got[c].tick \in Nat
    BY <1>1, <2>3 DEF IInv, Forward, TypeOK, Views
  <2>4. QED
    BY <2>1, <2>2, <2>3
<1>2. IInv /\ [Next]_vars =>
        [shown # NoView /\ ~crowded => shown'.tick >= shown.tick]_vars
  BY <1>1
<1>3. QED
  BY <1>2, Invariance, PTL DEF Spec, ShownNeverGoesBack
================================================================================

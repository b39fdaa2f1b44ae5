-------------------------------- MODULE Sampler --------------------------------
(***************************************************************************)
(* What the browser panel shows, scripts/tools/monitor_kv_offload_web.py:  *)
(* the sampling thread (class Sampler, l.606-702), the rows of the time    *)
(* line (history_point), the HTTP threads and the page that polls them     *)
(* (tick() in PAGE, l.916-954).  The counters come from an engine that may *)
(* be slow, go away and come back with its counters reset.                 *)
(*                                                                         *)
(* One counter (generation tokens) and one level (GPU KV usage) stand for  *)
(* the others; a rate is the difference of two scrapes, as the interval it *)
(* is divided by is a constant.  made, since and until are not in the      *)
(* program: they record the tokens the engine has made over all its lives. *)
(***************************************************************************)
EXTENDS Integers, Sequences

CONSTANTS
  HistoryPoints, \* rows kept, l.252
  Levels,        \* values of a gauge
  Pollers,       \* chains of tick() calls a page may have
  MaxTicks,      \* bound on the samples taken
  MaxTokens,     \* bound on the tokens made
  None,          \* null; an absent series
  NoScrape,      \* /metrics did not answer
  NoView         \* no sample yet

ASSUME SamplerAssumption ==
  /\ HistoryPoints \in Nat \ {0}
  /\ MaxTicks \in Nat /\ MaxTokens \in Nat
  /\ None \notin Nat

Counts  == Nat \cup {None}
Scrapes == [count : Counts, gpu : Levels, made : Nat]
Rows    == [tick : Nat, gpu : Levels, gen : Counts, since : Nat, until : Nat]
Views   == [tick : Nat, history : Seq(Rows)]

ASSUME NothingAssumption == NoScrape \notin Scrapes /\ NoView \notin Views

VARIABLES
  count,     \* the token counter of the engine
  made,      \* tokens made so far, by this engine and those before it
  server,    \* "first": main() takes the first sample; "serving"; "ended"
  pc,        \* where the sampling is
  scrape,    \* metrics, a local of sample()
  tick,      \* self.tick
  prev,      \* self.prev
  history,   \* self.history
  view,      \* self.view
  published, \* the ticks whose view was published
  paused,    \* the check box of the page
  poller,    \* where each chain of tick() calls is
  got,       \* the view its HTTP thread answers with
  shown,     \* what the page displays
  crowded    \* has a chain been started while another was alive?

engineVars == <<count, made>>
sampleVars == <<server, pc, scrape, tick, prev, history, view, published>>
pageVars   == <<paused, poller, got, shown, crowded>>
vars == <<engineVars, sampleVars, pageVars>>

\* Every variable has its type; the buffer never outgrows its limit, and a request
\* that is answered finds a sample (the 503 of l.1146 is never sent).
TypeOK ==
  /\ count \in Counts /\ made \in Nat
  /\ server \in {"first", "serving", "ended"}
  /\ pc \in {"fetch", "collect", "publish", "wait", "dead"}
  /\ scrape \in Scrapes \cup {NoScrape}
  /\ prev \in Scrapes \cup {NoScrape}
  /\ tick \in Nat /\ published \subseteq 1..tick
  /\ history \in Seq(Rows) /\ Len(history) <= HistoryPoints
  /\ view \in Views \cup {NoView}
  /\ paused \in BOOLEAN /\ crowded \in BOOLEAN
  /\ poller \in [Pollers -> {"none", "armed", "asked", "answered"}]
  /\ got \in [Pollers -> Views \cup {NoView}]
  /\ shown \in Views \cup {NoView}
  /\ \A c \in Pollers : poller[c] = "answered" => got[c] # NoView

-----------------------------------------------------------------------------
(* The engine.                                                             *)

Generate ==
  /\ made < MaxTokens
  /\ count' = IF count = None THEN 1 ELSE count + 1
  /\ made' = made + 1
  /\ UNCHANGED <<sampleVars, pageVars>>

\* A new engine counts from zero; a labelled series is absent until its first event.
\* (While the old one is gone, a Fetch finds nobody.)
Restart ==
  /\ count' \in {None, 0}
  /\ UNCHANGED <<made, sampleVars, pageVars>>

-----------------------------------------------------------------------------
(* The sampling: in main() first, then in a thread of its own.             *)

\* fetch_metrics: no engine, any error and a timeout count as unreachable.
Fetch ==
  /\ server # "ended" /\ pc = "fetch" /\ tick < MaxTicks
  /\ \/ scrape' = NoScrape
     \/ \E u \in Levels : scrape' = [count |-> count, gpu |-> u, made |-> made]
  /\ pc' = "collect"
  /\ UNCHANGED <<engineVars, server, tick, prev, history, view, published, pageVars>>

\* rate() of history_point: no rate without two readings, and never a negative one.
\* (The mutant reads an absent counter as zero, as delta() of build_view does.)
Rise(x) == IF x < 0 THEN 0 ELSE x

MutantRate(now, before) ==
  IF now.count = None THEN None
  ELSE IF before = NoScrape \/ before.count = None THEN now.count
  ELSE Rise(now.count - before.count)

Rate(now, before) ==
  IF before = NoScrape \/ now.count = None \/ before.count = None THEN None
  ELSE Rise(now.count - before.count)

\* deque(maxlen=history_points)
Recent(rows) == IF Len(rows) > HistoryPoints THEN Tail(rows) ELSE rows

\* The rest of the collecting, then the tick and the row, l.625-639; no row while
\* /metrics is unreachable.
Collect ==
  /\ server # "ended" /\ pc = "collect"
  /\ tick' = tick + 1
  /\ history' = IF scrape = NoScrape THEN history
                ELSE Recent(Append(history,
                       [tick  |-> tick + 1,
                        gpu   |-> scrape.gpu,
                        gen   |-> Rate(scrape, prev),
                        since |-> IF prev = NoScrape THEN scrape.made ELSE prev.made,
                        until |-> scrape.made]))
  /\ pc' = "publish"
  /\ UNCHANGED <<engineVars, server, scrape, prev, view, published, pageVars>>

\* build_view copies the history; then the view is published under the lock, and the
\* scrape becomes the one to compare with, l.666-683.  start() returns after the first
\* sample and serve_forever begins.  (The mutant keeps the old scrape to compare with
\* after an outage.)
MutantNext(seen, before) == IF seen = NoScrape THEN before ELSE seen
NextPrev(seen, before) == seen

Publish ==
  /\ server # "ended" /\ pc = "publish"
  /\ view' = [tick |-> tick, history |-> history]
  /\ published' = published \cup {tick}
  /\ prev' = NextPrev(scrape, prev)
  /\ pc' = "wait" /\ server' = "serving" /\ scrape' = NoScrape
  /\ UNCHANGED <<engineVars, tick, history, pageVars>>

\* Something in sample() raises, before or after the row was appended.  _loop goes on
\* (l.689); the first sample ends the panel.  (The mutant's thread dies of it.)
MutantAfterError == "dead"
AfterError == "wait"

Raise ==
  /\ server # "ended" /\ pc \in {"collect", "publish"}
  /\ pc' = AfterError /\ scrape' = NoScrape
  /\ server' = IF server = "first" THEN "ended" ELSE server
  /\ UNCHANGED <<engineVars, tick, prev, history, view, published, pageVars>>

\* stop_event.wait(interval) has timed out.
WaitOver ==
  /\ server = "serving" /\ pc = "wait"
  /\ pc' = "fetch"
  /\ UNCHANGED <<engineVars, server, scrape, tick, prev, history, view, published,
                 pageVars>>

\* serve_forever returns; the threads are daemons and end with the process, and its
\* memory is gone.
Stop ==
  /\ server = "serving" /\ server' = "ended"
  /\ pc' = "wait" /\ scrape' = NoScrape /\ prev' = NoScrape
  /\ tick' = 0 /\ published' = {} /\ history' = <<>> /\ view' = NoView
  /\ poller' = [c \in Pollers |-> IF poller[c] = "answered" THEN "asked" ELSE poller[c]]
  /\ got' = [c \in Pollers |-> NoView]
  /\ UNCHANGED <<engineVars, paused, shown, crowded>>

-----------------------------------------------------------------------------
(* The page.  A call of tick() that was not paused ends by arming a timer   *)
(* for the next: a chain.                                                  *)

Active(c) == poller[c] # "none"

Begin ==
  /\ \E c \in Pollers : ~Active(c)
  /\ poller' = [poller EXCEPT ![CHOOSE c \in Pollers : ~Active(c)] = "asked"]
  /\ crowded' = (crowded \/ \E d \in Pollers : Active(d))

\* There is a page: one that is not paused has a chain.
Loaded == paused \/ \E c \in Pollers : Active(c)

\* The page is loaded, and ends its script with tick().
Load ==
  /\ server = "serving" /\ ~Loaded
  /\ Begin
  /\ UNCHANGED <<engineVars, sampleVars, paused, got, shown>>

Pause ==
  /\ Loaded /\ ~paused /\ paused' = TRUE
  /\ UNCHANGED <<engineVars, sampleVars, poller, got, shown, crowded>>

\* The change handler calls tick() whether or not a timer is still pending, l.952-955.
Resume ==
  /\ paused /\ paused' = FALSE
  /\ Begin
  /\ UNCHANGED <<engineVars, sampleVars, got, shown>>

\* The timer fires: a chain that finds the page paused ends, l.917.  (The mutant arms the
\* next timer before the answer has come, as setInterval would.)
MutantFire(c) ==
  /\ poller[c] = "armed" /\ ~paused
  /\ poller' = [d \in Pollers |-> IF d = c THEN "asked"
                                 ELSE IF Active(d) THEN poller[d] ELSE "armed"]
  /\ UNCHANGED <<engineVars, sampleVars, paused, got, shown, crowded>>

Fire(c) ==
  /\ poller[c] = "armed"
  /\ poller' = [poller EXCEPT ![c] = IF paused THEN "none" ELSE "asked"]
  /\ UNCHANGED <<engineVars, sampleVars, paused, got, shown, crowded>>

\* An HTTP thread takes the latest view under the lock, l.1143-1148.
Answer(c) ==
  /\ server = "serving" /\ poller[c] = "asked"
  /\ poller' = [poller EXCEPT ![c] = "answered"]
  /\ got' = [got EXCEPT ![c] = view]
  /\ UNCHANGED <<engineVars, sampleVars, paused, shown, crowded>>

\* What that thread serialises while the sampling goes on.  (The mutant's view refers to
\* the sampler's buffer instead of a copy, l.591.)
MutantSerialised(v) == [v EXCEPT !.history = history]
Serialised(v) == v

Show(c) ==
  /\ poller[c] = "answered"
  /\ poller' = [poller EXCEPT ![c] = "armed"]
  /\ shown' = Serialised(got[c])
  /\ got' = [got EXCEPT ![c] = NoView]
  /\ UNCHANGED <<engineVars, sampleVars, paused, crowded>>

\* The fetch fails; the page says so, keeps what it shows and tries again, l.944-949.
FetchFails(c) ==
  /\ poller[c] \in {"asked", "answered"}
  /\ poller' = [poller EXCEPT ![c] = "armed"]
  /\ got' = [got EXCEPT ![c] = NoView]
  /\ UNCHANGED <<engineVars, sampleVars, paused, shown, crowded>>

-----------------------------------------------------------------------------
Init ==
  /\ count = 0 /\ made = 0
  /\ server = "first" /\ pc = "fetch"
  /\ scrape = NoScrape /\ prev = NoScrape
  /\ tick = 0 /\ published = {} /\ history = <<>> /\ view = NoView
  /\ paused = FALSE /\ crowded = FALSE
  /\ poller = [c \in Pollers |-> "none"]
  /\ got = [c \in Pollers |-> NoView]
  /\ shown = NoView

Engine == Generate \/ Restart
Sampling == Fetch \/ Collect \/ Publish \/ Raise \/ WaitOver
Page(c) == Fire(c) \/ Answer(c) \/ Show(c) \/ FetchFails(c)

Next ==
  \/ Engine
  \/ Sampling
  \/ Stop
  \/ Load \/ Pause \/ Resume
  \/ \E c \in Pollers : Page(c)

\* The interval passes, and a sample that was begun ends.
Spec == Init /\ [][Next]_vars /\ WF_vars(Sampling)

-----------------------------------------------------------------------------
(* What the panel promises.                                                *)

\* The curve of a rate never shows a token twice and never one that was not made: a row
\* covers at most the tokens between its two scrapes, and no row reaches back before one
\* whose sample was published.  Engine restarts, outages and series that appear late do
\* not change that.  (A sample that fails after its row was appended leaves the row, and
\* the next one covers its tokens again.)
CurveInventsNothing ==
  \A j \in 1..Len(history) : history[j].gen # None =>
    /\ history[j].gen <= history[j].until - history[j].since
    /\ \A i \in 1..(j - 1) :
         history[i].tick \in published => history[i].until <= history[j].since

\* An outage was noticed between two neighbouring rows.
OutageBefore(j) ==
  \E k \in published : history[j - 1].tick < k /\ k < history[j].tick

\* l.836: "nulls break the line so a stalled scrape shows a gap instead of a fake straight
\* edge" holds for the curves of rates: after an outage the first row has no rate.
RatesShowOutages ==
  \A j \in 2..Len(history) : OutageBefore(j) => history[j].gen = None

\* No browser sees half a sample: the rows of any view that is being served or displayed
\* are those that existed when it was published, whatever the sampling thread has appended
\* since.
ViewsAreWhole ==
  \A v \in {view, shown} \cup {got[c] : c \in Pollers} :
    v # NoView => \A i \in 1..Len(v.history) : v.history[i].tick <= v.tick

\* The page never replaces what it shows by an older sample, unless a quick change of the
\* check box has started a second chain of polls (their answers overtake each other).
ShownNeverGoesBack ==
  [][shown # NoView /\ ~crowded => shown'.tick >= shown.tick]_vars

\* A sample that fails does not end the sampling: as long as the panel serves, the next one
\* is taken.
SamplingGoesOn ==
  server = "serving" ~> pc = "fetch" \/ server = "ended"
================================================================================

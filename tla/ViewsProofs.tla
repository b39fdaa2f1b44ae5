------------------------------ MODULE ViewsProofs ------------------------------
(***************************************************************************)
(* What the monitors show, for any servers, files and order of events: the *)
(* safety properties of Views.                                             *)
(***************************************************************************)
EXTENDS Views, FiniteSetTheorems, TLAPS

PCs == {"fetch", "find", "collect", "walk", "end"}
Used == {"serving", "stopping", "gone"}
Requested == [requests : Nat, lag : [Tiers -> Nat \X Nat]]
Configs == [known : BOOLEAN, pid : Pids \cup {None}, cpu : Nat \cup {None},
            fs : Nat \cup {None}, chain : Nat \cup {None}]

\* An answer of /metrics: the labelled series of a tier come together.
Scrapes ==
    {s \in UNION {[D -> Nat] : D \in SUBSET Series} :
        /\ {HitsKey, BlockKey} \subseteq DOMAIN s /\ s[BlockKey] = Block
        /\ \A t \in Tiers : CountKey(t) \in DOMAIN s <=> SumKey(t) \in DOMAIN s}

TypeOK ==
    /\ proc \in [Pids -> {"absent", "loading"} \cup Used]
    /\ series \in [Pids -> Scrapes \cup {NoScrape}]
    /\ files \in SUBSET Files
    /\ args \in [url : Ports \cup {None}, pid : Pids \cup {None}]
    /\ pc \in PCs /\ tick \in Nat
    /\ m \in Scrapes \cup {NoScrape} /\ prev \in Scrapes \cup {NoScrape}
    /\ pid \in Pids \cup {None} /\ cfg \in Configs
    /\ dirs \subseteq Ranks /\ names \subseteq Files /\ disk \subseteq Files
    /\ by \in Pids \cup {None} /\ prevBy \in Pids \cup {None}
    /\ happened \in [Pids -> Requested] /\ window \in Requested
    /\ steady \in BOOLEAN
    /\ there \subseteq Files /\ ever \subseteq Files

-----------------------------------------------------------------------------
(* The inductive invariant.                                                *)

\* Who serves is a server, and has counters.
Servers ==
    \A p \in Pids : proc[p] \in {"serving", "stopping"} => IsServer(p) /\ series[p] # NoScrape

\* What a series has risen by between two scrapes is what was requested in between.
Grown(old, new, w) ==
    /\ new[HitsKey] = old[HitsKey] + w.requests
    /\ \A t \in Tiers :
        /\ At(new, CountKey(t)) = At(old, CountKey(t)) + w.lag[t][1]
        /\ At(new, SumKey(t)) = At(old, SumKey(t)) + w.lag[t][2]

Scraping ==
    /\ by # None => proc[by] \in Used /\ m # NoScrape /\ m = series[by]
    /\ by = None => m = NoScrape
    /\ pc \in {"fetch", "end"} => by = None
    /\ prevBy # None => proc[prevBy] \in Used /\ prev # NoScrape /\ series[prevBy] # NoScrape
    /\ prevBy = None => prev = NoScrape
    /\ pc = "fetch" /\ prevBy # None => Grown(prev, series[prevBy], happened[prevBy])
    /\ pc # "fetch" => happened = [p \in Pids |-> NoRequests]
    /\ by # None /\ by = prevBy => Grown(prev, m, window)

\* The command line is that of the server that was scraped, unless something went on.
Settled(c, s) ==
    c.known => /\ c.pid \in Pids /\ c.cpu = Argv[c.pid].cpu
               /\ c.chain = ChainChunks(Argv[c.pid].maxLen, Scraped(s, "block_size", AnyTier))

Configured ==
    /\ pc = "find" /\ steady /\ args.url = None /\ by # None => Serves(by, Port)
    /\ pc = "collect" /\ steady /\ args.url = None /\ args.pid = None =>
          None \in {by, pid} \/ pid = by
    /\ pc = "walk" /\ steady /\ args.url = None /\ args.pid = None =>
          None \in {by, cfg.pid} \/ cfg.pid = by
    /\ cfg.known => pc = "walk"
    /\ Settled(cfg, m)

\* A file that stays is counted, listed or in a directory still to be listed.
Walking ==
    pc = "walk" =>
        /\ there \subseteq disk \cup names \cup {f \in Files : RankOf[f] \in dirs}
        /\ there \subseteq files /\ files \subseteq ever
        /\ disk \cup names \subseteq ever

\* What is shown was true at the end of the tick.
Seen(v) ==
    /\ v.m \in Scrapes \cup {NoScrape} /\ v.prev \in Scrapes \cup {NoScrape}
    /\ v.by \in Pids \cup {None} /\ v.window \in Requested
    /\ v.by # None => v.m # NoScrape
    /\ v.prevBy # None => v.prev # NoScrape
    /\ v.by # None /\ v.by = v.prevBy => Grown(v.prev, v.m, v.window)
    /\ v.steady /\ args.url = None /\ args.pid = None => None \in {v.by, v.cfg.pid} \/ v.cfg.pid = v.by
    /\ v.cfg \in Configs /\ Settled(v.cfg, v.m) /\ v.chunk = Derived(v.cfg, v.disk)
    /\ v.there \subseteq v.disk /\ v.disk \subseteq v.ever /\ v.ever \subseteq Files

IInv == TypeOK /\ Servers /\ Scraping /\ Configured /\ Walking /\ (Shown(shown) => Seen(shown))

-----------------------------------------------------------------------------
(* Lemmas about the operators.                                             *)

\* The sum over a set of one element.
LEMMA SumOfOne ==
    ASSUME NEW s, NEW x, s[x] \in Int
    PROVE  MapThenSumSet(LAMBDA k : s[k], {x}) = s[x]
<1> DEFINE Body(g) == [t \in SUBSET {x} |-> IF t = {} THEN 0
                          ELSE LET c == CHOOSE y \in t : TRUE IN s[c] + g[t \ {c}]]
           iter == CHOOSE g : g = Body(g)
           w == [t \in SUBSET {x} |-> IF t = {} THEN 0 ELSE s[x] + 0]
<1>1. MapThenSumSet(LAMBDA k : s[k], {x}) = iter[{x}]
  BY DEF MapThenSumSet, MapThenFoldSet
<1>2. w = Body(w)
  <2>1. \A t \in SUBSET {x} : t # {} => t = {x} /\ (CHOOSE y \in t : TRUE) = x /\ t \ {x} = {}
    OBVIOUS
  <2> QED  BY <2>1
<1>3. iter = Body(iter)
  <2> HIDE DEF w, Body
  <2> QED  BY <1>2
<1>4. (CHOOSE y \in {x} : TRUE) = x /\ {x} \ {x} = {} /\ {x} # {}
  OBVIOUS
<1> HIDE DEF iter
<1>5. iter[{}] = 0
  BY <1>3
<1>6. iter[{x}] = s[x] + iter[{}]
  BY <1>3, <1>4
<1> QED  BY <1>1, <1>5, <1>6

LEMMA Keys ==
    /\ HitsKey # BlockKey /\ HitsKey \in Series /\ BlockKey \in Series
    /\ \A t \in Tiers : /\ CountKey(t) \notin {HitsKey, BlockKey} /\ CountKey(t) \in Series
                        /\ SumKey(t) \notin {HitsKey, BlockKey} /\ SumKey(t) \in Series
    /\ \A t, u \in Tiers : /\ CountKey(t) # SumKey(u)
                           /\ CountKey(t) = CountKey(u) <=> t = u
                           /\ SumKey(t) = SumKey(u) <=> t = u
BY DEF HitsKey, BlockKey, CountKey, SumKey, Series

LEMMA KeyParts ==
    /\ HitsKey[1] = "hits" /\ HitsKey[2] = "-"
    /\ BlockKey[1] = "block_size" /\ BlockKey[2] = "-"
    /\ \A t : /\ CountKey(t)[1] = "lag_count" /\ CountKey(t)[2] = t
              /\ SumKey(t)[1] = "lag_sum" /\ SumKey(t)[2] = t
BY DEF HitsKey, BlockKey, CountKey, SumKey

LEMMA ScrapeType ==
    ASSUME NEW s \in Scrapes
    PROVE  /\ s # NoScrape /\ DOMAIN s \subseteq Series /\ s \in [DOMAIN s -> Nat]
           /\ HitsKey \in DOMAIN s /\ BlockKey \in DOMAIN s /\ s[BlockKey] = Block
           /\ \A t \in Tiers : CountKey(t) \in DOMAIN s <=> SumKey(t) \in DOMAIN s
<1>1. PICK D \in SUBSET Series : s \in [D -> Nat]
  BY DEF Scrapes
<1>2. s # NoScrape
  BY <1>1, NamesAssumption
<1> QED  BY <1>1, <1>2 DEF Scrapes

\* A counter, and a series of one tier, is the sum of one value.
LEMMA GetOne ==
    ASSUME NEW s \in Scrapes, NEW name, NEW label, NEW key,
           {k \in DOMAIN s : k[1] = name /\ label \in {k[2], AnyTier}} = {key} \cap DOMAIN s
    PROVE  Get(s, name, label) = IF key \in DOMAIN s THEN s[key] ELSE None
<1>1. CASE key \in DOMAIN s
  <2>1. {k \in DOMAIN s : k[1] = name /\ label \in {k[2], AnyTier}} = {key} /\ {key} # {}
    BY <1>1
  <2>2. s[key] \in Int
    BY <1>1, ScrapeType
  <2>3. Get(s, name, label) = MapThenSumSet(LAMBDA k : s[k], {key})
    BY <2>1 DEF Get
  <2> QED  BY <1>1, <2>2, <2>3, SumOfOne
<1>2. CASE key \notin DOMAIN s
  <2>1. {k \in DOMAIN s : k[1] = name /\ label \in {k[2], AnyTier}} = {}
    BY <1>2
  <2> QED  BY <1>2, <2>1 DEF Get
<1> QED  BY <1>1, <1>2

LEMMA GetHits ==
    ASSUME NEW s \in Scrapes
    PROVE  Get(s, "hits", AnyTier) = s[HitsKey] /\ s[HitsKey] \in Nat
<1>1. \A k \in Series : k[1] = "hits" <=> k = HitsKey
  BY KeyParts DEF Series
<1>2. {k \in DOMAIN s : k[1] = "hits" /\ AnyTier \in {k[2], AnyTier}} = {HitsKey} \cap DOMAIN s
  BY <1>1, ScrapeType
<1> QED  BY <1>2, GetOne, ScrapeType

LEMMA GetBlock ==
    ASSUME NEW s \in Scrapes
    PROVE  Get(s, "block_size", AnyTier) = Block
<1>1. \A k \in Series : k[1] = "block_size" <=> k = BlockKey
  BY KeyParts DEF Series
<1>2. {k \in DOMAIN s : k[1] = "block_size" /\ AnyTier \in {k[2], AnyTier}} = {BlockKey} \cap DOMAIN s
  BY <1>1, ScrapeType
<1> QED  BY <1>2, GetOne, ScrapeType

LEMMA GetLag ==
    ASSUME NEW s \in Scrapes, NEW t \in Tiers
    PROVE  /\ OrZero(Get(s, "lag_count", t)) = At(s, CountKey(t)) /\ At(s, CountKey(t)) \in Nat
           /\ OrZero(Get(s, "lag_sum", t)) = At(s, SumKey(t)) /\ At(s, SumKey(t)) \in Nat
           /\ t \in LabelsOf(s, "lag_count") =>
                  /\ Get(s, "lag_count", t) = At(s, CountKey(t))
                  /\ Get(s, "lag_sum", t) = At(s, SumKey(t))
<1>1. \A k \in Series : /\ k[1] = "lag_count" /\ t \in {k[2], AnyTier} <=> k = CountKey(t)
                        /\ k[1] = "lag_sum" /\ t \in {k[2], AnyTier} <=> k = SumKey(t)
  BY KeyParts, NamesAssumption DEF Series
<1>2. {k \in DOMAIN s : k[1] = "lag_count" /\ t \in {k[2], AnyTier}} = {CountKey(t)} \cap DOMAIN s
  BY <1>1, ScrapeType
<1>3. {k \in DOMAIN s : k[1] = "lag_sum" /\ t \in {k[2], AnyTier}} = {SumKey(t)} \cap DOMAIN s
  BY <1>1, ScrapeType
<1>4. /\ Get(s, "lag_count", t) = IF CountKey(t) \in DOMAIN s THEN s[CountKey(t)] ELSE None
      /\ Get(s, "lag_sum", t) = IF SumKey(t) \in DOMAIN s THEN s[SumKey(t)] ELSE None
  BY <1>2, <1>3, GetOne
<1>5. \A k \in DOMAIN s : s[k] \in Nat /\ s[k] # None
  BY ScrapeType, NamesAssumption
<1>6. t \in LabelsOf(s, "lag_count") => CountKey(t) \in DOMAIN s /\ SumKey(t) \in DOMAIN s
  <2>1. SUFFICES ASSUME NEW k \in DOMAIN s, k[1] = "lag_count", k[2] = t
                 PROVE  CountKey(t) \in DOMAIN s /\ SumKey(t) \in DOMAIN s
    BY DEF LabelsOf
  <2>2. k = CountKey(t)
    BY <1>1, <2>1, ScrapeType
  <2> QED  BY <2>1, <2>2, ScrapeType
<1> QED  BY <1>4, <1>5, <1>6 DEF At, OrZero

\* A request raises the counters as it says.
LEMMA RequestGrows ==
    ASSUME NEW s \in Scrapes, NEW t \in Tiers, NEW d \in Delays
    PROVE  LET new == WithRequest(s, t, d)
           IN  /\ new \in Scrapes /\ new[HitsKey] = s[HitsKey] + 1
               /\ \A u \in Tiers :
                    /\ At(new, CountKey(u)) = At(s, CountKey(u)) + IF u = t THEN 1 ELSE 0
                    /\ At(new, SumKey(u)) = At(s, SumKey(u)) + IF u = t THEN d ELSE 0
<1> DEFINE new == WithRequest(s, t, d)
           D == DOMAIN s \cup {CountKey(t), SumKey(t)}
           more(k) == IF k = SumKey(t) THEN d ELSE IF k \in {HitsKey, CountKey(t)} THEN 1 ELSE 0
<1>1. new = [k \in D |-> At(s, k) + more(k)]
  BY DEF WithRequest
<1>2. \A k : At(s, k) \in Nat /\ more(k) \in Nat
  BY ScrapeType, HostAssumption DEF At
<1>3. D \in SUBSET Series
  BY Keys, ScrapeType
<1> HIDE DEF new
<1>4. new \in [D -> Nat] /\ DOMAIN new = D
  <2>1. \A k : At(s, k) + more(k) \in Nat
    <3> HIDE DEF more
    <3> QED  BY <1>2
  <2> HIDE DEF more, D
  <2> QED  BY <1>1, <2>1
<1>5. /\ more(HitsKey) = 1 /\ more(BlockKey) = 0
      /\ \A u \in Tiers : /\ more(CountKey(u)) = IF u = t THEN 1 ELSE 0
                          /\ more(SumKey(u)) = IF u = t THEN d ELSE 0
  BY Keys
<1>6. /\ new[HitsKey] = s[HitsKey] + 1 /\ new[BlockKey] = s[BlockKey]
      /\ HitsKey \in D /\ BlockKey \in D
  <2>1. HitsKey \in DOMAIN s /\ BlockKey \in DOMAIN s /\ s[BlockKey] \in Nat
    BY ScrapeType
  <2>2. new[HitsKey] = s[HitsKey] + more(HitsKey) /\ new[BlockKey] = s[BlockKey] + more(BlockKey)
    <3> HIDE DEF more
    <3> QED  BY <1>1, <2>1 DEF At
  <2> HIDE DEF more
  <2> QED  BY <1>5, <2>1, <2>2
<1>7. ASSUME NEW u \in Tiers
      PROVE  /\ At(new, CountKey(u)) = At(s, CountKey(u)) + IF u = t THEN 1 ELSE 0
             /\ At(new, SumKey(u)) = At(s, SumKey(u)) + IF u = t THEN d ELSE 0
             /\ CountKey(u) \in D <=> SumKey(u) \in D
  <2>1. CountKey(u) \in D <=> u = t \/ CountKey(u) \in DOMAIN s
    BY Keys
  <2>2. SumKey(u) \in D <=> u = t \/ SumKey(u) \in DOMAIN s
    BY Keys
  <2>3. \A k : At(new, k) = IF k \in D THEN At(s, k) + more(k) ELSE 0
    <3> HIDE DEF more, D
    <3> QED  BY <1>1, <1>4 DEF At
  <2> HIDE DEF more, D
  <2> QED  BY <1>2, <1>5, <2>1, <2>2, <2>3, ScrapeType DEF At
<1>8. new \in Scrapes
  <2>1. new \in UNION {[E -> Nat] : E \in SUBSET Series}
    <3> HIDE DEF D
    <3> QED  BY <1>3, <1>4
  <2> HIDE DEF D
  <2> QED  BY <1>4, <1>6, <1>7, <2>1, ScrapeType DEF Scrapes
<1> QED  BY <1>6, <1>7, <1>8 DEF new

LEMMA FirstScrape ==
    [k \in {HitsKey, BlockKey} |-> IF k = BlockKey THEN Block ELSE 0] \in Scrapes
<1> DEFINE s == [k \in {HitsKey, BlockKey} |-> IF k = BlockKey THEN Block ELSE 0]
<1>1. s \in [{HitsKey, BlockKey} -> Nat] /\ DOMAIN s = {HitsKey, BlockKey} /\ s[BlockKey] = Block
  BY HostAssumption
<1>2. {HitsKey, BlockKey} \in SUBSET Series
  BY Keys
<1> HIDE DEF s
<1>3. s \in UNION {[E -> Nat] : E \in SUBSET Series}
  BY <1>1, <1>2
<1>4. \A t \in Tiers : CountKey(t) \notin DOMAIN s /\ SumKey(t) \notin DOMAIN s
  BY <1>1, Keys
<1> QED  BY <1>1, <1>3, <1>4 DEF Scrapes, s

LEMMA Product ==
    ASSUME NEW x \in Nat \ {0}, NEW y \in Nat \ {0}
    PROVE  x * y \in Nat \ {0} /\ x * y = y * x /\ (x * y) % x = 0 /\ (x * y) \div x = y
OBVIOUS

LEMMA ChainIsPositive == \A n \in Nat \ {0} : CeilDiv(n, Block) \in Nat \ {0}
<1> TAKE n \in Nat \ {0}
<1>1. n + Block - 1 \in Nat /\ n + Block - 1 >= Block
  BY HostAssumption
<1>2. \A x, y \in Nat : y > 0 /\ x >= y => x \div y \in Nat /\ x \div y >= 1
  OBVIOUS
<1> QED  BY <1>1, <1>2, HostAssumption DEF CeilDiv

\* A tier of k chains of c chunks: its bytes divided by c, and that divided into it again.
LEMMA Chain ==
    ASSUME NEW n \in Nat \ {0}, NEW c, c = CeilDiv(n, Block),
           NEW cpu \in Nat \ {0}, NEW k, k = cpu \div (c * ChunkBytes),
           cpu = k * (c * ChunkBytes)
    PROVE  /\ c \in Nat \ {0} /\ k \in Nat \ {0} /\ k * ChunkBytes \in Nat \ {0}
           /\ cpu % c = 0 /\ cpu \div c = k * ChunkBytes
           /\ cpu \div (k * ChunkBytes) = c
           /\ cpu \div ((k * ChunkBytes) * c) = 1
<1>1. c \in Nat \ {0}
  BY ChainIsPositive
<1>2. \A x, y \in Nat \ {0} : /\ x * y \in Nat \ {0} /\ x * y = y * x
                              /\ (x * y) % x = 0 /\ (x * y) \div x = y
  BY ONLY Product
<1>3. ChunkBytes \in Nat \ {0}
  BY HostAssumption
<1>4. k \in Nat \ {0}
  <2>1. c * ChunkBytes \in Nat \ {0}
    BY ONLY <1>1, <1>2, <1>3
  <2>2. \A x, y \in Nat : y > 0 => x \div y \in Nat
    BY ONLY TRUE
  <2>3. k \in Nat
    BY <2>1, <2>2
  <2>4. \A x \in Nat : 0 * x = 0
    BY ONLY TRUE
  <2> QED  BY <2>1, <2>3, <2>4
<1>5. k * ChunkBytes \in Nat \ {0}
  BY ONLY <1>2, <1>3, <1>4
<1>6. cpu = c * (k * ChunkBytes)
  <2>1. \A x, y, z \in Nat : x * (y * z) = y * (x * z)
    BY ONLY TRUE
  <2> QED  BY ONLY <1>1, <1>3, <1>4, <2>1, cpu = k * (c * ChunkBytes)
<1>7. cpu % c = 0 /\ cpu \div c = k * ChunkBytes /\ cpu \div (k * ChunkBytes) = c
  BY ONLY <1>1, <1>2, <1>5, <1>6
<1>8. cpu \div ((k * ChunkBytes) * c) = 1
  <2>1. \A x \in Nat \ {0} : x \div x = 1
    BY ONLY TRUE
  <2> QED  BY ONLY <1>1, <1>2, <1>5, <1>6, <2>1
<1> QED  BY <1>1, <1>4, <1>5, <1>7, <1>8

-----------------------------------------------------------------------------
(* Every action keeps the invariant.                                       *)

LEMMA NoRequestsType == NoRequests \in Requested
BY DEF NoRequests, Requested

LEMMA GrownBy0 == \A s \in Scrapes : Grown(s, s, NoRequests)
<1> SUFFICES ASSUME NEW s \in Scrapes  PROVE Grown(s, s, NoRequests)
  OBVIOUS
<1>1. s[HitsKey] \in Nat /\ \A t \in Tiers : At(s, CountKey(t)) \in Nat /\ At(s, SumKey(t)) \in Nat
  BY GetHits, GetLag
<1> QED  BY <1>1 DEF Grown, NoRequests

THEOREM Initial == Init => IInv
<1> SUFFICES ASSUME Init  PROVE IInv
  OBVIOUS
<1> USE DEF Init
<1>1. cfg \in Configs /\ ~cfg.known
  BY DEF NoConfig, Configs
<1>2. TypeOK
  BY <1>1, NoRequestsType DEF TypeOK, PCs, Used
<1>3. Servers /\ Walking
  BY DEF Servers, Walking
<1>4. Scraping
  BY DEF Scraping
<1>5. Configured
  BY <1>1 DEF Configured, Settled
<1> QED  BY <1>2, <1>3, <1>4, <1>5 DEF IInv, Shown

\* A process that starts, stops or begins to serve is not the one that was scraped.
LEMMA ProcStep ==
    ASSUME IInv, NEW p \in Pids, Start(p) \/ Serve(p) \/ Stop(p)
    PROVE  IInv'
<1>1. /\ steady' = FALSE /\ pc \in Looking
      /\ UNCHANGED <<files, args, tickVars, by, prevBy, happened, window, there, ever>>
  BY DEF Start, Serve, Stop
<1>2. /\ proc \in [Pids -> {"absent", "loading"} \cup Used]
      /\ series \in [Pids -> Scrapes \cup {NoScrape}]
      /\ by \in Pids \cup {None} /\ prevBy \in Pids \cup {None}
  BY DEF IInv, TypeOK
<1>3. /\ proc' \in [Pids -> {"absent", "loading"} \cup Used]
      /\ series' \in [Pids -> Scrapes \cup {NoScrape}]
      /\ \A q \in Pids : proc[q] \in Used => proc'[q] \in Used /\ series'[q] = series[q]
      /\ \A q \in Pids : proc'[q] \in {"serving", "stopping"} => IsServer(q) /\ series'[q] # NoScrape
  <2>1. CASE Start(p)
    BY <1>2, <2>1 DEF Start, IInv, Servers, Used
  <2>2. CASE Serve(p)
    <3> DEFINE s == [k \in {HitsKey, BlockKey} |-> IF k = BlockKey THEN Block ELSE 0]
    <3>1. s \in Scrapes /\ s # NoScrape
      BY FirstScrape, ScrapeType
    <3>2. /\ proc' = [proc EXCEPT ![p] = "serving"] /\ series' = [series EXCEPT ![p] = s]
          /\ proc[p] = "loading" /\ IsServer(p)
      BY <2>2 DEF Serve
    <3> HIDE DEF s
    <3> QED  BY <1>2, <3>1, <3>2 DEF IInv, Servers, Used
  <2>3. CASE Stop(p)
    BY <1>2, <2>3 DEF Stop, InProc, IInv, Servers, Used
  <2> QED  BY <2>1, <2>2, <2>3
<1> USE DEF tickVars
<1>4. TypeOK'
  BY <1>1, <1>3 DEF IInv, TypeOK
<1>5. Servers'
  BY <1>3 DEF Servers, IsServer
<1>6. Scraping'
  BY <1>1, <1>2, <1>3 DEF IInv, Scraping
<1>7. Configured' /\ Walking'
  BY <1>1 DEF IInv, Configured, Settled, Walking, Looking
<1>8. Shown(shown)' => Seen(shown)'
  BY <1>1 DEF IInv, Shown, Seen, Settled
<1> QED  BY <1>4, <1>5, <1>6, <1>7, <1>8 DEF IInv

LEMMA RequestStep ==
    ASSUME IInv, NEW p \in Pids, NEW t \in Tiers, NEW d \in Delays, Request(p, t, d)
    PROVE  IInv'
<1> DEFINE new == WithRequest(series[p], t, d)
<1>1. /\ pc = "fetch" /\ proc[p] = "serving" /\ series' = [series EXCEPT ![p] = new]
      /\ happened' = [happened EXCEPT ![p].requests = @ + 1, ![p].lag[t] = <<@[1] + 1, @[2] + d>>]
      /\ UNCHANGED <<proc, files, args, tickVars, by, prevBy, window, steady, there, ever>>
  BY DEF Request
<1>2. series[p] \in Scrapes /\ series \in [Pids -> Scrapes \cup {NoScrape}] /\ happened \in [Pids -> Requested]
  BY <1>1 DEF IInv, TypeOK, Servers
<1>3. /\ new \in Scrapes /\ new # NoScrape /\ new[HitsKey] = series[p][HitsKey] + 1
      /\ \A u \in Tiers :
            /\ At(new, CountKey(u)) = At(series[p], CountKey(u)) + IF u = t THEN 1 ELSE 0
            /\ At(new, SumKey(u)) = At(series[p], SumKey(u)) + IF u = t THEN d ELSE 0
  BY <1>2, RequestGrows, ScrapeType
<1> HIDE DEF new
<1>4. d \in Nat
  BY HostAssumption
<1>5. /\ happened[p].requests \in Nat /\ happened[p].lag \in [Tiers -> Nat \X Nat]
      /\ \A u \in Tiers : happened[p].lag[u][1] \in Nat /\ happened[p].lag[u][2] \in Nat
  BY <1>2 DEF Requested
<1>6. /\ happened'[p].requests = happened[p].requests + 1
      /\ happened'[p].lag = [happened[p].lag EXCEPT ![t] = <<@[1] + 1, @[2] + d>>]
      /\ happened'[p] = [requests |-> happened'[p].requests, lag |-> happened'[p].lag]
      /\ \A q \in Pids \ {p} : happened'[q] = happened[q]
      /\ happened' = [q \in Pids |-> happened'[q]]
  BY <1>1, <1>2 DEF Requested
<1>7. \A u \in Tiers :
        /\ happened'[p].lag[u][1] = happened[p].lag[u][1] + IF u = t THEN 1 ELSE 0
        /\ happened'[p].lag[u][2] = happened[p].lag[u][2] + IF u = t THEN d ELSE 0
  BY <1>4, <1>5, <1>6
<1>8. happened' \in [Pids -> Requested]
  <2>1. happened'[p].lag \in [Tiers -> Nat \X Nat] /\ happened'[p].requests \in Nat
    BY <1>4, <1>5, <1>6
  <2>2. happened'[p] \in Requested
    BY <1>6, <2>1 DEF Requested
  <2>3. \A q \in Pids : happened'[q] \in Requested
    BY <1>2, <1>6, <2>2
  <2> QED  BY <1>6, <2>3
<1>9. series'[p] = new /\ \A q \in Pids \ {p} : series'[q] = series[q]
  BY <1>1, <1>2
<1>10. series' \in [Pids -> Scrapes \cup {NoScrape}]
  BY <1>1, <1>2, <1>3
<1> USE DEF tickVars
<1>11. TypeOK'
  BY <1>1, <1>8, <1>10 DEF IInv, TypeOK
<1>12. Servers'
  BY <1>1, <1>3, <1>9 DEF IInv, Servers, IsServer
<1>13. Scraping'
  <2>1. by = None
    BY <1>1 DEF IInv, Scraping
  <2>2. ASSUME prevBy # None
        PROVE  series'[prevBy] # NoScrape /\ Grown(prev, series'[prevBy], happened'[prevBy])
    <3>1. prevBy \in Pids /\ prev \in Scrapes /\ Grown(prev, series[prevBy], happened[prevBy])
      BY <1>1, <2>2 DEF IInv, TypeOK, Scraping
    <3>2. CASE prevBy # p
      BY <1>6, <1>9, <2>2, <3>1, <3>2 DEF IInv, Scraping
    <3>3. CASE prevBy = p
      <4>1. prev[HitsKey] \in Nat /\ \A u \in Tiers : At(prev, CountKey(u)) \in Nat /\ At(prev, SumKey(u)) \in Nat
        BY <3>1, GetHits, GetLag
      <4>2. Grown(prev, new, happened'[p])
        <5>1. new[HitsKey] = prev[HitsKey] + happened'[p].requests
          BY <1>3, <1>5, <1>6, <3>1, <3>3, <4>1 DEF Grown
        <5>2. ASSUME NEW u \in Tiers
              PROVE  /\ At(new, CountKey(u)) = At(prev, CountKey(u)) + happened'[p].lag[u][1]
                     /\ At(new, SumKey(u)) = At(prev, SumKey(u)) + happened'[p].lag[u][2]
          <6>1. /\ At(series[p], CountKey(u)) = At(prev, CountKey(u)) + happened[p].lag[u][1]
                /\ At(series[p], SumKey(u)) = At(prev, SumKey(u)) + happened[p].lag[u][2]
            BY <3>1, <3>3 DEF Grown
          <6>2. /\ At(prev, CountKey(u)) \in Nat /\ At(prev, SumKey(u)) \in Nat
                /\ happened[p].lag[u][1] \in Nat /\ happened[p].lag[u][2] \in Nat
            BY <1>5, <4>1
          <6>3. /\ At(new, CountKey(u)) = At(series[p], CountKey(u)) + IF u = t THEN 1 ELSE 0
                /\ At(new, SumKey(u)) = At(series[p], SumKey(u)) + IF u = t THEN d ELSE 0
            BY <1>3
          <6>4. /\ happened'[p].lag[u][1] = happened[p].lag[u][1] + IF u = t THEN 1 ELSE 0
                /\ happened'[p].lag[u][2] = happened[p].lag[u][2] + IF u = t THEN d ELSE 0
            BY <1>7
          <6>5. \A x, y, z \in Nat : (x + y) + z = x + (y + z)
            OBVIOUS
          <6> QED  BY ONLY <1>4, <6>1, <6>2, <6>3, <6>4, <6>5
        <5> QED  BY <5>1, <5>2 DEF Grown
      <4> QED  BY <1>3, <1>9, <3>3, <4>2
    <3> QED  BY <3>2, <3>3
  <2> QED  BY <1>1, <2>1, <2>2 DEF IInv, Scraping
<1>14. Configured' /\ Walking'
  BY <1>1 DEF IInv, Configured, Settled, Walking
<1>15. Shown(shown)' => Seen(shown)'
  BY <1>1 DEF IInv, Shown, Seen, Settled
<1> QED  BY <1>11, <1>12, <1>13, <1>14, <1>15 DEF IInv

LEMMA FileStep ==
    ASSUME IInv, NEW f \in Files, Store(f) \/ Evict(f)
    PROVE  IInv'
<1> USE DEF tickVars
<1>1. /\ pc = "walk" /\ UNCHANGED <<proc, series, args, tickVars, by, prevBy, happened, window, steady>>
      /\ \/ files' = files \cup {f} /\ ever' = ever \cup {f} /\ there' = there
         \/ files' = files \ {f} /\ there' = there \ {f} /\ ever' = ever
  BY DEF Store, Evict
<1>2. TypeOK' /\ Servers' /\ Scraping'
  BY <1>1 DEF IInv, TypeOK, Servers, IsServer, Scraping
<1>3. Configured'
  BY <1>1 DEF IInv, Configured, Settled
<1>4. Walking'
  BY <1>1 DEF IInv, Walking
<1>5. Shown(shown)' => Seen(shown)'
  BY <1>1 DEF IInv, Shown, Seen, Settled
<1> QED  BY <1>2, <1>3, <1>4, <1>5 DEF IInv

LEMMA FetchStep ==
    ASSUME IInv, Fetch
    PROVE  IInv'
<1> USE NamesAssumption DEF hostVars
<1>1. /\ pc = "fetch" /\ pc' = "find" /\ shown' = NoView /\ steady' = TRUE
      /\ happened' = [p \in Pids |-> NoRequests]
      /\ window' = (IF by' = None THEN NoRequests ELSE happened[by'])
      /\ UNCHANGED <<proc, series, files, args, tick, prev, pid, cfg, dirs, names, disk, prevBy,
                     there, ever>>
  BY DEF Fetch
<1>2. \/ /\ by' \in Pids /\ proc[by'] = "serving" /\ m' = series[by'] /\ by' # None
         /\ Argv[by'].port = IF args.url = None THEN Port ELSE args.url
      \/ by' = None /\ m' = NoScrape
  BY DEF Fetch, Serves
<1>3. by' # None => m' \in Scrapes /\ m' # NoScrape /\ IsServer(by')
  BY <1>2, ScrapeType DEF IInv, TypeOK, Servers
<1>4. TypeOK'
  <2>1. window' \in Requested /\ happened' \in [Pids -> Requested]
    BY <1>1, <1>2, NoRequestsType DEF IInv, TypeOK
  <2>2. by' \in Pids \cup {None} /\ m' \in Scrapes \cup {NoScrape}
    BY <1>2, <1>3
  <2> QED  BY <1>1, <2>1, <2>2 DEF IInv, TypeOK, PCs
<1>5. Servers'
  BY <1>1 DEF IInv, Servers, IsServer
<1>6. Scraping'
  <2>1. by' # None /\ by' = prevBy => Grown(prev, m', window')
    BY <1>1, <1>2 DEF IInv, Scraping
  <2> QED  BY <1>1, <1>2, <1>3, <2>1 DEF IInv, Scraping, Used
<1>7. Configured'
  <2>1. ~cfg.known
    BY <1>1 DEF IInv, Configured
  <2>2. by' # None /\ args.url = None => Serves(by, Port)'
    BY <1>1, <1>2 DEF Serves
  <2> QED  BY <1>1, <2>1, <2>2 DEF Configured, Settled
<1>8. Walking' /\ ~Shown(shown)'
  BY <1>1 DEF Walking, Shown
<1> QED  BY <1>4, <1>5, <1>6, <1>7, <1>8 DEF IInv

LEMMA FindPidStep ==
    ASSUME IInv, FindPid
    PROVE  IInv'
<1> USE NamesAssumption DEF hostVars
<1>1. /\ pc = "find" /\ pc' = "collect"
      /\ pid' \in IF args.pid # None THEN {args.pid}
                  ELSE IF Candidates(Port) = {} THEN {None} ELSE Candidates(Port)
      /\ steady' = (steady /\ \A p, q \in Pids :
                    {p, q} \subseteq {r \in Pids : InProc(r) /\ IsServer(r) /\ Argv[r].port = Port}
                        => p = q)
      /\ UNCHANGED <<proc, series, files, args, tick, m, prev, cfg, dirs, names, disk, shown, by, prevBy,
                     happened, window, there, ever>>
  BY DEF FindPid
<1>2. \A p \in Candidates(Port) : p \in Pids /\ InProc(p) /\ IsServer(p) /\ Argv[p].port = Port
  BY DEF Candidates, CommandLine, IsServer
<1>3. args.pid \in Pids \cup {None} /\ steady \in BOOLEAN /\ by \in Pids \cup {None}
  BY DEF IInv, TypeOK
<1>4. TypeOK'
  <2>1. pid' \in Pids \cup {None} /\ steady' \in BOOLEAN
    BY <1>1, <1>2, <1>3
  <2> QED  BY <1>1, <2>1 DEF IInv, TypeOK, PCs
<1>5. Servers' /\ Scraping' /\ Walking'
  BY <1>1 DEF IInv, Servers, IsServer, Scraping, Walking
<1>6. Configured'
  <2>1. ASSUME steady', args.url = None, args.pid = None, by # None, pid' # None
        PROVE  pid' = by
    <3>1. Serves(by, Port) /\ IsServer(by) /\ InProc(by) /\ by \in Pids
      BY <1>1, <1>3, <2>1 DEF IInv, Configured, Servers, Serves, InProc
    <3>2. Argv[by].port = Port
      BY <3>1 DEF Serves
    <3>3. pid' \in Candidates(Port)
      BY <1>1, <2>1
    <3>4. {pid', by} \subseteq {r \in Pids : InProc(r) /\ IsServer(r) /\ Argv[r].port = Port}
      BY <1>2, <3>1, <3>2, <3>3
    <3>5. pid' \in Pids
      BY <1>2, <3>3
    <3> QED  BY <1>1, <2>1, <3>1, <3>4, <3>5
  <2> QED  BY <1>1, <2>1 DEF IInv, Configured, Settled
<1>7. Shown(shown)' => Seen(shown)'
  BY <1>1 DEF IInv, Shown, Seen, Settled
<1> QED  BY <1>4, <1>5, <1>6, <1>7 DEF IInv

LEMMA ConfigType ==
    ASSUME NEW p \in Pids \cup {None}, NEW s \in Scrapes \cup {NoScrape}
    PROVE  /\ ConfigOf(p, s) \in Configs /\ ConfigOf(p, s).pid = p
           /\ Settled(ConfigOf(p, s), s)
<1> USE HostAssumption, NamesAssumption
<1>1. CASE CommandLine(p) = None
  BY <1>1 DEF ConfigOf, NoConfig, Configs, Settled
<1>2. CASE CommandLine(p) # None
  <2> DEFINE c == ChainChunks(Argv[p].maxLen, Scraped(s, "block_size", AnyTier))
  <2>1. p \in Pids /\ CommandLine(p) = Argv[p]
    BY <1>2 DEF CommandLine
  <2>2. /\ Argv[p].maxLen \in Nat \cup {None} /\ Argv[p].cpu \in Nat \cup {None}
        /\ Argv[p].fs \in Nat \cup {None}
    BY <2>1
  <2>3. Scraped(s, "block_size", AnyTier) \in {Block, None}
    BY GetBlock DEF Scraped
  <2>4. c \in Nat \cup {None}
    <3>1. CASE c = None
      BY <3>1
    <3>2. CASE c # None
      <4>1. Argv[p].maxLen \in Nat \ {0} /\ c = CeilDiv(Argv[p].maxLen, Block)
        BY <2>2, <2>3, <3>2 DEF ChainChunks
      <4> QED  BY <4>1, ChainIsPositive
    <3> QED  BY <3>1, <3>2
  <2>5. ConfigOf(p, s) = [known |-> TRUE, pid |-> p, cpu |-> Argv[p].cpu, fs |-> Argv[p].fs, chain |-> c]
    BY <1>2, <2>1 DEF ConfigOf
  <2> HIDE DEF c
  <2>6. ConfigOf(p, s) \in Configs /\ ConfigOf(p, s).pid = p
    BY <2>1, <2>2, <2>4, <2>5 DEF Configs
  <2>7. Settled(ConfigOf(p, s), s)
    BY <2>1, <2>5 DEF Settled, c
  <2> QED  BY <2>6, <2>7
<1> QED  BY <1>1, <1>2

LEMMA CollectStep ==
    ASSUME IInv, Collect
    PROVE  IInv'
<1> USE NamesAssumption DEF hostVars
<1>1. /\ pc = "collect" /\ pc' = "walk" /\ pid' = None /\ cfg' = ConfigOf(pid, m)
      /\ dirs' = (IF cfg'.fs = None THEN {} ELSE Ranks) /\ names' = {} /\ disk' = {}
      /\ there' = (IF cfg'.fs = None THEN {} ELSE files) /\ ever' = files
      /\ UNCHANGED <<proc, series, files, args, tick, m, prev, shown, by, prevBy, happened, window, steady>>
  BY DEF Collect
<1>2. cfg' \in Configs /\ cfg'.pid = pid /\ Settled(cfg', m)
  BY <1>1, ConfigType DEF IInv, TypeOK
<1>3. files \subseteq Files
  BY DEF IInv, TypeOK
<1>4. TypeOK'
  <2>1. dirs' \subseteq Ranks /\ names' \subseteq Files /\ disk' \subseteq Files
        /\ there' \subseteq Files /\ ever' \subseteq Files
    BY <1>1, <1>3
  <2> QED  BY <1>1, <1>2, <2>1 DEF IInv, TypeOK, PCs
<1>5. Servers' /\ Scraping'
  BY <1>1 DEF IInv, Servers, IsServer, Scraping
<1>6. Configured'
  BY <1>1, <1>2 DEF IInv, Configured, Settled
<1>7. Walking'
  <2>1. there' \subseteq {f \in Files : RankOf[f] \in dirs'}
    BY <1>1, <1>3 DEF Ranks
  <2> QED  BY <1>1, <2>1 DEF Walking
<1>8. Shown(shown)' => Seen(shown)'
  BY <1>1 DEF IInv, Shown, Seen, Settled
<1> QED  BY <1>4, <1>5, <1>6, <1>7, <1>8 DEF IInv

LEMMA WalkStep ==
    ASSUME IInv, (\E r \in Ranks : ListDir(r)) \/ (\E f \in Files : Stat(f))
    PROVE  IInv'
<1> USE DEF hostVars, recorded
<1>1. /\ pc = "walk" /\ UNCHANGED <<proc, series, files, args, pc, tick, m, prev, pid, cfg, shown, by,
                                    prevBy, happened, window, steady, there, ever>>
  BY DEF ListDir, Stat
<1>2. /\ dirs' \subseteq dirs /\ names' \subseteq Files /\ disk' \subseteq Files
      /\ Walking'
  <2>0. /\ files \subseteq Files /\ names \subseteq Files /\ disk \subseteq Files /\ there \subseteq Files
        /\ there \subseteq disk \cup names \cup {f \in Files : RankOf[f] \in dirs}
        /\ there \subseteq files /\ files \subseteq ever /\ disk \cup names \subseteq ever
    BY <1>1 DEF IInv, TypeOK, Walking
  <2>1. ASSUME NEW r \in Ranks, ListDir(r)
        PROVE  /\ dirs' \subseteq dirs /\ names' \subseteq Files /\ disk' = disk
               /\ there \subseteq disk' \cup names' \cup {f \in Files : RankOf[f] \in dirs'}
               /\ disk' \cup names' \subseteq ever
    BY <2>0, <2>1 DEF ListDir
  <2>2. ASSUME NEW f \in Files, Stat(f)
        PROVE  /\ dirs' = dirs /\ names' \subseteq Files /\ disk' \subseteq Files
               /\ there \subseteq disk' \cup names' \cup {g \in Files : RankOf[g] \in dirs'}
               /\ disk' \cup names' \subseteq ever
    BY <2>0, <2>2 DEF Stat, AfterStat
  <2> QED  BY <1>1, <2>0, <2>1, <2>2 DEF Walking
<1>3. TypeOK'
  BY <1>1, <1>2 DEF IInv, TypeOK
<1>4. Servers' /\ Scraping' /\ Configured'
  BY <1>1 DEF IInv, Servers, IsServer, Scraping, Configured, Settled
<1>5. Shown(shown)' => Seen(shown)'
  BY <1>1 DEF IInv, Shown, Seen, Settled
<1> QED  BY <1>2, <1>3, <1>4, <1>5 DEF IInv

LEMMA RenderStep ==
    ASSUME IInv, Render
    PROVE  IInv'
<1> USE NamesAssumption DEF hostVars
<1> DEFINE v == [m |-> m, prev |-> prev, cfg |-> cfg, disk |-> disk,
                 chunk |-> Derived(cfg, disk),
                 by |-> by, prevBy |-> prevBy, window |-> window, steady |-> steady,
                 there |-> there, ever |-> ever]
<1>1. /\ pc = "walk" /\ dirs = {} /\ names = {} /\ shown' = v
      /\ prev' = m /\ prevBy' = by /\ tick' = tick + 1 /\ pc' = After(tick')
      /\ m' = NoScrape /\ by' = None /\ cfg' = NoConfig /\ disk' = {}
      /\ there' = {} /\ ever' = {} /\ window' = NoRequests
      /\ UNCHANGED <<proc, series, files, args, pid, dirs, names, happened, steady>>
  BY DEF Render
<1>2. pc' \in {"fetch", "end"}
  BY <1>1 DEF After
<1>3. cfg' \in Configs /\ ~cfg'.known
  BY <1>1 DEF NoConfig, Configs
<1>4. TypeOK'
  <2>1. /\ prev' \in Scrapes \cup {NoScrape} /\ prevBy' \in Pids \cup {None} /\ tick' \in Nat
        /\ m' \in Scrapes \cup {NoScrape} /\ by' \in Pids \cup {None}
    BY <1>1 DEF IInv, TypeOK
  <2>2. disk' \subseteq Files /\ there' \subseteq Files /\ ever' \subseteq Files /\ window' \in Requested
    BY <1>1, NoRequestsType
  <2> QED  BY <1>1, <1>2, <1>3, <2>1, <2>2 DEF IInv, TypeOK, PCs
<1>5. Servers' /\ Walking'
  BY <1>1, <1>2 DEF IInv, Servers, IsServer, Walking
<1>6. Scraping'
  <2>1. ASSUME by # None
        PROVE  /\ by \in Pids /\ m \in Scrapes /\ m = series[by] /\ m # NoScrape /\ proc[by] \in Used
               /\ Grown(m, series[by], happened[by])
    <3>1. by \in Pids /\ m \in Scrapes /\ m = series[by] /\ m # NoScrape /\ proc[by] \in Used
      BY <2>1 DEF IInv, TypeOK, Scraping
    <3>2. happened[by] = NoRequests
      BY <1>1, <3>1 DEF IInv, Scraping
    <3> QED  BY <3>1, <3>2, GrownBy0
  <2>2. by = None => m = NoScrape
    BY DEF IInv, Scraping
  <2>3. happened = [p \in Pids |-> NoRequests]
    BY <1>1 DEF IInv, Scraping
  <2> QED  BY <1>1, <1>2, <2>1, <2>2, <2>3 DEF Scraping
<1>7. Configured'
  BY <1>2, <1>3 DEF Configured, Settled
<1>8. Seen(v)
  <2>1. there \subseteq disk /\ disk \subseteq ever /\ ever \subseteq Files
    BY <1>1 DEF IInv, TypeOK, Walking
  <2>2. /\ m \in Scrapes \cup {NoScrape} /\ prev \in Scrapes \cup {NoScrape}
        /\ by \in Pids \cup {None} /\ window \in Requested /\ cfg \in Configs
    BY DEF IInv, TypeOK
  <2>3. /\ by # None => m # NoScrape
        /\ prevBy # None => prev # NoScrape
        /\ by # None /\ by = prevBy => Grown(prev, m, window)
    BY DEF IInv, Scraping
  <2>4. /\ Settled(cfg, m)
        /\ steady /\ args.url = None /\ args.pid = None => None \in {by, cfg.pid} \/ cfg.pid = by
    BY <1>1 DEF IInv, Configured
  <2> QED  BY <2>1, <2>2, <2>3, <2>4 DEF Seen
<1>9. Seen(shown)'
  BY <1>1, <1>8 DEF Seen, Settled
<1> QED  BY <1>4, <1>5, <1>6, <1>7, <1>9 DEF IInv

-----------------------------------------------------------------------------
(* The theorems.                                                           *)

\* The inductive invariant holds in every behaviour of a monitor and its host.
THEOREM Invariance == Spec => []IInv
<1>1. ASSUME IInv, [Next]_vars  PROVE IInv'
  <2>1. CASE Host
    BY <1>1, <2>1, ProcStep, RequestStep, FileStep DEF Host
  <2>2. CASE Tick
    BY <1>1, <2>2, FetchStep, FindPidStep, CollectStep, WalkStep, RenderStep DEF Tick
  <2>3. CASE UNCHANGED vars
    <3> USE DEF vars, hostVars, tickVars, recorded
    <3>1. TypeOK' /\ Servers' /\ Scraping' /\ Walking'
      BY <1>1, <2>3 DEF IInv, TypeOK, Servers, IsServer, Scraping, Walking
    <3>2. Configured'
      BY <1>1, <2>3 DEF IInv, Configured, Settled, Serves
    <3>3. Shown(shown)' => Seen(shown)'
      BY <1>1, <2>3 DEF IInv, Shown, Seen, Settled
    <3> QED  BY <3>1, <3>2, <3>3 DEF IInv
  <2> QED  BY <1>1, <2>1, <2>2, <2>3 DEF Next
<1> QED  BY <1>1, Initial, PTL DEF Spec

\* Every variable keeps its type.
THEOREM TypeCorrect == Spec => []TypeOK
<1>1. IInv => TypeOK
  BY DEF IInv
<1> QED  BY <1>1, Invariance, PTL

\* For any processes and command lines, the configuration that is shown beside the counters of
\* a server is its own, if nothing came or went during the tick.
THEOREM ConfigIsTheServers == Spec => []ConfigOfScrapedServer
<1>1. IInv => ConfigOfScrapedServer
  BY DEF IInv, Seen, ConfigOfScrapedServer
<1> QED  BY <1>1, Invariance, PTL

\* For any servers, tiers and requests, what the views show as new between two scrapes of one
\* server is what was requested in between.
THEOREM RisesAreReal == Spec => []RisesAreOfTheInterval
<1>1. ASSUME IInv  PROVE RisesAreOfTheInterval
  <2> DEFINE v == shown
             w == v.window
  <2>1. SUFFICES ASSUME Shown(v), v.by # None, v.by = v.prevBy
                 PROVE  /\ w.requests = StatusHits(v).rise
                        /\ w.requests = WebHits(v).rise /\ w.requests = Headline(v)
                        /\ \A t \in DOMAIN StatusTiers(v) :
                              StatusTiers(v)[t] = w.lag[t] /\ WebTiers(v)[t][1] >= w.lag[t][1]
    BY DEF RisesAreOfTheInterval
  <2>2. Seen(v)
    BY <1>1, <2>1 DEF IInv
  <2> HIDE DEF v
  <2>3. /\ v.m \in Scrapes /\ v.prev \in Scrapes /\ v.prev # NoScrape /\ w \in Requested
        /\ Grown(v.prev, v.m, w)
    BY <2>1, <2>2 DEF Seen
  <2>4. w.requests \in Nat /\ w.lag \in [Tiers -> Nat \X Nat]
    BY <2>3 DEF Requested
  <2> HIDE DEF w
  <2>5. Rise(v, "hits", AnyTier) = w.requests /\ WebRise(v, "hits", AnyTier) = w.requests
    <3>1. /\ Get(v.m, "hits", AnyTier) \in Nat /\ Get(v.prev, "hits", AnyTier) \in Nat
          /\ Get(v.m, "hits", AnyTier) = Get(v.prev, "hits", AnyTier) + w.requests
      BY <2>3, GetHits DEF Grown
    <3>2. Get(v.m, "hits", AnyTier) # None /\ Get(v.prev, "hits", AnyTier) # None
      BY <3>1, NamesAssumption
    <3>3. Scraped(v.prev, "hits", AnyTier) = Get(v.prev, "hits", AnyTier)
      BY <2>3 DEF Scraped
    <3> QED  BY <2>4, <3>1, <3>2, <3>3 DEF Rise, WebRise, Delta, OrZero
  <2>6. ASSUME NEW t \in LabelsOf(v.m, "lag_count")
        PROVE  Lag(v, t) = w.lag[t] /\ Get(v.m, "lag_count", t) >= w.lag[t][1]
    <3>1. t \in Tiers
      <4>1. PICK k \in DOMAIN v.m : k[1] = "lag_count" /\ k[2] = t
        BY DEF LabelsOf
      <4>2. k \in Series
        BY <2>3, <4>1, ScrapeType
      <4> QED  BY <4>1, <4>2, KeyParts DEF Series
    <3>2. w.lag[t] \in Nat \X Nat
      BY <2>4, <3>1
    <3>3. w.lag[t] = <<w.lag[t][1], w.lag[t][2]>> /\ w.lag[t][1] \in Nat /\ w.lag[t][2] \in Nat
      BY <3>2
    <3>4. ASSUME NEW name, NEW k, NEW n \in Nat, Get(v.m, name, t) = At(v.m, k), At(v.m, k) \in Nat,
                 OrZero(Get(v.prev, name, t)) = At(v.prev, k), At(v.prev, k) \in Nat,
                 At(v.m, k) = At(v.prev, k) + n
          PROVE  Rise(v, name, t) = n /\ Get(v.m, name, t) >= n
      <4>1. Get(v.m, name, t) # None
        BY <3>4, NamesAssumption
      <4>2. Scraped(v.prev, name, t) = Get(v.prev, name, t)
        BY <2>3 DEF Scraped
      <4> QED  BY <3>4, <4>1, <4>2 DEF Rise, Delta
    <3>5. /\ Get(v.m, "lag_count", t) = At(v.m, CountKey(t)) /\ At(v.m, CountKey(t)) \in Nat
          /\ Get(v.m, "lag_sum", t) = At(v.m, SumKey(t)) /\ At(v.m, SumKey(t)) \in Nat
          /\ OrZero(Get(v.prev, "lag_count", t)) = At(v.prev, CountKey(t)) /\ At(v.prev, CountKey(t)) \in Nat
          /\ OrZero(Get(v.prev, "lag_sum", t)) = At(v.prev, SumKey(t)) /\ At(v.prev, SumKey(t)) \in Nat
      BY <2>3, <3>1, GetLag
    <3>6. /\ At(v.m, CountKey(t)) = At(v.prev, CountKey(t)) + w.lag[t][1]
          /\ At(v.m, SumKey(t)) = At(v.prev, SumKey(t)) + w.lag[t][2]
      BY <2>3, <3>1 DEF Grown
    <3>7. /\ Rise(v, "lag_count", t) = w.lag[t][1] /\ Get(v.m, "lag_count", t) >= w.lag[t][1]
          /\ Rise(v, "lag_sum", t) = w.lag[t][2]
      BY <3>3, <3>4, <3>5, <3>6
    <3> QED  BY <2>3, <3>3, <3>7 DEF Lag
  <2>7. /\ StatusHits(v).rise = w.requests /\ WebHits(v).rise = w.requests
        /\ Headline(v) = w.requests
    BY <2>3, <2>5 DEF StatusHits, WebHits, Headline
  <2>8. /\ DOMAIN StatusTiers(v) = LabelsOf(v.m, "lag_count")
        /\ \A t \in LabelsOf(v.m, "lag_count") :
              StatusTiers(v)[t] = Lag(v, t) /\ WebTiers(v)[t][1] = Get(v.m, "lag_count", t)
    BY DEF StatusTiers, WebTiers
  <2> QED  BY <2>6, <2>7, <2>8
<1> QED  BY <1>1, Invariance, PTL

\* For any files that are stored and evicted while the tier is walked, no number of the panel
\* is less than that of the files that stayed or more than that of the files there ever were.
THEOREM CountsAreReal == Spec => []FilesWereThere
<1>1. ASSUME IInv  PROVE FilesWereThere
  <2> DEFINE v == shown
             rows == ChunkRows(v)
             of(S, k) == {f \in S : RankOf[f] = k}
  <2>1. SUFFICES ASSUME Shown(v)
                 PROVE  /\ v.there \subseteq v.disk /\ v.disk \subseteq v.ever
                        /\ Cardinality(v.there) <= rows.count /\ rows.count <= Cardinality(v.ever)
                        /\ DOMAIN rows.ranks \subseteq Ranks
                        /\ \A k \in Ranks :
                              LET n == IF k \in DOMAIN rows.ranks THEN rows.ranks[k] ELSE 0
                              IN  Cardinality(of(v.there, k)) <= n /\ n <= Cardinality(of(v.ever, k))
    BY DEF FilesWereThere
  <2>2. v.there \subseteq v.disk /\ v.disk \subseteq v.ever /\ v.ever \subseteq Files
    BY <1>1, <2>1 DEF IInv, Seen
  <2> HIDE DEF v
  <2>3. \A S, T : S \subseteq T /\ T \subseteq Files =>
            /\ Cardinality(S) \in Nat /\ Cardinality(T) \in Nat /\ Cardinality(S) <= Cardinality(T)
    BY FS_Subset, FS_CardinalityType, HostAssumption
  <2>4. /\ rows.count = Cardinality(v.disk)
        /\ DOMAIN rows.ranks = {RankOf[f] : f \in v.disk}
        /\ \A k \in DOMAIN rows.ranks : rows.ranks[k] = Cardinality(of(v.disk, k))
    BY DEF ChunkRows
  <2> HIDE DEF rows
  <2>5. ASSUME NEW k \in Ranks
        PROVE  LET n == IF k \in DOMAIN rows.ranks THEN rows.ranks[k] ELSE 0
               IN  Cardinality(of(v.there, k)) <= n /\ n <= Cardinality(of(v.ever, k))
    <3>1. /\ of(v.there, k) \subseteq of(v.disk, k) /\ of(v.disk, k) \subseteq of(v.ever, k)
          /\ of(v.ever, k) \subseteq Files /\ of(v.disk, k) \subseteq Files
      BY <2>2
    <3>2. CASE k \in DOMAIN rows.ranks
      <4> HIDE DEF of
      <4> QED  BY <2>3, <2>4, <3>1, <3>2
    <3>3. CASE k \notin DOMAIN rows.ranks
      <4>1. of(v.disk, k) = {}
        BY <2>4, <3>3
      <4> HIDE DEF of
      <4>2. Cardinality(of(v.there, k)) = 0
        BY <3>1, <4>1, FS_EmptySet
      <4>3. Cardinality(of(v.ever, k)) \in Nat
        BY <2>3, <3>1
      <4> QED  BY <3>3, <4>2, <4>3
    <3> QED  BY <3>2, <3>3
  <2>6. DOMAIN rows.ranks \subseteq Ranks
    BY <2>2, <2>4 DEF Ranks
  <2>7. v.disk \subseteq Files
    BY <2>2
  <2>8. Cardinality(v.there) <= rows.count /\ rows.count <= Cardinality(v.ever)
    BY <2>2, <2>3, <2>4, <2>7
  <2> HIDE DEF of
  <2> QED  BY ONLY <2>2, <2>5, <2>6, <2>8
<1> QED  BY <1>1, Invariance, PTL

\* For any block size, chunk size and context, a CPU tier of k chains is shown as one chain, and
\* its chunk as k chunks: exactly what it holds when k is one.
THEOREM ChainIsShown == Spec => []ChainsAreChains
<1>1. ASSUME IInv  PROVE ChainsAreChains
  <2> DEFINE v == shown
             argv == Argv[v.by]
             chain == CeilDiv(argv.maxLen, Block)
             k == argv.cpu \div (chain * ChunkBytes)
  <2>1. SUFFICES ASSUME Shown(v), v.by # None, v.by = v.cfg.pid, v.cfg.known,
                        {argv.maxLen, argv.cpu} \cap {None, 0} = {},
                        argv.cpu = k * (chain * ChunkBytes)
                 PROVE  /\ ConfigRows(v).chunk = k * ChunkBytes
                        /\ ConfigRows(v).cpu = [chunks |-> chain, chains |-> 1]
    BY DEF ChainsAreChains
  <2>2. Seen(v)
    BY <1>1, <2>1 DEF IInv
  <2> HIDE DEF v
  <2>3. v.m \in Scrapes /\ v.m # NoScrape /\ v.by \in Pids
    BY <2>1, <2>2 DEF Seen
  <2>4. Scraped(v.m, "block_size", AnyTier) = Block
    BY <2>3, GetBlock DEF Scraped
  <2>5. argv.maxLen \in Nat \ {0} /\ argv.cpu \in Nat \ {0}
    BY <2>1, <2>3, HostAssumption
  <2>6. v.cfg.cpu = argv.cpu /\ v.cfg.chain = ChainChunks(argv.maxLen, Block)
    BY <2>1, <2>2, <2>4 DEF Seen, Settled
  <2> HIDE DEF argv
  <2>7. v.cfg.chain = chain
    <3>1. None \notin {argv.maxLen, Block} /\ 0 \notin {argv.maxLen, Block}
      BY <2>5, HostAssumption, NamesAssumption
    <3> QED  BY <2>6, <3>1 DEF ChainChunks
  <2> HIDE DEF chain, k
  <2>8. /\ chain \in Nat \ {0} /\ k \in Nat \ {0} /\ k * ChunkBytes \in Nat \ {0}
        /\ argv.cpu % chain = 0 /\ argv.cpu \div chain = k * ChunkBytes
        /\ argv.cpu \div (k * ChunkBytes) = chain
        /\ argv.cpu \div ((k * ChunkBytes) * chain) = 1
    BY <2>1, <2>5, Chain DEF chain, k
  <2>9. {v.cfg.cpu, v.cfg.chain} \cap {None, 0} = {} /\ k * ChunkBytes \notin {None, 0}
    BY <2>5, <2>6, <2>7, <2>8, NamesAssumption
  <2>10. v.chunk = k * ChunkBytes
    <3>1. v.chunk = Derived(v.cfg, v.disk)
      BY <2>2 DEF Seen
    <3> QED  BY <2>6, <2>7, <2>8, <2>9, <3>1 DEF Derived
  <2>11. ChunksOf(v, v.cfg.cpu) = [chunks |-> chain, chains |-> 1]
    <3>1. {v.cfg.cpu, v.chunk} \cap {None, 0} = {}
      BY <2>9, <2>10
    <3>2. v.cfg.chain # None
      BY <2>9
    <3> QED  BY <2>6, <2>7, <2>8, <2>10, <3>1, <3>2 DEF ChunksOf
  <2> QED  BY <2>1, <2>10, <2>11 DEF ConfigRows, WebConfig
<1> QED  BY <1>1, Invariance, PTL

================================================================================

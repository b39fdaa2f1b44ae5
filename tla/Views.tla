-------------------------------- MODULE Views --------------------------------
(***************************************************************************)
(* What one tick of a monitor reads and what its two views make of it:     *)
(* monitor_kv_offload.py (the terminal panel) and build_view of            *)
(* monitor_kv_offload_web.py.  A tick scrapes /metrics, looks for the pid  *)
(* of the server, reads its command line and walks the disk tier, one      *)
(* after the other, while servers start and stop, requests are served and  *)
(* chunk files come and go.                                                *)
(*                                                                         *)
(* A scrape is a function from series, pairs <<name, tier>>, to numbers.   *)
(* One counter ("hits"), one histogram per tier ("lag_count", "lag_sum")   *)
(* and one entry of vllm:cache_config_info ("block_size") stand for the    *)
(* other series of their kind.  The shares of GPU, host memory and         *)
(* /dev/shm and the log are read and displayed as they are: left out.      *)
(***************************************************************************)
EXTENDS Integers, FiniteSets, FiniteSetsExt

CONSTANTS
    Pids,         \* processes of the host
    Argv,         \* [Pids -> command line]: module, python, port, maxLen, cpu, fs
    Ports, Port,  \* --port
    Tiers,
    Files, RankOf, Size,      \* chunk files, the directory and the bytes of each
    Block, ChunkBytes,        \* the engine's block size, a chunk's bytes on both ranks
    Delays,                   \* of a lookup
    MaxRequests, MaxTicks,    \* bounds; the second is --count
    AnyTier, None, NoScrape, NoView

\* The variables from by on are not in the program: they record what went on.
VARIABLES
    proc,      \* [Pids -> "absent", "loading", "serving", "stopping", "gone"]
    series,    \* [Pids -> what its /metrics answers]
    files,     \* the chunk files on disk
    args,      \* --url (the port it names) and --pid, or None
    pc, tick, m, prev, pid, cfg,
    dirs, names, disk,        \* os.walk: directories and names to come, files counted
    shown,     \* what the views are made from, until the next tick begins
    by, prevBy,               \* who answered the two scrapes
    happened,  \* [Pids -> requests served since the last fetch]
    window,    \* requests the scraped server served since the fetch before
    steady,    \* since the last fetch no process has come, gone or changed, and
               \* there was one server of the port at most
    there, ever               \* files on disk all through the walk, at some time of it

hostVars == <<proc, series, files>>
tickVars == <<pc, tick, m, prev, pid, cfg, dirs, names, disk, shown>>
recorded == <<by, prevBy, happened, window, steady, there, ever>>
vars == <<hostVars, args, tickVars, recorded>>

HitsKey == <<"hits", "-">>
BlockKey == <<"block_size", "-">>
CountKey(t) == <<"lag_count", t>>
SumKey(t) == <<"lag_sum", t>>
Series == {HitsKey, BlockKey} \cup {CountKey(t) : t \in Tiers} \cup {SumKey(t) : t \in Tiers}
Ranks == {RankOf[f] : f \in Files}
NoRequests == [requests |-> 0, lag |-> [t \in Tiers |-> <<0, 0>>]]

\* A command line may leave the numbers out.
ASSUME HostAssumption ==
    /\ Argv \in [Pids -> [module : BOOLEAN, python : BOOLEAN, port : Int,
                         maxLen : Nat \cup {None}, cpu : Nat \cup {None}, fs : Nat \cup {None}]]
    /\ IsFiniteSet(Files) /\ RankOf \in [Files -> Int] /\ Size \in [Files -> Nat]
    /\ Block \in Nat \ {0} /\ ChunkBytes \in Nat \ {0}
    /\ Delays \subseteq Nat /\ MaxRequests \in Nat /\ MaxTicks \in Nat
ASSUME NamesAssumption ==
    /\ None \notin Int /\ None \notin Pids /\ AnyTier \notin Tiers
    /\ \A D \in SUBSET Series : NoScrape \notin [D -> Nat]

-----------------------------------------------------------------------------
(* class Metrics: series by name and label.                                *)

\* Metrics.get; counter() asks for two spellings of one name
Get(s, name, label) ==
    LET found == {k \in DOMAIN s : k[1] = name /\ label \in {k[2], AnyTier}}
    IN  IF found = {} THEN None ELSE MapThenSumSet(LAMBDA k : s[k], found)

OrZero(x) == IF x = None THEN 0 ELSE x
Scraped(s, name, label) == IF s = NoScrape THEN None ELSE Get(s, name, label)

\* Metrics.labels_of(name, "tier")
LabelsOf(s, name) == {k[2] : k \in {j \in DOMAIN s : j[1] = name}}

-----------------------------------------------------------------------------
(* The host.  To keep the instance small, requests are served before a     *)
(* fetch, processes come and go up to the reading of the command line and  *)
(* files during a walk: nothing else looks at them, so that a change at    *)
(* another time shows in the next tick as one at its beginning.            *)

Looking == {"fetch", "find", "collect"}

InProc(p) == proc[p] \in {"loading", "serving", "stopping"}
IsServer(p) == Argv[p].module /\ Argv[p].python
Serves(p, port) == proc[p] = "serving" /\ Argv[p].port = port

Start(p) ==
    /\ pc \in Looking /\ proc[p] = "absent"
    /\ proc' = [proc EXCEPT ![p] = "loading"] /\ steady' = FALSE
    /\ UNCHANGED <<series, files, args, tickVars, by, prevBy, happened, window, there, ever>>

Serve(p) ==
    /\ pc \in Looking /\ proc[p] = "loading" /\ IsServer(p)
    /\ \A q \in Pids : ~Serves(q, Argv[p].port)
    /\ proc' = [proc EXCEPT ![p] = "serving"] /\ steady' = FALSE
    /\ series' = [series EXCEPT ![p] =
           [k \in {HitsKey, BlockKey} |-> IF k = BlockKey THEN Block ELSE 0]]
    /\ UNCHANGED <<files, args, tickVars, by, prevBy, happened, window, there, ever>>

\* Labelled series appear with their first use.
At(s, k) == IF k \in DOMAIN s THEN s[k] ELSE 0

WithRequest(s, t, d) ==
    LET more(k) == IF k = SumKey(t) THEN d ELSE IF k \in {HitsKey, CountKey(t)} THEN 1 ELSE 0
    IN  [k \in DOMAIN s \cup {CountKey(t), SumKey(t)} |-> At(s, k) + more(k)]

\* A request: the tier t is asked, with a delay of d, and what it finds is a hit.
Request(p, t, d) ==
    /\ pc = "fetch" /\ proc[p] = "serving" /\ series[p][HitsKey] < MaxRequests
    /\ series' = [series EXCEPT ![p] = WithRequest(@, t, d)]
    /\ happened' = [happened EXCEPT
           ![p].requests = @ + 1, ![p].lag[t] = <<@[1] + 1, @[2] + d>>]
    /\ UNCHANGED <<proc, files, args, tickVars, by, prevBy, window, steady, there, ever>>

Stop(p) ==
    /\ pc \in Looking /\ InProc(p)
    /\ proc' = [proc EXCEPT ![p] = IF @ = "serving" THEN "stopping" ELSE "gone"]
    /\ steady' = FALSE
    /\ UNCHANGED <<series, files, args, tickVars, by, prevBy, happened, window, there, ever>>

Store(f) ==
    /\ pc = "walk" /\ f \notin files
    /\ files' = files \cup {f} /\ ever' = ever \cup {f}
    /\ UNCHANGED <<proc, series, args, tickVars, by, prevBy, happened, window, steady, there>>

Evict(f) ==
    /\ pc = "walk" /\ f \in files
    /\ files' = files \ {f} /\ there' = there \ {f}
    /\ UNCHANGED <<proc, series, args, tickVars, by, prevBy, happened, window, steady, ever>>

Host ==
    \/ \E p \in Pids : Start(p) \/ Serve(p) \/ Stop(p)
    \/ \E p \in Pids, t \in Tiers, d \in Delays : Request(p, t, d)
    \/ \E f \in Files : Store(f) \/ Evict(f)

-----------------------------------------------------------------------------
(* A tick.                                                                 *)

\* A busy server may also let the request run into its timeout.
Fetch ==
    /\ pc = "fetch" /\ pc' = "find"
    /\ \/ \E p \in Pids : Serves(p, IF args.url = None THEN Port ELSE args.url)
                          /\ m' = series[p] /\ by' = p
       \/ m' = NoScrape /\ by' = None
    /\ window' = (IF by' = None THEN NoRequests ELSE happened[by'])
    /\ happened' = [p \in Pids |-> NoRequests] /\ steady' = TRUE
    /\ shown' = NoView
    /\ UNCHANGED <<hostVars, args, tick, prev, pid, cfg, dirs, names, disk, prevBy,
                   there, ever>>

\* read_proc and parse_argv: nothing once the process is gone
CommandLine(p) == IF p # None /\ InProc(p) THEN Argv[p] ELSE None

\* Mutant: the first process whose command line mentions the module.
MutantCandidates(port) == {p \in Pids : CommandLine(p) # None /\ CommandLine(p).module
                                            /\ CommandLine(p).port = port}

\* find_pid
Candidates(port) ==
    {p \in Pids : /\ CommandLine(p) # None
                  /\ CommandLine(p).module /\ CommandLine(p).python /\ CommandLine(p).port = port}

FindPid ==
    /\ pc = "find"
    /\ pid' \in IF args.pid # None THEN {args.pid}
                ELSE IF Candidates(Port) = {} THEN {None} ELSE Candidates(Port)
    /\ pc' = "collect"
    /\ steady' = (steady /\ \A p, q \in Pids :
                    {p, q} \subseteq {r \in Pids : InProc(r) /\ IsServer(r) /\ Argv[r].port = Port}
                        => p = q)
    /\ UNCHANGED <<hostVars, args, tick, m, prev, cfg, dirs, names, disk, shown, by, prevBy,
                   happened, window, there, ever>>

CeilDiv(a, b) == (a + b - 1) \div b

\* Mutant: rounds down.
MutantChainChunks(maxLen, block) ==
    IF None \in {maxLen, block} \/ 0 \in {maxLen, block} THEN None ELSE maxLen \div block

\* chain_chunks, in collect_config
ChainChunks(maxLen, block) ==
    IF None \in {maxLen, block} \/ 0 \in {maxLen, block} THEN None
    ELSE CeilDiv(maxLen, block)

NoConfig == [known |-> FALSE, pid |-> None, cpu |-> None, fs |-> None, chain |-> None]

\* collect_config
ConfigOf(p, s) ==
    LET argv == CommandLine(p)
    IN  IF argv = None THEN [NoConfig EXCEPT !.pid = p]
        ELSE [known |-> TRUE, pid |-> p, cpu |-> argv.cpu, fs |-> argv.fs,
              chain |-> ChainChunks(argv.maxLen, Scraped(s, "block_size", AnyTier))]

\* collect_config, and the start of scan_chunks: no root, no walk
Collect ==
    /\ pc = "collect"
    /\ cfg' = ConfigOf(pid, m)
    /\ dirs' = (IF cfg'.fs = None THEN {} ELSE Ranks) /\ names' = {} /\ disk' = {}
    /\ there' = (IF cfg'.fs = None THEN {} ELSE files) /\ ever' = files
    /\ pc' = "walk"
    /\ pid' = None
    /\ UNCHANGED <<hostVars, args, tick, m, prev, shown, by, prevBy, happened, window, steady>>

\* os.walk lists one directory at a time ...
ListDir(r) ==
    /\ pc = "walk" /\ names = {} /\ r \in dirs
    /\ dirs' = dirs \ {r}
    /\ names' = {f \in files : RankOf[f] = r}
    /\ UNCHANGED <<hostVars, args, pc, tick, m, prev, pid, cfg, disk, shown, recorded>>

\* Mutant: a file that has vanished ends the walk.
MutantAfterStat(f) == IF f \in files
    THEN [names |-> names \ {f}, dirs |-> dirs, disk |-> disk \cup {f}]
    ELSE [names |-> {}, dirs |-> {}, disk |-> disk]

\* ... and a file that is gone when os.stat asks for it is passed over.
AfterStat(f) == [names |-> names \ {f}, dirs |-> dirs,
                 disk |-> IF f \in files THEN disk \cup {f} ELSE disk]

Stat(f) ==
    /\ pc = "walk" /\ f \in names
    /\ names' = AfterStat(f).names /\ dirs' = AfterStat(f).dirs /\ disk' = AfterStat(f).disk
    /\ UNCHANGED <<hostVars, args, pc, tick, m, prev, pid, cfg, shown, recorded>>

\* The element in the middle of the sorted sizes; all files are among the newest kept.
Median(S) ==
    LET upTo(f) == {g \in S : Size[g] <= Size[f]}
        below(f) == {g \in S : Size[g] < Size[f]}
        mid == CHOOSE f \in S : /\ Cardinality(below(f)) <= Cardinality(S) \div 2
                                /\ Cardinality(S) \div 2 < Cardinality(upTo(f))
    IN  Size[mid]

\* derive_chunk_bytes
Derived(c, counted) ==
    IF /\ {c.cpu, c.chain} \cap {None, 0} = {}
       /\ c.cpu % c.chain = 0
    THEN c.cpu \div c.chain
    ELSE IF counted # {} THEN Median(counted) ELSE None

\* --count
After(t) == IF t >= MaxTicks THEN "end" ELSE "fetch"

\* The end of the tick: everything is rendered, and the scrape becomes the previous one.
Render ==
    /\ pc = "walk" /\ dirs = {} /\ names = {}
    /\ shown' = [m |-> m, prev |-> prev, cfg |-> cfg, disk |-> disk,
                 chunk |-> Derived(cfg, disk),
                 by |-> by, prevBy |-> prevBy, window |-> window, steady |-> steady,
                 there |-> there, ever |-> ever]
    /\ prev' = m /\ prevBy' = by /\ tick' = tick + 1
    /\ pc' = After(tick')
    /\ m' = NoScrape /\ by' = None /\ cfg' = NoConfig /\ disk' = {}
    /\ there' = {} /\ ever' = {} /\ window' = NoRequests
    /\ UNCHANGED <<hostVars, args, pid, dirs, names, happened, steady>>

Tick ==
    \/ Fetch \/ FindPid \/ Collect \/ Render
    \/ \E r \in Ranks : ListDir(r)
    \/ \E f \in Files : Stat(f)

\* A process that only mentions the server's module is there from the beginning.
Init ==
    /\ proc = [p \in Pids |-> IF IsServer(p) THEN "absent" ELSE "loading"]
    /\ series = [p \in Pids |-> NoScrape] /\ files \in SUBSET Files
    /\ args \in [url : Ports \cup {None}, pid : Pids \cup {None}]
    /\ args.url # None => args.pid = None
    /\ pc = "fetch" /\ tick = 0 /\ m = NoScrape /\ prev = NoScrape
    /\ pid = None /\ cfg = NoConfig /\ dirs = {} /\ names = {} /\ disk = {}
    /\ shown = NoView /\ by = None /\ prevBy = None
    /\ happened = [p \in Pids |-> NoRequests] /\ window = NoRequests /\ steady = TRUE
    /\ there = {} /\ ever = {}

Next == Host \/ Tick

Spec == Init /\ [][Next]_vars

-----------------------------------------------------------------------------
(* The two views of v, a value of shown.                                   *)

\* Mutant: no rise for a series that was not there before.
MutantDelta(cur, old) == IF None \in {cur, old} THEN 0 ELSE cur - old

\* delta(), and d() in render_status: what the terminal shows as "+N"
Delta(cur, old) == IF cur = None THEN 0 ELSE cur - OrZero(old)

Rise(v, name, label) == Delta(Get(v.m, name, label), Scraped(v.prev, name, label))

\* delta() in build_view
WebRise(v, name, label) == OrZero(Get(v.m, name, label)) - OrZero(Scraped(v.prev, name, label))

\* h() in render_status: count and sum of a histogram; the mean is their quotient
Lag(v, t) ==
    IF v.prev = NoScrape THEN <<Get(v.m, "lag_count", t), Get(v.m, "lag_sum", t)>>
    ELSE <<Rise(v, "lag_count", t), Rise(v, "lag_sum", t)>>

\* chunks_of and _chunk_count: bytes as a number of chunks and of chains
ChunksOf(v, bytes) ==
    IF {bytes, v.chunk} \cap {None, 0} # {} THEN None
    ELSE [chunks |-> bytes \div v.chunk,
          chains |-> IF v.cfg.chain = None THEN None ELSE bytes \div (v.chunk * v.cfg.chain)]

\* config in build_view, unknown fields as they are; render_config says "unavailable"
WebConfig(v) == [pid |-> v.cfg.pid, chunk |-> v.chunk,
                 cpu |-> ChunksOf(v, v.cfg.cpu), fs |-> ChunksOf(v, v.cfg.fs)]

ConfigRows(v) == IF v.cfg.known THEN WebConfig(v) ELSE None

\* render_status: a counter, with what is new in it
StatusHits(v) == [hits |-> OrZero(Get(v.m, "hits", AnyTier)), rise |-> Rise(v, "hits", AnyTier)]

\* ... and the tiers that have been asked; the transfers are counted by direction just so
StatusTiers(v) == [t \in LabelsOf(v.m, "lag_count") |-> Lag(v, t)]

\* scan_chunks' sums, and render_chunks
ChunkRows(v) ==
    [count |-> Cardinality(v.disk),
     bytes |-> MapThenSumSet(LAMBDA f : Size[f], v.disk),
     ranks |-> [r \in {RankOf[f] : f \in v.disk} |->
                   Cardinality({f \in v.disk : RankOf[f] = r})]]

\* "last Ns: +N" of the page's cache table, which appears even before there is a previous scrape
WebHits(v) == [hits |-> OrZero(Get(v.m, "hits", AnyTier)), rise |-> WebRise(v, "hits", AnyTier)]

\* The headline does not: it would divide the whole history by the interval.
Headline(v) == IF v.prev = NoScrape THEN None ELSE WebRise(v, "hits", AnyTier)

\* The page's tiers are those of the server's whole life.
WebTiers(v) == [t \in LabelsOf(v.m, "lag_count") |->
                   <<Get(v.m, "lag_count", t), Get(v.m, "lag_sum", t)>>]

-----------------------------------------------------------------------------
(* What the views promise.                                                 *)

Shown(v) == v # NoView

\* MO:234-238: the command line of another process, "mixing such a process's config with
\* this port's metrics", is not shown: if one server of the port was there and none came or
\* went during the tick, the configuration is that of the process that was scraped, unless
\* the user asked for another address or pid.
ConfigOfScrapedServer ==
    Shown(shown) /\ shown.steady /\ args.url = None /\ args.pid = None =>
        None \in {shown.by, shown.cfg.pid} \/ shown.cfg.pid = shown.by

\* Between two scrapes of one server, what the terminal shows as new, the counts and sums its
\* means are made of and what the page shows as new are the requests of that time, also for
\* series that appeared in between.
RisesAreOfTheInterval ==
    Shown(shown) /\ shown.by # None /\ shown.by = shown.prevBy =>
        LET w == shown.window IN
        /\ w.requests = StatusHits(shown).rise
        /\ w.requests = WebHits(shown).rise /\ w.requests = Headline(shown)
        /\ \A t \in DOMAIN StatusTiers(shown) :
              StatusTiers(shown)[t] = w.lag[t] /\ WebTiers(shown)[t][1] >= w.lag[t][1]

\* The chunk files of a view: none that stayed is missing and none that was never there is
\* counted, whatever was stored or evicted during the walk; so every number of the panel, the
\* total and the one of each rank, lies between those of the two.
FilesWereThere ==
    Shown(shown) =>
        LET rows == ChunkRows(shown)
            of(S, k) == Cardinality({f \in S : RankOf[f] = k})
        IN  /\ shown.there \subseteq shown.disk /\ shown.disk \subseteq shown.ever
            /\ Cardinality(shown.there) <= rows.count /\ rows.count <= Cardinality(shown.ever)
            /\ DOMAIN rows.ranks \subseteq Ranks
            /\ \A k \in Ranks :
                  LET n == IF k \in DOMAIN rows.ranks THEN rows.ranks[k] ELSE 0
                  IN  of(shown.there, k) <= n /\ n <= of(shown.ever, k)

\* As soon as the scrape and the command line are those of one server, a CPU tier of k chains is
\* shown as all the chunks of one chain, each k times a chunk's bytes.  With one chain, as in every
\* profile, that is what the tier holds.  With more, the docstring of derive_chunk_bytes ("a whole
\* number of chains ... so the division is exact") does not hold: the chunk is shown too large, and
\* no number of chunks or chains of the tier larger than it is.
ChainsAreChains ==
    Shown(shown) /\ shown.by # None /\ shown.by = shown.cfg.pid /\ shown.cfg.known
        /\ {Argv[shown.by].maxLen, Argv[shown.by].cpu} \cap {None, 0} = {} =>
        LET chain == CeilDiv(Argv[shown.by].maxLen, Block)
            k == Argv[shown.by].cpu \div (chain * ChunkBytes)
        IN  Argv[shown.by].cpu = k * (chain * ChunkBytes) =>
                /\ ConfigRows(shown).chunk = k * ChunkBytes
                /\ ConfigRows(shown).cpu = [chunks |-> chain, chains |-> 1]

=============================================================================

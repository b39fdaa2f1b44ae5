# Verification of the Qwen3.8-27B dual RTX 2080 Ti deployment

TLA+ specifications, TLC runs and TLAPS proofs of the host-side programs of this
repository: the scripts and tools that launch, size, watch and stop a vLLM server
on one host. The inference engine itself lives in other repositories (here it
appears as patches) and is modelled as these programs see it: processes, files in
`/dev/shm`, a port.

| file | content |
| --- | --- |
| `ServerStop.tla` | `scripts/tools/stop_server.sh` against an instance, its host and its supervisor |
| `Staging.tla` | the `/dev/shm` staging file from launcher to stop: `shm_staging.sh`, `offload_sizing.sh`, the `run_vllm_*_SSDx4.sh` launchers |
| `Panel.tla` | the life of the browser panel: `monitor_kv_offload_web.py` l.86-241 and `main` |
| `PortSlot.tla` | what the panel's commands promise, abstractly; implemented by `Panel` |
| `Sampler.tla` | how the panel shows it: sampling thread, HTTP threads and page, `monitor_kv_offload_web.py` l.255-292, 606-702, 916-961 |
| `Views.tla` | what both monitors show: one tick of `monitor_kv_offload.py` and `build_view` of the panel |
| `LaunchProfile.tla` | what `kv_pool_sizing.py` reads of a launch script, `.env` and `config.json`, and what a launch makes of the same |
| `KvPoolSizing.tla` | its arithmetic, report and advice over what was read |
| `Deploy.tla` | launch, wait, measure, take down: `kv_pool_sizing.py --feasible`, `wait_server.sh`, the n sweeps |
| `QuantizeHead.tla` | `quantize_lm_head.py`: the quantised head and the checkpoint it writes piece by piece |
| `LogitEval.tla` | `experiments/accuracy-regression`: `launch.sh`, `run_logit_eval.py`, `compare.py` |
| `Accuracy.tla` | the composition of the last two |
| `ContextTtft.tla` | `benchmarks/run_context_ttft.py`: streaming requests and the thread that samples beside them |
| `*Proofs.tla` | theorems about ServerStop, Staging, Panel (also as a PortSlot), Sampler, Views, KvPoolSizing (with LaunchProfile and Deploy), Accuracy and ContextTtft, for every value of the constants |
| `MC*.tla`, `*.cfg` | the instances TLC checks |
| `PROJECT.json` | components, runs, source map, mutants, findings, hazards, theorems |

Run `tlc -config X.cfg MCX.tla` for a row of the table of runs, `tlapm XProofs.tla`
for the proofs.

## The system

| component | state | operations | interacts with | what makes it correct |
| --- | --- | --- | --- | --- |
| `stop_server.sh` | pid, listed members, rung of the escalation | locate, verify, list, signal (group or tree), wait, check, clean | process table, port, staging file, supervisor | signals its target's tree, and of the group only what passes the patterns; its exit code is true; it ends; cleans last |
| `shm_staging.sh` | - | look at the mappings, remove | `/dev/shm`, engine | never takes the file of an engine that needs it; reclaims what a killed one left |
| `offload_sizing.sh` | number of failed checks | `/dev/shm` size and free space, memory, verdict | `/dev/shm`, memory | what it accepts finds room; what it refuses has none |
| `run_vllm_*.sh` | profile variables | clean, preflight, SSD wipe, exec | all of the above | checks before it changes anything |
| `wait_server.sh` | start time | poll log, launcher, `/health` | engine log, port | on a host of one's own, ready means *this* server is ready |
| panel lifecycle | pidfile, port, signal handlers | start, bind, publish, serve, stop, clean up | itself, across processes | one panel per port; what serves can be stopped |
| panel sampler | last metrics, view, history | sample, serve `/api`, poll | engine metrics, HTTP threads, page | a view is of one sample; a rate covers only what was made between two scrapes; an outage is visible |
| `kv_pool_sizing.py` | - | report, advise; `--feasible`: deploy, measure, tear down | launch script, engine | it reads what the launch will read; the two checks and the advice agree with the allocator and with each other; "does not fit" is about the engine that was deployed; who had the port is spared |
| `monitor_kv_offload.py` | last metrics | scrape, find the process, read its command line, walk the tier, print | engine metrics, `/proc`, SSD root | what is shown side by side belongs together |
| `quantize_lm_head.py` | output directory | quantise, link, write shard, index, config | checkpoint, launchers | half a checkpoint cannot be loaded; the head is read with the bits it was packed with, near the weights it had |
| accuracy regression | one file per item | launch, ask, store, pass over, compare | engine, checkpoint | the files compared hold the answers of the two configurations |
| experiment drivers | - | loops of stop, launch, wait, measure | all scripts | never measure the previous server |
| `run_context_ttft.py` | samples, results | stream, sample, write | engine, its metrics | a steady rate is of the request's own tokens; what is written is what each stream said |
| `setup/`, launchers without offload | - | one pass each | files, engine | - |
| chat template | - | render | engine | thinking and tool blocks are balanced |
| patches, `experiments/kern` | GPU memory | prefill, attention split and merge | engine | equal to the unsplit computation |

The programs share state only through the operating system: the process table and
its groups, `/dev/shm`, the SSD root, the port, pidfiles. Nothing locks. The hard
behaviours are therefore what happens *between* two commands of a script: a process
that exits, forks or is restarted after the listing; a file that is mapped after the
look and before the `rm`; a pid that is recycled; a second launch or a second
`--stop`. `PROJECT.json` lists these hazards at their lines.

## ServerStop

One invocation of the script. The process table is `alive`, `parent`, `pgid`; the
script's variables keep their names (`pid` is `$PID`, `members` is `MEMBERS`,
`groupSafe` is `group_safe`). Each action is one command or one loop iteration, and
the host may act between any two: a process exits (`Exit`; the instance's may at
any time, others only when signalled), the instance forks a helper (`Fork`), systemd
starts a successor under a new pid (`Restart`). Options are chosen in `Init`: by port
or by pid, `--force`, `--no-clean-shm`, `--timeout`. `PoliteScan` and `PoliteTree` are
two actions because `signal_tree` reads the tree first and signals afterwards. The
staging file is only a bit here; its story is in `Staging`.

Two tests look at command lines, and both look for a string anywhere in one: the marker
of l.153 (`Marked`, which a pid given by the caller must pass) and the patterns of
l.178-181 (`Patterned`, which the group must pass). The instances pass them; of the
bystanders any may, as the shell that was given the launch command or a `tail` on a log
named after the module does.

*Bounds* (`MCServerStop`): api_server and EngineCore, one late fork, one other instance,
one restart, and two bystanders that may have been started in the group: a shell that
passes no pattern and a `tail` that passes both tests.
The ten and five seconds of the waits are scaled to 2 and 1 and `--timeout` to 1 or 2,
which keeps both sides of `TIMEOUT > 5` and the case `TIMEOUT - 10 = 0`.
The tree of leader, core and late fork shows every re-parenting the scan can meet; a
second late fork adds no new relation to the listing.

*Fairness*: the script is scheduled (its polls are counted, so it cannot loop); a
process that was sent SIGKILL exits. Nothing else: a server may ignore SIGTERM
forever. Deadlock is not checked, since script and host come to rest.

*Not modelled*: `--list`, `--dry-run`, usage; recycled pids; zombies; missing `ss`.

## Staging

Launches of several profiles on one host, each the sequence of its launcher script,
an engine with one process per rank, and a stop. tmpfs is modelled by inodes
(*regions*): a region holds its pages while it has a name or is open. `Look` and
`Remove` are the two halves of `vllm_clean_shm_staging`; `CheckShm`, `CheckRam` and
`Verdict` are the preflight; `Wipe` comes before it in the 128K profile and after it
in the others. The engine's ranks open the file by name or create it (`Open`), map
it, may unlink it, and die one by one.

`Overlap` says whether two launches of *one* engine id may overlap. Fixed engine ids
and the one-port-per-profile habit make `FALSE` the normal case, and the properties of
the passing run and the theorems are stated for it; `TRUE` is explored by
`staging_overlap`. Launches of *different* ids always overlap.

*Bounds* (`MCStaging`): profile A launched three times (one with
`ALLOW_UNSAFE_LAUNCH=1`, one with `CHECK_ONLY=1`), profile B once with a clean start,
a stale file of an unused id, any of the three stale files at the beginning. Sizes are
chosen so that two regions fit and three do not (/dev/shm 4, regions 2, 2 and 1), and
so that memory (5, reserve 2) is tighter than the mount for two. Two ranks, and
symmetry over them: no definition tells them apart. No liveness property is checked
here, so there is no fairness and symmetry is sound.

*Not modelled*: warnings, cgroup limits and RLIMIT_MEMLOCK (they refuse nothing), the
contents of the SSD tier, tmpfs users other than vLLM.

## Panel

All commands on one port. A panel is named by its pid and goes through bind,
truncate, write, handlers, first sample, serve, clean-up and exit; it may crash, and
its pid may be recycled. `--start` parents poll the pidfile; `--stop` commands read,
check, signal and wait. A SIGTERM before the handlers are installed kills on the spot,
after it is a request (`asked`) that takes effect when `serve_forever` runs.

`Overlap = FALSE`: no panel is between its start and the publication of its pid while a
`--stop` runs. The code needs this: with `TRUE` a `--stop` removes, by name, the
pidfile a successor has just written, and `ServingIsStoppable` fails. Nothing in the
repository promises otherwise, so it is an assumption here and a hazard in
`PROJECT.json`. The kernel does not recycle a pid within the instant between a
`--stop`'s look at the command line and its `kill` (`Recycle`).

`PortSlot` says what this is for: a port's panel is up or down, a `--stop` finds it or
finds none, and every one that found a panel is answered - 0 when that panel is gone, 1
when it could not or would not be stopped, 2 when none was up. `Slot == INSTANCE
PortSlot WITH ...` in `Panel` maps a panel to the time it is published and a `--stop` to what it read, and `KeepsSlot`
(`Slot!Spec`, fairness included) is a property of the run.

*Bounds* (`MCPanel`): a background and a foreground panel, two stops, one poll for the
parent, two for the stops: enough for a clash, a crash, a successor and a stop that
meets a stop. *Fairness*: each process is scheduled; a sample ends, as its reads are
local or have a timeout. *Not modelled*: `--status`, SIGINT (as SIGTERM), a full disk,
two addresses on one port.

## Sampler

The sampling thread goes through `fetch`, `collect` (the host's data, then the row of
the time line), `publish` and `wait`; `prev`, `history`, `tick` and `view` are the
attributes of class `Sampler`. The first sample is taken by `main` before it serves and
ends the panel if it fails; a later one may fail (`Raise`) before its row was appended
or after it. The engine makes tokens, is unreachable whenever a `Fetch` says so, and
comes back with its counter at zero or absent. The page is a set of chains of `tick()`:
each asks, is answered by an HTTP thread with the view of that moment, shows it and arms
a timer. Unpausing calls `tick()` even when a timer or a request is pending, which
starts a second chain; `ShownNeverGoesBack` is stated for pages where that has not
happened.

One counter and one level stand for all, and a rate is the difference of two scrapes, as
the interval it is divided by is a constant. `made`, `since`, `until`, `published` and
`crowded` are history variables: they say which tokens a row covers and what has
happened, and no action depends on them.

*Bounds* (`MCSampler`): three samples and a time line of two rows, so that a row is
dropped and an outage fits between two rows; one token, which is enough for an absent
counter that appears and for a reset below the last reading; one page with two
chains. *Fairness*: the sampling thread is scheduled; its reads are local or have a
timeout. *Not modelled*: what `build_view` computes beside the history,
`/api/snapshot` (published with the view under the same lock), several pages (they share
nothing).

## LaunchProfile, KvPoolSizing

`LaunchProfile` is what the tool reads. A model is the set of keys its `config.json`
gives, merged over the built-in dimensions. Each of the two numbers that the report
compares is a *setting*: how the script passes the argument (`--max-model-len "$V"` after
`: "${V:=d}"` or after `V="${V:-d}"`, a literal, a literal with a unit, not at all) and
what the script, `.env`, the environment and the tool's own command line say of it.
`InForce` is the number `parse_profile` and `cmd_report` arrive at, `AtLaunch` what the
shell passes to the engine. They differ when the caller's environment sets a variable
that `.env` leaves alone, or when `.env` empties one and `: "${V:=d}"` fills it again;
`Mirrored` is the premise of `AcceptedLaunchFits` that excludes both.

In `KvPoolSizing`, `Cdiv` to `PoolVerdict` are the functions of the tool over the fields
of `ModelDims` and of the options; a behaviour is a user who asks for a report (`Report`,
which fails when a number has a unit), follows one of the two printed advices (`TakePool`,
`TakeLen`) or tries other values (`Edit`). An advice is followed by writing the number
in any of the places where the tool then uses it (`Written`). The length 0 and the pool
0 mean "not defined", as in the code, and so do a block and a headroom of 0 (`Block`,
l.377). The pool advice settles at any concurrency, the length advice is stated for one
sequence: `max_safe_len` leaves out what `safe_pool` adds for more (l.347-354).
`PageHoldsState` is about the derived block, not about one that `--block-size` gives.

*Bounds* (`MCKvPoolSizing`): the geometry of Qwen3.8-27B without a `config.json` (block
1600 with three speculative tokens, as the tool's self-test has it) and two toy models
with one, given by a list of layer types and by an interval; 32 option sets, some with
a given block; lengths and pools at, one below and one above whole blocks and slots, as literals; and each
combination of script, `.env` (unset, empty, set) and environment for one number.
TLC's integers end at 2^31, which is why the largest real pool tried is 2 GB; the
theorems have no such limit. *Not modelled*: the regular expressions that find an
assignment in a script's text, quoting, the units of `--pool-bytes`, models without
linear layers (the tool divides by zero there).

## Deploy

Two clients of one host, each a loop over numbered engines: `feasible` deploys one
profile up to `MAX_ATTEMPTS` times, telling an out-of-memory failure (a verdict) from a
transient one (a retry), and computes the verdict from the GPU memory of a ready
deployment; `sweep` stops, launches, waits and benchmarks once per value of n. Neither
asks who answers on port 8000 or whose memory it reads. Engines load, become ready,
fail at any time, with or without one of the log lines that are looked for, lose their
files in `/dev/shm` to a clean-up, and die some time after they were told to. `log`
records which engine wrote a line, `listener` who has the port, `owner` who had it when
the client was started, `python` whether a foreign Python program with a resource tracker
runs.

`Measure` has the three outcomes of `_gpu_used_gib`: numbers; no output, which counts as
0.0 GiB; an exception, which nothing catches, so that the tool ends without its tear-down
(`Raise`). `Teardown` is the kill of the launcher's group and the three `pkill -9 -f`,
`CleanShm` the removal of files three seconds later.

The right answers need a host of one's own, which is what `alone` says: no engine of
somebody else starts, and those that run are on port 8000, where the first stop finds
them. `stopWorks` says that `stop_server.sh` does not give up. Both are chosen in
`DeployInit`, and each property names the one it depends on; without them the hazards of
`kv_pool_sizing.py:606` and `wait_server.sh:74` are real. `PortOwnerSpared`,
`FailureIsTheAttemptsOwn` and `NothingLeftRunning` need neither: the tool may kill whom
it likes, but not the server that had the port when it was started; and what is left
after an exception is the engine of the last attempt. Even on a host of its own the figure
of a verdict may be zero, so `VerdictIsOwn` promises that "does not fit" is right and
nothing about "fits".

*Bounds* (`MCDeploy`): one foreign engine, three attempts or rounds, two polls; GiB
figures at the edge of fitting (4 + 3 = 7), so that anybody else's memory in the measurement
turns the verdict. A killed engine is gone before the next one has loaded (`Ready`), as
loading takes minutes. *Fairness*: the client is
scheduled; its waits are counted in polls. *Not modelled*: the launcher pid
`wait_server.sh` may be given (l.68-72; the sweeps do not give it).

## Views

A tick is `fetch`, `find`, `collect`, the steps of `os.walk`, and the rows drawn from
them, while servers start, serve, stop and are replaced, and chunk files are written and
removed. A scrape maps series to numbers; one counter, one histogram, one
configuration entry and the chunk rows stand for the others of their kind. The
operators `StatusHits`, `StatusTiers` (terminal) and `Headline`, `WebHits`, `WebTiers`
(browser) compute what is shown from the same two scrapes in the two programs' own ways.

`by`, `prevBy`, `happened`, `window`, `steady`, `there` and `ever` are history variables:
who answered, how many requests the shown interval really covers, whether the processes
stayed as they were, which files were there all the time or at some time of the walk.

`ChainsAreChains` is about CPU tiers of k chains, for any k. `derive_chunk_bytes` divides
the tier's bytes by the chunks of *one* chain, so that the chunk shown is k times too
large and the tier always one chain: what the docstring says (l.1007) for k = 1, and what
it denies for k > 1. The property states what is shown in both cases.

To keep the instance small, requests are served only before a fetch, processes change
only up to `collect`, and files change only during the walk: a change at another moment is
read by the same later step, as nothing looks at it in between. *Bounds* (`MCViews`): two
servers of the port with chains of two and three chunks and CPU tiers of one and two
chains, a wrapper whose command line
looks the same but is not python, two ticks, two files; `--url`, if given, names a port
nobody answers on. No liveness is stated, so there is no fairness; the run may stop as
ticks are counted (`--count`). *Not modelled*: gauges, GPU, host and `/dev/shm` readings
and the log, which are shown as they are read.

## QuantizeHead, LogitEval, Accuracy

`QuantizeHead` refuses a source whose head has the wrong shape, or quantises one group
of integer weights (scale, zero point, clip ratios, rounding of halves to even, all on
integers over a common denominator) and rounds the scale to the data type it is stored in
(`ToScaleType`: `ScaleBits` significant bits, 8 for bfloat16). It then writes `links`,
`shard`, `index` and `config`; it may be killed between any two and in the middle of one,
and a rerun refuses a directory that exists, until somebody removes it. `LogitEval`
launches servers per configuration, with a tokenizer or without one (`launch.sh`
l.117-125; without one it cannot answer probes), evaluates one kind of items or both, asks
for each item, stores a file per item, passes over those that exist, and compares two
configurations over the tokens both report.
`Accuracy` composes them: the server of the quantised configuration needs the checkpoint
to be loadable. Loading asks only for what the code's launchers would trip over, the
configuration, which is written last.

What the code leaves to its user is part of the model as an assumption: the server is
not replaced while an evaluation runs, and `--config`, which is only a label, names the
server that was launched. A file that an interrupted evaluation left cut short counts as
stored, for the code as for `DoneMeansStored`. The source configuration has one group,
whose target is `Linear` or something else, and ignores `lm_head` or nothing. Two kinds of
sources are therefore out: one with a group that names the head already (it is stripped
only if the bits differ, l.214-215), and one that ignores `language_model.lm_head` as well
(that entry stays, l.225).

`HeadIsRecovered` bounds what is *loaded*: half a step of the range from the rounding of
the weights, and (2^bits - 1) / 2^ScaleBits of a step from the rounding of the scale. With
bfloat16 the second is 15/256 of a step at 4 bits and 255/256 at 8.

*Bounds* (`MCAccuracy`): two weights from -1 to 2, so that groups of one sign, of equal
weights and with halves occur; scales of two bits, so that most are rounded; heads of one
and two bits; three clip ratios; a dense item with a position nobody
answers and a probe; one death. *Not modelled*: packing (a library's), probabilities
(KL, coverage), the corpus builder and the needle test. The run may stop: everything
ends or is killed.

## ContextTtft

The matrix is `Runs` requests, one by one. The server makes one or more tokens at a
time; the stream reaches `main` in pieces cut anywhere, so that a line may arrive in
halves. Beside each request a thread looks at the stop event, scrapes, and appends the
tokens since `base`; `main` joins it with a time limit, so it may live on into the next
request and append to the list of its own. The server may refuse a request, give up an
accepted one at any point (`Fail`: an error event in a stream that then ends like any
other, without a usage), crash in the middle of one, and come back counting from zero.
Tokens may come without text, as a part of a character does. `generated`, `shown` and
`told` are history variables: the tokens really made for each request, whether text of it
was sent, and whether its number of tokens was. The event with the role, which carries
neither, is left out. `OutputIsWhole` says that a result is what its own stream said, and
therefore also that an answer that was given up is in the file, with status 200.

*Bounds* (`MCContextTtft`): two requests of up to two tokens made singly or at once, a
window that begins at the first, two samples per request, enough for a difference, one
crash, refusals 401 and
500. *Fairness*: `main` is scheduled and its socket reads have a timeout; an engine with
an open request goes on generating. The sampling thread needs none, as `main` does not
wait for it beyond its limit. *Not modelled*: durations; the timeouts as such (a broken
reply stands for them); a torn output file; other users of the server, which the
docstring of `scrape_counters` excludes.

## Runs

| run | module, cfg | expects | what it shows |
| --- | --- | --- | --- |
| server_stop | MCServerStop, ServerStop | pass | only the target, what it spawned and what passes the patterns in its group is signalled; what exit 0 means, that everything listed and left behind was killed, that the file is removed last, that it ends |
| server_stop_shared_group | MCServerStop, ServerStopSharedGroup | violation | README: stopping touches only the instance's own tree |
| staging | MCStaging, Staging | pass | fresh regions, true verdicts, clean-ups that take nothing in use |
| staging_overlap | MCStaging, StagingOverlap | violation | shm_staging.sh:11: a live file refuses the launch |
| staging_check_only | MCStaging, StagingCheckOnly | violation | upstream-branch.md:356: CHECK_ONLY=1 only checks |
| panel | MCPanel, Panel | pass | what serves can be stopped, nobody else is signalled, the commands implement PortSlot, a panel that was asked ends |
| kv_pool_sizing | MCKvPoolSizing, KvPoolSizing | pass | whoever follows an advice passes both checks; a launch that is accepted starts an engine whose pool holds its own length; a block holds a state |
| sampler | MCSampler, Sampler | pass | curves show what was made and where nothing was seen; views are whole; the page moves forward; sampling goes on |
| deploy | MCDeploy, Deploy | pass | whose memory a verdict is about; the port's owner is spared; no attempt fails for another one's line; what is left running after a verdict and after an exception; the sweep measures its own rounds; both end |
| views | MCViews, Views | pass | the configuration shown is the scraped server's, increases are of the interval, the files counted, in all and per rank, were there; CPU tiers of one and of several chains |
| accuracy | MCAccuracy, Accuracy | pass | half a checkpoint is not loaded, the head is read as it was packed and to half a step and its scale's rounding, the right answers are compared |
| context_ttft | MCContextTtft, ContextTtft | pass | a steady window holds tokens of its own request, the output is what the streams said, the benchmark ends |

The violations are differences between what a document or comment says and what the
code does; `PROJECT.json` quotes each. Every property of a passing run has a mutant:
an operator `Mutant...` beside the definition it replaces, written as a plausible
mistake in that code, under which TLC finds the property violated.

## Seen while modelling

Behaviour of the code that a user may stumble over and no run of its own is about:

* `stop_server.sh`: exit 1 also when somebody else listens on the port (l.34, 291);
  members of an unsafe group that the tree walk misses are reported, not killed (l.197, 233);
  the check of the group (l.178-181) passes shells, tails and wrappers whose command line
  names the module, which the comment on the search by port (l.80-83) warns of, and the
  group is then signalled with them in it.
* Panel: `--start` may report an old panel's pid as its child's (l.215, 228); `--stop`
  removes a successor's pidfile by name (l.180); two addresses on one port share a
  pidfile (l.1245).
* Sampler: levels are drawn straight over an outage (l.836); an absent counter counts as
  zero in the headline, and "last Ns" covers the whole history on the first sample and
  after a failed scrape; a sample that fails after its row was appended leaves the row.
* Monitors: with `--url` the process is still looked for on `--port`; the terminal shows
  the lag of the interval, the panel that of the server's life (l.246). A CPU tier of
  several chains is shown as one chain of larger chunks (`monitor_kv_offload.py:1011`,
  docstring l.1007).
* `kv_pool_sizing.py` ends with a ValueError on `run_qwen3.8_27b_sm75.sh`, whose
  `--kv-cache-memory-bytes 4G` it reads with `int()` (l.198). It ignores the caller's
  environment where the script has a default (l.213), while the launch, also the one of
  `--feasible`, inherits it. `--headroom-blocks 0` is replaced by the default (l.391);
  `_deploy_and_measure` leaves its engine running when `nvidia-smi` fails, against its
  docstring (l.583), and takes an empty output for 0.0 GiB, which gives the verdict OK
  (l.579); `_teardown` kills the resource tracker of every Python program (l.565).
* Launchers: a clean start removes the SSD root that the profiles share (256K script,
  l.230). `run_qwen3.8_27b_sm75.sh` has comment lines inside its continued command
  (l.61-64), so the shell ends the command there and the options after them do not reach
  the engine; `kv_pool_sizing.py` drops comments first and reads them.
* Accuracy: a file cut short is passed over by every rerun, which prints "done", and
  `compare.py` fails on it (`run_logit_eval.py:76`); empty answers of a probe count as
  agreement; groups of one sign are quantised coarsely, as the range need not contain zero
  but the zero point is clamped. At 8 bits the bfloat16 scale (`quantize_lm_head.py:141`)
  costs up to nearly a step, and the printed error, computed with the exact scale
  (l.146-153), does not show it. `compare.py` adds up over the tokens both sides report
  (l.50), its docstring says the union with a uniform tail (l.7-8); the model follows the
  code, and no property depends on it.
* `run_context_ttft.py`: the clock starts before the base scrape (l.127, 133), while
  `benchmarks/README.md:24` counts from the request; the steady window may include one
  poll of idle time after the last token; an answer that the server gives up has status 200
  and no number of tokens (l.199), and the program exits with 0; a matrix that fails loses all its results, as
  the file is written at the end, and an earlier output file stays.
* `n_sweep.sh` launches `run_vllm_qwen38_awq_fp8e4m3_128k_RAMx1_SSDx4.sh` (l.19), which the
  repository does not have; every round then waits for a server that does not come. `Deploy` models the sweep with
  a launcher that exists.

## Proofs

All theorems hold for every value of the constants that satisfies the named
assumptions of the modules. Every safety property and every action property of a
passing run is stated by one.

Each module of proofs has one inductive invariant, a conjunction of named parts that TLC
checked on the run's instance before it was proved. The type of the variables is the
first part; the others are what the properties need besides, and this is what they say:

* **ServerStopProofs.** `IInv` adds to the properties: pids are not reused
  (`NoReuse`), foreign processes never hang below the leader (`ForeignApart`), whom the
  script may signal at each point (`Aim`), the instance stays in the leader's group
  (`OneGroup`), how far the escalation has come (`Escalation`) and what the exits know
  (`Verdict`). None is inductive alone: that a bystander is only signalled through a
  *group* that passed the patterns needs `Aim` for the time after the listing, that it is
  not signalled through the *tree* needs `ForeignApart`. Nothing is assumed of the
  bystanders' command lines. All safety properties of the run follow, and that no
  SIGKILL is sent before a SIGTERM (`TermBeforeKill`).
* **StagingProofs.** Under `~Overlap`: `Exclusive` (one run per engine id),
  `OwnProcesses`, `NamedById` and `FileFollowsLaunch` - from the clean-up until the
  first rank opens there is no file, from then until the last rank has mapped, the file
  names that region. From them `OneFreshRegion`, `FileOutlivesStartup` and that a stop
  gives the pages back (`StopFreesRegions`).
  The properties about room are sums of sizes over the regions in use, and need `RoomInv`
  on top: a launch whose preflight found no problem, and whose room nobody took since,
  still has that room (`RoomIsKept`), first in `/dev/shm`, after `CheckRam` in memory
  too; and what accepted launches hold leaves the reserve (`AcceptedLeaveReserve`).
  `ReserveKept` itself is not inductive: it says nothing while an unsafe launch holds a
  region, and that one may go. The invariant therefore speaks of the accepted launches
  alone, whatever others hold beside them. That a region is taken (`Open`) keeps both
  sums is where `CountsOnRoom` excludes the others who counted on the same room (they
  are *squeezed* from then on). `OnlyOthersRefuse` needs no sum of its own: between clean-up and preflight
  the regions of one's own id are gone.
* **PanelProofs.** Under `~Overlap`: one owner of the port, and for each `--stop` in
  progress what it is aimed at (`StopAim`): if a panel serves, it is that one. From them
  the safety properties of the run and the meaning of the exit codes 0 and 2.
  And the refinement: `KeepsSlotSafety` states `~Overlap => (Spec => Slot!Safe)`, the
  initial states map to initial states and every step of every panel, parent, stop and of
  the kernel to a step of PortSlot or a stutter. The invariants give the enabling
  conditions of the abstract steps.
* **SamplerProofs.** The rows are in the order of the samples (`Times`); no two
  scrapes differ by more than was made between them (`Readings`); no row covers a token
  the next one will (`Covered`); if there is a scrape to compare with, the last published
  sample had a row (`Noticed`); and with one chain of polls every view on its way is at
  least as young as the one shown (`Forward`). All invariants of the run follow, and
  `ShownNeverGoesBack`, an action property.
* **ViewsProofs.** Two scrapes of one server differ by what was requested of it between
  them, series by series, absent ones counting as zero (`Scraping`, with `Grown`); in a
  tick in which no process came or went, the process found is the one that answered
  (`Configured`); and at each point of the walk a file that was there from its beginning
  is counted, in the listing at hand, or in a directory still to be listed (`Walking`).
  What is shown is a record of these at the end of a tick (`Seen`). From them all four
  properties: the two programs' own ways of computing hits and lag agree with what the
  server did, and counts, in all and per rank, lie between the files that stayed and
  those that were ever there.
* **KvPoolSizingProofs.** Rounding up and down are adjoints of multiplication
  (`CdivAdjoint`, `DivAdjoint`); both checks are brought to one currency, slots
  (`SafeSlots`, `LengthSlots`), where they differ by the concurrent sequences only. From
  there the two advices settle, the reported limit is tight, a pool that is short is
  refused, and the block is the smallest that holds a state. `LaunchFits` adds that, for a
  mirrored setting, the number the tool reads is the number of the launch.
  For Deploy, `DeployInv == DeployTypes /\ Answers /\ Future /\ Attempts /\ Owned /\
  Own /\ OneAtATime`: who answers is ready; engines of later rounds are absent; what `feasible`
  remembers of an attempt; that the engine which had the port keeps it and no attempt begins
  while it lives (`Owned`, without any assumption on the host); on a host of its own, whom log, port and memory belong to
  at each step of the client; and that one engine runs at a time. `Own` is what carries
  the order of the client's steps, and no verdict is right without it: a wait that
  ends with an answer says nothing unless the previous engine was gone before the launch.
  Three invariants and two action properties follow.
* **AccuracyProofs.** `IInv == QuantInv /\ HeadStored /\ EvalInv`: what of the checkpoint
  is on disk at each point of the tool, and with which bits; that what is stored is the
  best of the ratios tried; and whose answer the evaluation holds and that stored files
  carry the configuration of their label. All five invariants of the run follow.
  `HeadIsRecovered` is a bound on a sum of squares over a group: with the whole range as
  its ratio a weight is off by half a step at most, as the rounded zero point and the
  rounded weight are each within half of what they round and the clamps only bring them
  nearer (`RoundIsNear`, `ClampIsNear`, `WholeRangeIsNear`); the sum of the squares is
  within the bound, and the ratio that is chosen is no worse (`ChosenIsBest`). What is
  loaded is that with a rounded scale, which is off by one part in 2^ScaleBits at most
  (`ScaleIsNear`) and moves each weight by at most 2^bits - 1 such parts
  (`WeightIsNear`); the two errors are added without their mixed term becoming larger than
  the bound allows (`Mixed`, `Shares`, `LoadedIsNear`).
* **ContextTtftProofs.** The next requests have left no trace (`Fresh`) and a new one
  begins with nothing of its predecessor (`Clean`); what was sent and not yet parsed is
  made of whole lines, which say how many tokens were made if the stream does, and that
  there was text if there was (`Streaming`);
  what was counted since `base` was made for this request (`Counting`); and requests that
  are over have a result of their own (`Over`). `Counting` is about the request in
  progress only: a thread that outlives its request does count the tokens of the next,
  and appends them to a list nobody reads any more, which is the argument for
  `SteadyIsOwnTail`. `OutputIsWhole` follows from `Streaming` through the parser.

Two techniques recur, as the prover cannot instantiate the library's induction theorems.
An induction over a size is done by a least counterexample (`LeastNat`, from
`WFMin` and `NatLessThanWellFounded`). A fold over a set is unfolded by showing that its
recursive equation has a solution on the subsets of that set (`SolvedUpTo` and
`FoldedSolves` in StagingProofs, `SumSolved` in AccuracyProofs, `SumOfOne` in
ViewsProofs), after which the function that the fold chooses is one.

`Overlap` is a constant of Staging and Panel. Theorems with the premise `~Overlap` are
for the case the code needs, described with each module; the type theorems have no such
premise. The runs check the same case.

Only model-checked is liveness: `ScriptEnds`, `AskedPanelEnds`, `SamplingGoesOn`,
`ClientEnds`, `BenchmarkEnds` and the fairness part of `KeepsSlot`. They rest on fairness,
hence on ENABLED, about which the prover does not reason.

## Not modelled

* *Launchers without offload, setup scripts*: no state of their own; a launch is one
  step of `Deploy` and `LogitEval`.
* *Chat template*: a pure function from conversations to prompts; planned.
* *Engine patches*: diffs against code that is not in the repository; the engine is the
  environment of every module here.
* *`experiments/kern`*: floating-point GPU kernels. Their split and merge of the key range
  is planned over integers.
* *Other drivers and benchmarks*: the same loops with another measurement.

## Plan

1. *Done*: ServerStop, Staging, Panel with PortSlot, Sampler, Views, LaunchProfile and
   KvPoolSizing, Deploy, Accuracy and ContextTtft, each with proofs of its safety.
2. *Stop*, an abstract specification (asked, gone, cleaned), implemented by ServerStop and
   used by Deploy, with the safety part of the refinement proved as for PortSlot.
3. *SplitAttention*: split and merge of the key range in `experiments/kern` against the
   unsplit maximum and sum, and the ragged prefill of the FlashQLA patch that skips
   empty sequences.
4. *ChatTemplate*: the block structure of the rendered prompt.

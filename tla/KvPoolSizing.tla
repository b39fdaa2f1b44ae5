----------------------------- MODULE KvPoolSizing -----------------------------
(***************************************************************************)
(* scripts/tools/kv_pool_sizing.py: how large must the KV pool of a launch *)
(* profile be for its context length, and the other way round?  The        *)
(* arithmetic (l.94-406), the report (cmd_report, l.440-482) and a user    *)
(* who follows the advice it prints and asks again.  What the tool reads   *)
(* of the profile and of the model is in LaunchProfile.                    *)
(***************************************************************************)
EXTENDS LaunchProfile, FiniteSets

CONSTANTS
  Configs,  \* what config.json says of the models
  Options,  \* what a profile and the command line say about the engine
  Lens,     \* the ways users give --max-model-len
  Pools     \* the ways users give --kv-cache-memory-bytes

Positive == Nat \ {0}

Dims == [attn : Positive, linear : Positive, kvHeads : Positive, headDim : Positive,
         kernel : Positive, keyHeads : Positive, valueHeads : Positive,
         keyDim : Positive, valueDim : Positive]

Opts == [tp : Positive, bytes : Positive, numSpec : Nat, align : BOOLEAN,
         headroom : Nat, seqs : Positive, block : Nat]

Models == {LoadModel(cfg) : cfg \in Configs}

\* The models are hybrids, with layers of both kinds, and every shard holds whole
\* heads (an engine would not start else).
ASSUME InputsAssumption ==
  /\ Models \subseteq Dims /\ Options \subseteq Opts
  /\ \A d \in Models, o \in Options : o.tp <= d.kvHeads /\ o.tp <= d.valueHeads
  /\ Lens \subseteq Settings /\ Pools \subseteq Settings

-----------------------------------------------------------------------------
(* The arithmetic.                                                         *)

\* cdiv.
Cdiv(a, b) == -((-a) \div b)

\* attn_page_1_token: the bytes of one token of one attention layer.
TokenBytes(d, o) == 2 * (d.kvHeads \div o.tp) * d.headDim * o.bytes

\* mamba_page: the bytes of the state of one linear layer.
MambaPage(d, o) ==
  LET convDim == d.keyDim * d.keyHeads * 2 + d.valueDim * d.valueHeads
  IN  (d.kernel - 1 + o.numSpec) * (convDim \div o.tp) * 2
      + (d.valueHeads \div o.tp) * d.valueDim * d.keyDim * 4

\* auto_block_size.  (The mutant forgets that the page has to hold a whole state.)
MutantBlockSize(d, o) == 16 * (MambaPage(d, o) \div (16 * TokenBytes(d, o)))
BlockSize(d, o) == 16 * Cdiv(MambaPage(d, o), 16 * TokenBytes(d, o))

\* _group_size: layers of one kind that share a block.
GroupSize(d) ==
  LET mn == IF d.attn < d.linear THEN d.attn ELSE d.linear
      mx == IF d.attn < d.linear THEN d.linear ELSE d.attn
  IN  IF 2 * mx < 3 * mn THEN mx ELSE mn

DefaultHeadroom == 3

\* --block-size overrides the derived block (l.377).
Block(d, o) == IF o.block = 0 THEN BlockSize(d, o) ELSE o.block

\* build_sizing.  An explicit block or headroom of 0 counts as "not given" (l.391).
BuildSizing(d, o) ==
  [block |-> Block(d, o),
   slot  |-> GroupSize(d) * (Block(d, o) * TokenBytes(d, o)),
   mamba |-> Cdiv(d.linear, GroupSize(d)) * ((IF o.align THEN 2 ELSE 1) + o.numSpec),
   headroom |-> IF o.headroom = 0 THEN DefaultHeadroom ELSE o.headroom,
   seqs  |-> o.seqs]

\* The slots one request of this length occupies.
Blocks(s, len) == Cdiv(len, s.block) + s.mamba

\* Sizing.min_pool, safe_pool, max_safe_len.  (The mutants: the headroom
\* forgotten, the state forgotten.)
MinPool(s, len) == s.slot * Blocks(s, len)

MutantSafePool(s, len) == s.slot * (Blocks(s, len) + (s.seqs - 1) * Blocks(s, len))
SafePool(s, len) ==
  s.slot * (Blocks(s, len) + s.headroom + (s.seqs - 1) * Blocks(s, len))

AtLeast0(n) == IF n < 0 THEN 0 ELSE n

MutantMaxSafeLen(s, pool) == AtLeast0((pool \div s.slot) - s.headroom) * s.block
MaxSafeLen(s, pool) ==
  AtLeast0(AtLeast0((pool \div s.slot) - s.mamba) - s.headroom) * s.block

\* _pool_verdict: enough; enough to start with; refused at start.
PoolVerdict(pool, min, safe) ==
  IF pool >= safe THEN "fits" ELSE IF pool >= min THEN "tight" ELSE "short"

-----------------------------------------------------------------------------
(* A user at work on one profile.                                          *)

VARIABLES
  model,    \* the model's dimensions
  opts,     \* the profile's engine options
  lenAt,    \* where --max-model-len is given, and what is given there
  poolAt,   \* where --kv-cache-memory-bytes is given
  report,   \* what the last report said of them
  advice    \* the advice that brought them about

vars == <<model, opts, lenAt, poolAt, report, advice>>

sizing == BuildSizing(model, opts)
maxLen == InForce(lenAt)
pool   == InForce(poolAt)

NotYet == [pool |-> "none", len |-> "none"]
Failed == [pool |-> "failed", len |-> "failed"]
Reports == [pool : {"none", "failed", "skipped", "undefined", "short", "tight", "fits"},
            len : {"none", "failed", "skipped", "exceeds", "fits"}]

\* cmd_report's exit code: 0 if nothing was objected to.
Accepted == report.pool \notin {"failed", "short", "tight"} /\ report.len # "exceeds"

\* Every variable has its type, and a report is complete or was not yet made.
TypeOK ==
  /\ model \in Models /\ opts \in Options
  /\ lenAt \in Settings /\ poolAt \in Settings
  /\ report \in Reports /\ (report.pool = "none" <=> report.len = "none")
  /\ report.pool = "failed" <=> report.len = "failed"
  /\ advice \in {"none", "pool", "len"}

Init ==
  /\ model \in Models /\ opts \in Options
  /\ lenAt \in Lens /\ poolAt \in Pools
  /\ report = NotYet /\ advice = "none"

\* cmd_report: the pool against the length, then the length against the pool; both
\* numbers are read before (l.441-442), and one that is not plain ends the tool.
Report ==
  /\ report = NotYet
  /\ report' =
       IF Unreadable(lenAt) \/ Unreadable(poolAt) THEN Failed ELSE
       [pool |-> IF maxLen = 0 THEN "skipped"
                 ELSE IF pool = 0 THEN "undefined"
                 ELSE PoolVerdict(pool, MinPool(sizing, maxLen), SafePool(sizing, maxLen)),
        len  |-> IF maxLen = 0 \/ pool = 0 THEN "skipped"
                 ELSE IF maxLen <= MaxSafeLen(sizing, pool) THEN "fits"
                 ELSE "exceeds"]
  /\ UNCHANGED <<model, opts, lenAt, poolAt, advice>>

\* "-> --kv-cache-memory-bytes safe_pool" (l.459-465), written where it takes effect.
TakePool ==
  /\ report.pool \in {"undefined", "short", "tight"}
  /\ poolAt' \in Written(poolAt, SafePool(sizing, maxLen))
  /\ report' = NotYet /\ advice' = "pool"
  /\ UNCHANGED <<model, opts, lenAt>>

\* "-> --max-model-len <= safe_len" (l.473-476), if any length is left.
TakeLen ==
  /\ report.len = "exceeds"
  /\ LET limit == MaxSafeLen(sizing, pool) IN
     \E len \in ({limit} \cup {InForce(s) : s \in Lens}) \cap 1..limit :
       lenAt' \in Written(lenAt, len)
  /\ report' = NotYet /\ advice' = "len"
  /\ UNCHANGED <<model, opts, poolAt>>

\* Other values are tried, in the script, in .env, or with --max-len or --pool-bytes.
Edit ==
  /\ report # NotYet
  /\ lenAt' \in Lens /\ poolAt' \in Pools
  /\ report' = NotYet /\ advice' = "none"
  /\ UNCHANGED <<model, opts>>

Next == Report \/ TakePool \/ TakeLen \/ Edit

Spec == Init /\ [][Next]_vars

-----------------------------------------------------------------------------
(* Properties.                                                             *)

\* A pool of the advised size passes both checks, whatever the concurrency.
PoolAdviceSettles == advice = "pool" /\ report # NotYet => Accepted

\* With one sequence at a time, a context within the advised limit passes both
\* checks: the two computations, one from the length and one from the pool, agree.
LenAdviceSettles ==
  advice = "len" /\ report # NotYet /\ opts.seqs = 1 => Accepted

\* Who follows the advice of cmd_report does not get another one.
AdviceSettles == PoolAdviceSettles /\ LenAdviceSettles

\* What is accepted without --max-len and --pool-bytes is accepted of the launch: the
\* script, sourcing .env and filling in its defaults, starts an engine whose pool
\* holds what its own context length needs.
AcceptedLaunchFits ==
  report # NotYet /\ Accepted /\ lenAt.cli = 0 /\ poolAt.cli = 0
  /\ Mirrored(lenAt) /\ Mirrored(poolAt) /\ AtLaunch(lenAt) # 0 /\ AtLaunch(poolAt) # 0
    => AtLaunch(poolAt) >= SafePool(sizing, AtLaunch(lenAt))

\* And the advised limit gives nothing away: a pool that passes its check for a
\* length passes the context check for that length too.
LimitIsTight == report.pool = "fits" => report.len = "fits"

\* The verdict "short" is what the engine makes of the pool: cut into slots, it has
\* fewer than a request of the maximal length needs.
ShortMeansRefused ==
  report.pool \in {"short", "tight", "fits"} =>
    (report.pool = "short" <=> pool \div sizing.slot < Blocks(sizing, maxLen))

\* Unless --block-size overrides it, a block of every attention layer is at least as
\* large as a linear layer's state, which the engine keeps in the same slots, and the
\* next smaller block is not.
PageHoldsState ==
  LET page(block) == block * TokenBytes(model, opts) IN
  opts.block = 0 =>
  /\ page(sizing.block) >= MambaPage(model, opts)
  /\ page(sizing.block - 16) < MambaPage(model, opts)
=============================================================================

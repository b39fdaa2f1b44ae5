----------------------------- MODULE QuantizeHead -----------------------------
(***************************************************************************)
(* scripts/tools/quantize_lm_head.py: quantizes the lm_head of a           *)
(* checkpoint and writes a new checkpoint directory, one piece after the   *)
(* other.  It may be killed at any moment and started again; the           *)
(* launchers load whatever directory has the right name.                   *)
(*                                                                         *)
(* The head is one group of weights, integers in units of a fixed size, a  *)
(* power of two.  Packing is a library's (compressed_tensors) and left     *)
(* out; so are sizes and the tensors that are copied.                      *)
(***************************************************************************)
EXTENDS Integers, FiniteSets, FiniteSetsExt, Sequences

CONSTANTS
    GroupSize,        \* weights of a group
    Weights,          \* the values a weight may have
    Ratios, Whole,    \* MSE_CLIP_RATIOS, in parts of Whole
    TrunkBits,        \* num_bits of the source's group_0
    ScaleBits,        \* significant bits of the scales' data type: 8 of bfloat16
    Exponents         \* ... and its exponents

ASSUME HeadAssumption ==
    /\ GroupSize \in Nat \ {0} /\ Weights \subseteq Int /\ TrunkBits \in Nat \ {0}
    /\ Whole \in Nat \ {0} /\ Ratios \subseteq 1..Whole /\ Whole \in Ratios
    /\ ScaleBits \in Nat \ {0} /\ Exponents \subseteq Int

Heads == [1..GroupSize -> Weights]
HeadNames == {"lm_head", "language_model.lm_head"}
Pieces == {"links", "shard", "index", "config"}

VARIABLES
    head,      \* the head's weights
    source,    \* --src: whether the shape of its head fits, and its config.json: ignore, groups
    opts,      \* --bits, --observer
    qpc,       \* where the tool is, or "idle"
    stored,    \* the tensors it has computed, and their bits
    dst        \* --dst: what is there of each piece, and the config

quantVars == <<head, source, opts, qpc, stored, dst>>

NoDst == [dir |-> FALSE, piece |-> [p \in Pieces |-> "absent"], config |-> <<>>, tensors |-> <<>>]

-----------------------------------------------------------------------------
(* quantize_chunk, on one group.  scale is the fraction span * ratio over   *)
(* Whole * (2^bits - 1), so that all numbers here are integers.             *)

\* torch.round of n / d, d > 0: halves to even
RoundDiv(n, d) ==
    LET down == n \div d
        rest == 2 * (n % d)
    IN  IF rest < d \/ (rest = d /\ down % 2 = 0) THEN down ELSE down + 1

Clamp(x, top) == IF x < 0 THEN 0 ELSE IF x > top THEN top ELSE x

Least(w) == Min({w[i] : i \in DOMAIN w})
Span(w) == Max({w[i] : i \in DOMAIN w}) - Least(w)
QMax(bits) == 2^bits - 1

\* Mutant: the zero point has the wrong sign.
MutantZero(w, bits, ratio) ==
    Clamp(RoundDiv((2 * Whole * Least(w) + Span(w) * (Whole - ratio)) * QMax(bits),
                   2 * Span(w) * ratio), QMax(bits))

Zero(w, bits, ratio) ==
    Clamp(RoundDiv(-(2 * Whole * Least(w) + Span(w) * (Whole - ratio)) * QMax(bits),
                   2 * Span(w) * ratio), QMax(bits))

Quantized(w, bits, ratio) ==
    LET step == Span(w) * ratio
        zero == Zero(w, bits, ratio)
        q(x) == Clamp(RoundDiv(x * Whole * QMax(bits) + zero * step, step), QMax(bits))
    IN  [ratio |-> ratio, zero |-> zero, q |-> [i \in DOMAIN w |-> q(w[i])]]

\* Equal weights: the scale is 1e-8, of which every weight but 0 is too large a multiple.
Constant(w, bits) ==
    [ratio |-> Whole, zero |-> IF Least(w) < 0 THEN QMax(bits) ELSE 0,
     q |-> [i \in DOMAIN w |-> IF Least(w) > 0 THEN QMax(bits) ELSE 0]]

\* What each weight becomes, less the weight, in units of 1 / (Whole * QMax(bits))
Error(w, bits, t) ==
    [i \in DOMAIN w |-> (t.q[i] - t.zero) * Span(w) * t.ratio - w[i] * Whole * QMax(bits)]

Squared(x) == x * x
SquaredError(w, bits, t) ==
    LET e == Error(w, bits, t) IN MapThenSumSet(LAMBDA i : Squared(e[i]), DOMAIN w)

\* The first of the ratios with the least squared error; minmax only tries the whole range.
QuantizeChunk(w, bits, observer) ==
    LET tried == IF Span(w) = 0 THEN {Constant(w, bits)}
                 ELSE {Quantized(w, bits, r) : r \in IF observer = "mse" THEN Ratios ELSE {Whole}}
        best == {t \in tried : \A u \in tried : SquaredError(w, bits, t) <= SquaredError(w, bits, u)}
    IN  CHOOSE t \in best : \A u \in best : t.ratio >= u.ratio

\* scale.to(scale_dtype): n / d to the nearest number of ScaleBits bits, its first bit set
Power(x) == IF x > 0 THEN 2^x ELSE 1
ToScaleType(n, d) ==
    LET at(x) == [num |-> n * Power(x), den |-> d * Power(-x)]
        fits(x) == /\ 2^ScaleBits * at(x).den <= 2 * at(x).num
                   /\ at(x).num < 2^ScaleBits * at(x).den
    IN  {[num |-> RoundDiv(at(x).num, at(x).den) * Power(-x), den |-> Power(x)] :
            x \in {y \in Exponents : fits(y)}}

\* The data type has the exponents of the float32 that is computed with.
ASSUME ExponentsAssumption ==
    \A w \in Heads, bits \in {TrunkBits, TrunkBits + 1}, r \in Ratios :
        Span(w) > 0 => ToScaleType(Span(w) * r, Whole * QMax(bits)) # {}

\* The scale of a chunk as it is stored, 1e-8 as good as nothing
Scale(w, bits, t) ==
    IF Span(w) = 0 THEN [num |-> 0, den |-> 1]
    ELSE CHOOSE s \in ToScaleType(Span(w) * t.ratio, Whole * QMax(bits)) : TRUE

Tensors(w, o) ==
    LET t == QuantizeChunk(w, o.bits, o.observer)
    IN  [bits |-> o.bits, chunk |-> t, scale |-> Scale(w, o.bits, t)]

\* What each weight is loaded as, less the weight, in units of 1 / scale.den
LoadedError(w, t) ==
    [i \in DOMAIN w |-> (t.chunk.q[i] - t.chunk.zero) * t.scale.num
                            - w[i] * t.scale.den]

-----------------------------------------------------------------------------
(* config.json: which names are ignored, and groups of targets and bits.   *)

Trunks(groups) == {g \in DOMAIN groups : "Linear" \in groups[g].targets}
Trunk(groups) == CHOOSE g \in Trunks(groups) : TRUE

\* Mutant: the trunk's group takes the head also if the bits differ.
MutantNewGroups(groups, bits) ==
    [groups EXCEPT ![Trunk(groups)].targets = @ \cup HeadNames]

\* The head joins the trunk's group if the bits are the same; else it gets its own.
NewGroups(groups, bits) ==
    LET trunk == Trunk(groups)
        stripped == [g \in DOMAIN groups |-> [groups[g] EXCEPT !.targets = @ \ HeadNames]]
    IN  IF bits = groups[trunk].bits
        THEN [groups EXCEPT ![trunk].targets = @ \cup HeadNames]
        ELSE [g \in DOMAIN groups \cup {"head"} |->
                 IF g = "head" THEN [targets |-> HeadNames, bits |-> bits] ELSE stripped[g]]

NewConfig(c, bits) == [ignore |-> c.ignore \ {"lm_head"}, groups |-> NewGroups(c.groups, bits)]

-----------------------------------------------------------------------------
(* The steps of main().                                                    *)

\* A destination that exists is refused, whatever is in it.
Check ==
    /\ qpc = "start"
    /\ qpc' = IF dst.dir THEN "idle" ELSE "quantize"
    /\ UNCHANGED <<head, source, opts, stored, dst>>

Quantize ==
    /\ qpc = "quantize" /\ source.fits
    /\ qpc' = "mkdir" /\ stored' = Tensors(head, opts)
    /\ UNCHANGED <<head, source, opts, dst>>

\* sys.exit: the head is spread over shards, or its sizes are no multiples of the group size
\* and of the numbers packed into 32 bits.
RefuseShape ==
    /\ qpc = "quantize" /\ ~source.fits
    /\ qpc' = "idle"
    /\ UNCHANGED <<head, source, opts, stored, dst>>

Mkdir ==
    /\ qpc = "mkdir" /\ qpc' = "links"
    /\ dst' = [dst EXCEPT !.dir = TRUE]
    /\ UNCHANGED <<head, source, opts, stored>>

\* Mutant: the config is written before the index.
MutantAfter(p) == CASE p = "links" -> "shard" [] p = "shard" -> "config" [] p = "config" -> "index"
                    [] p = "index" -> "idle"

\* The pieces in the order they are written
After(p) == CASE p = "links" -> "shard" [] p = "shard" -> "index" [] p = "index" -> "config"
              [] p = "config" -> "idle"

\* Opening a file for writing leaves it incomplete until it is written.
Open(p) ==
    /\ qpc = p /\ dst.piece[p] = "absent"
    /\ p = "config" => "lm_head" \in source.ignore /\ Trunks(source.groups) # {}
    /\ dst' = [dst EXCEPT !.piece[p] = "torn"]
    /\ UNCHANGED <<head, source, opts, qpc, stored>>

Write(p) ==
    /\ qpc = p /\ dst.piece[p] = "torn"
    /\ dst' = [dst EXCEPT !.piece[p] = "whole",
                          !.tensors = IF p = "shard" THEN <<stored>> ELSE @,
                          !.config = IF p = "config" THEN <<NewConfig(source, opts.bits)>> ELSE @]
    /\ qpc' = After(p)
    /\ UNCHANGED <<head, source, opts, stored>>

\* sys.exit: "source config does not ignore lm_head", "no config group targets Linear"
Refuse ==
    /\ qpc = "config" /\ dst.piece["config"] = "absent"
    /\ "lm_head" \notin source.ignore \/ Trunks(source.groups) = {}
    /\ qpc' = "idle"
    /\ UNCHANGED <<head, source, opts, stored, dst>>

\* The tool is killed, and what it had computed is lost.
KillQuantizer ==
    /\ qpc # "idle"
    /\ qpc' = "idle" /\ stored' = <<>>
    /\ UNCHANGED <<head, source, opts, dst>>

StartQuantizer ==
    /\ qpc = "idle" /\ dst.piece["config"] # "whole"
    /\ qpc' = "start" /\ stored' = <<>>
    /\ UNCHANGED <<head, source, opts, dst>>

\* Someone removes what a failed call has left.
RemoveDst ==
    /\ qpc = "idle" /\ dst.dir /\ dst.piece["config"] # "whole"
    /\ dst' = NoDst
    /\ UNCHANGED <<head, source, opts, qpc, stored>>

QuantStep ==
    \/ StartQuantizer \/ Check \/ RefuseShape \/ Quantize \/ Mkdir \/ Refuse
    \/ KillQuantizer \/ RemoveDst
    \/ \E p \in Pieces : Open(p) \/ Write(p)

\* A source that the tool takes, and one for each refusal
Plain == [fits |-> TRUE, ignore |-> {"lm_head"},
          groups |-> [group_0 |-> [targets |-> {"Linear"}, bits |-> TrunkBits]]]
Sources == {Plain, [Plain EXCEPT !.fits = FALSE], [Plain EXCEPT !.ignore = {}],
            [Plain EXCEPT !.groups.group_0.targets = {"Conv"}]}

QuantInit ==
    /\ head \in Heads
    /\ source \in Sources
    /\ opts \in [bits : {TrunkBits, TrunkBits + 1}, observer : {"minmax", "mse"}]
    /\ qpc = "idle" /\ stored = <<>> /\ dst = NoDst

-----------------------------------------------------------------------------
(* What the new checkpoint promises.  A directory is loadable once its     *)
(* config.json can be read.                                                *)

Loadable == dst.piece["config"] = "whole"

\* A crash at any point, or a refusal after the tensors were written, never leaves a directory
\* that a launcher would load with a piece of it missing.
LoadableMeansWhole == Loadable => \A p \in Pieces : dst.piece[p] = "whole"

\* The loaded head is found in exactly one group, whose bits are those it was packed with,
\* and is no longer ignored (docstring, l.15-20).
HeadMatchesOneGroup ==
    Loadable => \A name \in HeadNames :
        /\ name \notin dst.config[1].ignore
        /\ \E g \in DOMAIN dst.config[1].groups :
            /\ dst.config[1].groups[g].bits = dst.tensors[1].bits
            /\ \A f \in DOMAIN dst.config[1].groups :
                   name \in dst.config[1].groups[f].targets <=> f = g

\* A group whose weights are not all of one sign is recovered to half a step of its range, root
\* mean square and whichever observer was used, and to what the rounding of the scale adds: up to
\* QMax / 2^ScaleBits of a step, which at 8 bits is nearly a whole one.
HeadIsRecovered ==
    Loadable /\ Span(head) > 0 /\ Least(head) <= 0 /\ Least(head) + Span(head) >= 0 =>
        LET t == dst.tensors[1]
            e == LoadedError(head, t)
            top == QMax(t.bits)
        IN  Squared(2 * top * 2^ScaleBits) * MapThenSumSet(LAMBDA i : Squared(e[i]), DOMAIN head)
                <= GroupSize * Squared(Span(head) * t.scale.den * (2^ScaleBits + 2 * top))
==============================================================================

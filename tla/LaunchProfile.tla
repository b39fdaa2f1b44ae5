---------------------------- MODULE LaunchProfile ----------------------------
(***************************************************************************)
(* What kv_pool_sizing.py reads before it computes anything: a launch      *)
(* script, the .env beside it and the model's config.json (l.56-68 and     *)
(* l.127-284); and what a launch makes of the same script and .env.        *)
(***************************************************************************)
EXTENDS Integers

-----------------------------------------------------------------------------
(* The model.  A config is what config.json says of the language model:    *)
(* the keys it gives, and how many of its layer_types are full attention   *)
(* and how many are not (none of either: no such list).                    *)

\* QWEN38_DEFAULTS.
Defaults ==
  [layers |-> 64, interval |-> 4, mtp |-> 1, kvHeads |-> 4, headDim |-> 256,
   kernel |-> 4, keyHeads |-> 16, valueHeads |-> 48, keyDim |-> 128, valueDim |-> 128]

\* load_model's {**QWEN38_DEFAULTS, **cfg}.  A path that does not exist gives no keys.
Merged(cfg) ==
  [k \in DOMAIN Defaults |-> IF k \in DOMAIN cfg.given THEN cfg.given[k] ELSE Defaults[k]]

\* _layer_counts.  The draft head's layers attend; an interval of 0 counts as 1.
LayerCounts(cfg) ==
  LET d == Merged(cfg)
      full == IF cfg.full + cfg.other > 0 THEN cfg.full
              ELSE d.layers \div (IF d.interval = 0 THEN 1 ELSE d.interval)
      all  == IF cfg.full + cfg.other > 0 THEN cfg.full + cfg.other ELSE d.layers
  IN  [attn |-> full + d.mtp, linear |-> all - full]

\* load_model.
LoadModel(cfg) ==
  LET d == Merged(cfg) IN
  [attn |-> LayerCounts(cfg).attn, linear |-> LayerCounts(cfg).linear,
   kvHeads |-> d.kvHeads, headDim |-> d.headDim, kernel |-> d.kernel,
   keyHeads |-> d.keyHeads, valueHeads |-> d.valueHeads,
   keyDim |-> d.keyDim, valueDim |-> d.valueDim]

-----------------------------------------------------------------------------
(* One numeric setting of a launch.                                        *)

Unset == -1   \* nobody assigns the variable
Empty ==  0   \* the empty text

\* How the script passes the argument: "knob": --arg "$V", after : "${V:=d}";
\* "assigned": --arg "$V", after V="${V:-d}"; a literal; one with a unit, such as
\* 4G; not at all.  script: the d or the literal.  dotenv, environ: what .env and the
\* shell's environment say of V.  cli: the tool's own --max-len or --pool-bytes.
Settings ==
  [form : {"knob", "assigned", "literal", "suffixed", "absent"}, script : Nat,
   dotenv : Nat \cup {Unset}, environ : Nat \cup {Unset}, cli : Nat]

\* Python's "a or b", and the shell's "unset or empty".
Or(a, b) == IF a \in {Unset, Empty} THEN b ELSE a

\* parse_profile: the .env, then the first default found in the script.  (The
\* mutant lets the script's default win.)
MutantFilled(s) == s.script
Filled(s) == IF s.dotenv = Unset THEN s.script ELSE s.dotenv

\* parse_profile: then the assignments, each resolved against what is there.
Lookup(s) == IF s.form = "assigned" THEN Or(Filled(s), s.script) ELSE Filled(s)

\* _resolve of the argument: a reference falls back to the environment.
Argument(s) ==
  IF s.form \in {"knob", "assigned"} THEN Or(Lookup(s), Or(s.environ, Empty))
  ELSE IF s.form = "absent" THEN Empty ELSE s.script

\* Profile.max_len, Profile.pool_bytes: int() knows no units.
Unreadable(s) == s.cli = 0 /\ s.form = "suffixed"

\* cmd_report: args.max_len or prof.max_len, and the same for the pool.
InForce(s) == Or(s.cli, Argument(s))

\* What the launched engine gets: the script sources .env into its environment, and
\* := and :- take an unset and an empty variable alike.
AtLaunch(s) ==
  IF s.form \in {"knob", "assigned"}
  THEN Or(IF s.dotenv = Unset THEN s.environ ELSE s.dotenv, s.script)
  ELSE IF s.form = "absent" THEN Empty ELSE s.script

\* The tool reads what the launch will: the caller's shell does not set the variable
\* behind the .env's back, and what .env empties an assignment fills again.
Mirrored(s) ==
  s.form \in {"knob", "assigned"} =>
    /\ s.dotenv = Unset => s.environ \in {Unset, Empty}
    /\ s.dotenv = Empty => s.form = "assigned" /\ s.script # Empty

\* The ways of writing a number down so that the tool then uses it: as an option of
\* the tool, in .env, or in the script.
Written(s, n) ==
  {t \in {[s EXCEPT !.cli = n], [s EXCEPT !.dotenv = n],
          [s EXCEPT !.script = n,
                    !.form = IF s.form \in {"suffixed", "absent"} THEN "literal" ELSE @]} :
     ~Unreadable(t) /\ InForce(t) = n}
=============================================================================

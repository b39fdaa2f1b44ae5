----------------------------- MODULE MCKvPoolSizing -----------------------------
(* The geometry of Qwen3.8-27B as the 128K profile runs it, two toy models whose *)
(* slots are small enough to try every edge, and the lengths and pools around    *)
(* those edges; each of them as a literal of the script, and some in the other   *)
(* places a launch reads.  (All numbers stay below 2^31, where TLC's integers    *)
(* end.)                                                                         *)
EXTENDS KvPoolSizing

\* No config.json at --model: the built-in dimensions.
Qwen == [given |-> <<>>, full |-> 0, other |-> 0]

\* A state that is larger than 16 tokens, and one that just fits them.
Wide == [given |-> [kvHeads |-> 2, headDim |-> 1, kernel |-> 2, keyHeads |-> 2,
                    valueHeads |-> 4, keyDim |-> 1, valueDim |-> 2, mtp |-> 0],
         full |-> 2, other |-> 3]
Even == [given |-> [kvHeads |-> 2, headDim |-> 1, kernel |-> 2, keyHeads |-> 1,
                    valueHeads |-> 4, keyDim |-> 1, valueDim |-> 2,
                    layers |-> 8, interval |-> 2],
         full |-> 0, other |-> 0]

MCConfigs == {Qwen, Wide, Even}

MCOptions ==
  {o \in [tp : {2}, bytes : {1, 2}, numSpec : {0, 3}, align : BOOLEAN,
          headroom : {0, 1}, seqs : {1, 2}, block : {0, 24}] :
     /\ o.bytes = 2 => o.numSpec = 0
     /\ o.block # 0 => o.bytes = 2}

Literal(n) ==
  [form |-> IF n = 0 THEN "absent" ELSE "literal", script |-> n,
   dotenv |-> Unset, environ |-> Unset, cli |-> 0]

\* A variable with a default of a, which .env may set to b and the shell to c.
Variable(a, b, c) ==
  [form : {"knob", "assigned"}, script : {a}, dotenv : {Unset, Empty, b},
   environ : {Unset, c}, cli : {0}]

MCLens ==
  {Literal(n) : n \in {0, 16, 17, 64, 65, 1600, 1601, 16384}}
  \cup Variable(64, 1601, 17)
  \cup {[Literal(64) EXCEPT !.cli = 16], [Literal(64) EXCEPT !.form = "suffixed"]}

\* Whole slots of the toy models and of Qwen, and one byte less.
MCPools ==
  {Literal(n) : n \in {0} \cup {k + d : k \in {128, 640, 1024, 2048, 27852800, 557056000},
                                       d \in {-1, 0}}}
  \cup Variable(2048, 557056000, 128)
  \cup {[Literal(128) EXCEPT !.cli = 1024], [Literal(640) EXCEPT !.form = "suffixed"]}
================================================================================

--------------------------- MODULE AccuracyProofs ---------------------------
(***************************************************************************)
(* Proofs about Accuracy: what a loadable checkpoint holds, how near its   *)
(* head is to the weights it was made of, and what the stored and compared *)
(* answers are, for any corpus, any configurations and any weights.        *)
(***************************************************************************)
EXTENDS Accuracy, FiniteSetTheorems, WellFoundedInduction, NaturalsInduction, TLAPS

-----------------------------------------------------------------------------
(* The quantizer.                                                          *)

QuantPCs == {"idle", "start", "quantize", "mkdir"} \cup Pieces
States == {"absent", "torn", "whole"}

DstType ==
    /\ DOMAIN dst = {"dir", "piece", "config", "tensors"}
    /\ dst.dir \in BOOLEAN
    /\ dst.piece \in [Pieces -> States]

\* A piece is begun when the one before it is whole ...
InOrder ==
    \A p \in Pieces : After(p) # "idle" /\ dst.piece[After(p)] # "absent" =>
        dst.piece[p] = "whole"

\* ... the tool is at the first piece that is not ...
AtPiece ==
    /\ qpc \in Pieces =>
        /\ dst.piece[qpc] # "whole"
        /\ \A p \in Pieces : After(p) = qpc => dst.piece[p] = "whole"
    /\ qpc \in {"quantize", "mkdir"} => \A p \in Pieces : dst.piece[p] = "absent"

\* ... and nothing is there before the directory is.
NothingYet == /\ qpc \in Pieces => dst.dir
              /\ ~dst.dir => \A p \in Pieces : dst.piece[p] = "absent"

\* What it holds and has written belongs to the bits it was called with.
OwnBits ==
    /\ qpc \in {"mkdir"} \cup Pieces => stored.bits = opts.bits
    /\ dst.piece["shard"] = "whole" => dst.tensors[1].bits = opts.bits
    /\ dst.piece["config"] # "absent" =>
           "lm_head" \in source.ignore /\ Trunks(source.groups) # {}
    /\ dst.piece["config"] = "whole" => dst.config[1] = NewConfig(source, opts.bits)

QuantInv ==
    /\ head \in Heads /\ source \in Sources /\ qpc \in QuantPCs /\ DstType
    /\ InOrder /\ AtPiece /\ NothingYet /\ OwnBits

LEMMA QuantInitial == QuantInit => QuantInv
BY DEF QuantInit, QuantInv, QuantPCs, DstType, States, InOrder, AtPiece, NothingYet,
       OwnBits, NoDst, Pieces, After

LEMMA QuantPreserved == QuantInv /\ QuantStep => QuantInv'
<1> SUFFICES ASSUME QuantInv, QuantStep PROVE QuantInv'
  OBVIOUS
<1> USE DEF QuantInv
<1>0. CASE RefuseShape
  BY <1>0 DEF RefuseShape, QuantPCs, DstType, InOrder, AtPiece, NothingYet, OwnBits, Pieces
<1>1. CASE StartQuantizer
  BY <1>1 DEF StartQuantizer, QuantPCs, DstType, InOrder, AtPiece, NothingYet, OwnBits, Pieces
<1>2. CASE Check
  BY <1>2 DEF Check, QuantPCs, DstType, InOrder, AtPiece, NothingYet, OwnBits, Pieces
<1>3. CASE Quantize
  BY <1>3 DEF Quantize, Tensors, QuantPCs, DstType, InOrder, AtPiece, NothingYet, OwnBits, Pieces
<1>4. CASE Mkdir
  BY <1>4 DEF Mkdir, QuantPCs, DstType, InOrder, AtPiece, NothingYet, OwnBits, Pieces, After
<1>5. CASE Refuse
  BY <1>5 DEF Refuse, QuantPCs, DstType, InOrder, AtPiece, NothingYet, OwnBits, Pieces
<1>6. CASE KillQuantizer
  BY <1>6 DEF KillQuantizer, QuantPCs, DstType, InOrder, AtPiece, NothingYet, OwnBits, Pieces
<1>7. CASE RemoveDst
  <2>1. DstType' /\ \A p \in Pieces : dst'.piece[p] = "absent"
    BY <1>7 DEF RemoveDst, NoDst, DstType, States, Pieces
  <2> QED BY <1>7, <2>1 DEF RemoveDst, QuantPCs, InOrder, AtPiece, NothingYet, OwnBits, Pieces,
                            After
<1>8. ASSUME NEW p \in Pieces, Open(p) PROVE QuantInv'
  <2>1. /\ qpc = p /\ dst.piece[p] = "absent" /\ UNCHANGED <<head, source, opts, qpc, stored>>
        /\ p = "config" => "lm_head" \in source.ignore /\ Trunks(source.groups) # {}
        /\ dst' = [dst EXCEPT !.piece[p] = "torn"]
    BY <1>8 DEF Open
  <2>2. DstType' /\ dst'.piece = [dst.piece EXCEPT ![p] = "torn"] /\ dst'.dir = dst.dir
        /\ dst'.tensors = dst.tensors /\ dst'.config = dst.config
    BY <2>1 DEF DstType, States
  <2>3. InOrder'
    <3> SUFFICES ASSUME NEW q \in Pieces, After(q) # "idle", dst'.piece[After(q)] # "absent"
                 PROVE  dst'.piece[q] = "whole"
      BY DEF InOrder
    <3>1. After(q) \in Pieces
      BY DEF After, Pieces
    <3>2. dst.piece[q] = "whole"
      BY <2>1, <2>2, <3>1 DEF DstType, InOrder, AtPiece
    <3> QED BY <2>1, <2>2, <3>2 DEF DstType
  <2>5. AtPiece' /\ NothingYet'
    BY <2>1, <2>2 DEF DstType, AtPiece, NothingYet, Pieces
  <2>4. OwnBits'
    BY <2>1, <2>2 DEF DstType, OwnBits, Pieces, Trunks
  <2> QED BY <2>1, <2>2, <2>3, <2>4, <2>5
<1>9. ASSUME NEW p \in Pieces, Write(p) PROVE QuantInv'
  <2>1. /\ qpc = p /\ dst.piece[p] = "torn" /\ qpc' = After(p)
        /\ UNCHANGED <<head, source, opts, stored>>
    BY <1>9 DEF Write
  <2>2. /\ DstType' /\ dst'.piece = [dst.piece EXCEPT ![p] = "whole"] /\ dst'.dir = dst.dir
        /\ dst'.tensors = IF p = "shard" THEN <<stored>> ELSE dst.tensors
        /\ dst'.config = IF p = "config" THEN <<NewConfig(source, opts.bits)>> ELSE dst.config
    BY <1>9 DEF Write, DstType, States
  <2>3. InOrder' /\ NothingYet' /\ (qpc \in QuantPCs)'
    <3>1. InOrder'
      BY <2>1, <2>2 DEF DstType, InOrder, AtPiece, Pieces, After
    <3>2. NothingYet'
      BY <2>1, <2>2 DEF DstType, NothingYet, Pieces
    <3> QED BY <3>1, <3>2, <2>1 DEF After, Pieces, QuantPCs
  <2>5. AtPiece'
    <3>1. ASSUME qpc' \in Pieces PROVE dst'.piece[qpc'] = "absent"
      BY <2>1, <2>2, <3>1 DEF DstType, States, InOrder, Pieces, After
    <3>2. ASSUME NEW q \in Pieces, After(q) = qpc' PROVE q = p \/ qpc' = "idle"
      BY <2>1, <3>2 DEF Pieces, After
    <3> QED BY <2>1, <2>2, <3>1, <3>2 DEF AtPiece, Pieces, DstType, After
  <2>4. OwnBits'
    BY <2>1, <2>2 DEF DstType, OwnBits, Pieces, After, Trunks, NewConfig, NewGroups
  <2> QED BY <2>1, <2>2, <2>3, <2>4, <2>5
<1> QED BY <1>0, <1>1, <1>2, <1>3, <1>4, <1>5, <1>6, <1>7, <1>8, <1>9 DEF QuantStep

LEMMA QuantStutters == QuantInv /\ UNCHANGED quantVars => QuantInv'
BY DEF QuantInv, quantVars, DstType, InOrder, AtPiece, NothingYet, OwnBits, Trunks, NewConfig,
       NewGroups

LEMMA WholeInOrder == QuantInv => LoadableMeansWhole
BY DEF QuantInv, DstType, InOrder, LoadableMeansWhole, Loadable, Pieces, After

\* The source ignores lm_head and has one group, the trunk's; the head joins it or gets its own.
LEMMA OneGroup == QuantInv => HeadMatchesOneGroup
<1> SUFFICES ASSUME QuantInv, Loadable, NEW name \in HeadNames
             PROVE  /\ name \notin dst.config[1].ignore
                    /\ \E g \in DOMAIN dst.config[1].groups :
                        /\ dst.config[1].groups[g].bits = dst.tensors[1].bits
                        /\ \A f \in DOMAIN dst.config[1].groups :
                               name \in dst.config[1].groups[f].targets <=> f = g
  BY DEF HeadMatchesOneGroup
<1> DEFINE trunk == [group_0 |-> [targets |-> {"Linear"}, bits |-> TrunkBits]]
<1>1. /\ dst.tensors[1].bits = opts.bits /\ dst.config[1] = NewConfig(source, opts.bits)
      /\ "lm_head" \in source.ignore /\ Trunks(source.groups) # {}
  <2>1. dst.piece["shard"] = "whole" /\ dst.piece["config"] = "whole"
    BY WholeInOrder DEF QuantInv, DstType, LoadableMeansWhole, Loadable, Pieces
  <2> QED BY <2>1 DEF QuantInv, OwnBits
<1>2. source.ignore = {"lm_head"} /\ source.groups = trunk
  BY <1>1 DEF QuantInv, Sources, Plain, Trunks
<1>3. Trunks(trunk) = {"group_0"}
  BY DEF Trunks
<1>4. Trunk(trunk) = "group_0"
  BY <1>3 DEF Trunk
<1> HIDE DEF trunk
<1> DEFINE groups == NewGroups(trunk, opts.bits)
<1>5. dst.config[1].ignore = {} /\ dst.config[1].groups = groups
  BY <1>1, <1>2 DEF NewConfig
<1>6. CASE opts.bits = TrunkBits
  <2>1. groups = [trunk EXCEPT !["group_0"].targets = @ \cup HeadNames]
    <3>1. opts.bits = trunk["group_0"].bits
      BY <1>6 DEF trunk
    <3> QED BY <1>4, <3>1 DEF NewGroups
  <2>2. DOMAIN groups = {"group_0"} /\ groups["group_0"].bits = opts.bits
        /\ groups["group_0"].targets = {"Linear"} \cup HeadNames
    BY <2>1, <1>6 DEF trunk
  <2> HIDE DEF groups
  <2> QED BY <1>1, <1>5, <2>2
<1>7. CASE opts.bits # TrunkBits
  <2>1. groups = [g \in DOMAIN trunk \cup {"head"} |->
                    IF g = "head" THEN [targets |-> HeadNames, bits |-> opts.bits]
                    ELSE [h \in DOMAIN trunk |-> [trunk[h] EXCEPT !.targets = @ \ HeadNames]][g]]
    BY <1>4, <1>7 DEF NewGroups, trunk
  <2>2. /\ DOMAIN groups = {"group_0", "head"} /\ groups["head"].bits = opts.bits
        /\ groups["head"].targets = HeadNames /\ groups["group_0"].targets = {"Linear"} \ HeadNames
    BY <2>1 DEF trunk
  <2> HIDE DEF groups
  <2> QED BY <1>1, <1>5, <2>2
<1> QED BY <1>6, <1>7

-----------------------------------------------------------------------------
(* The evaluations.                                                        *)

EvalPCs == {"idle", "next", "asked", "open", "saving"}
Servers == [config : Configs, kind : {"dense", "probes"}]

RawType ==
    /\ DOMAIN raw = Configs
    /\ \A c \in Configs : DOMAIN raw[c] = Items
    /\ \A c \in Configs, i \in Items : raw[c][i] \in {Absent, Torn} \cup AnswersOf(c)

\* While it runs, the evaluation knows what it asks for, and no other server comes up.
Knows ==
    /\ server # None => server \in Servers
    /\ (epc = "idle") = (label = None)
    /\ epc # "idle" => label \in Labels
    /\ (item # None) = (epc \in {"asked", "open", "saving"})
    /\ item # None => item \in Items
    /\ epc # "idle" /\ server # None => server.config = label.config
    /\ IF epc \in {"open", "saving"} THEN answer \in AnswersOf(label.config) ELSE answer = None

\* Nothing it was asked for is lost between the items it still looks at and the files.
NothingLost ==
    epc # "idle" => \A i \in Items : Kind(i) \in label.kinds =>
        \/ i \in todo
        \/ raw[label.config][i].state # "absent"
        \/ epc \in {"asked", "open"} /\ i = item

DoneStays ==
    \A l \in done : /\ l \in Labels
                    /\ \A i \in Items : Kind(i) \in l.kinds => raw[l.config][i].state # "absent"

ResultType ==
    result # None => /\ DOMAIN result \subseteq Items
                     /\ \A i \in DOMAIN result : DOMAIN result[i] = {"base", "other", "m"}

EvalInv ==
    /\ epc \in EvalPCs /\ todo \subseteq Items /\ deaths \in 0..MaxDeaths /\ RawType
    /\ Knows /\ NothingLost /\ DoneStays /\ ResultType /\ ComparedAreTheConfigs

\* What is stored under a configuration is whole and its own.
LEMMA OwnAnswer ==
    ASSUME NEW c \in Configs, NEW x \in AnswersOf(c)
    PROVE  x.state = "whole" /\ x.by = c /\ x # Absent /\ x # Torn
BY DEF AnswersOf, Stored, Absent, Torn

LEMMA StateOf ==
    ASSUME NEW c \in Configs, NEW i \in Items, RawType
    PROVE  (raw[c][i].state = "absent") <=> (raw[c][i] = Absent)
BY OwnAnswer DEF RawType, Absent, Torn

LEMMA EvalInitial == EvalInit => EvalInv
<1> SUFFICES ASSUME EvalInit PROVE EvalInv
  OBVIOUS
<1>1. \A c \in Configs, i \in Items : raw[c][i].state = "absent"
  BY DEF EvalInit, Absent
<1> QED BY <1>1, BoundAssumption
      DEF EvalInit, EvalInv, EvalPCs, RawType, Absent, Knows, NothingLost, DoneStays, ResultType,
          ComparedAreTheConfigs

LEMMA EvalPreserved == EvalInv /\ EvalStep => EvalInv'
<1> SUFFICES ASSUME EvalInv, EvalStep PROVE EvalInv'
  OBVIOUS
<1> USE DEF EvalInv
<1>0. \A c : UNCHANGED AnswersOf(c)
  BY DEF AnswersOf
<1>1. CASE ServerDies
  BY <1>0, <1>1, BoundAssumption DEF ServerDies, RawType, Knows, NothingLost, DoneStays,
              ResultType, ComparedAreTheConfigs
<1>2. CASE StartEval
  <2>1. PICK kinds \in {{"dense"}, {"probes"}, {"dense", "probes"}} :
            label' = [config |-> server.config, kinds |-> kinds]
    BY <1>2 DEF StartEval
  <2>2. /\ epc = "idle" /\ epc' = "next" /\ server # None /\ todo' \subseteq Items
        /\ todo' = {i \in Items : Kind(i) \in label'.kinds}
        /\ UNCHANGED <<server, item, answer, raw, done, result, deaths>>
    BY <1>2 DEF StartEval
  <2>3. /\ label' \in Labels /\ label' # None /\ label'.config = server.config
    <3>1. label' \in Labels /\ label'.config = server.config
      BY <2>1, <2>2 DEF Knows, Servers, Labels
    <3> QED  BY <3>1, NoneAssumption DEF Labels
  <2> QED  BY <1>0, <2>2, <2>3 DEF RawType, Knows, NothingLost, DoneStays, ResultType,
              ComparedAreTheConfigs, EvalPCs
<1>3. CASE Receive
  <2>1. answer' \in AnswersOf(label.config)
    BY <1>3 DEF Receive, Answered, AnswersOf, Knows
  <2> QED  BY <1>0, <1>3, <2>1 DEF Receive, RawType, Knows, NothingLost, DoneStays, ResultType,
              ComparedAreTheConfigs, EvalPCs
<1>4. CASE AskFails
  BY <1>0, <1>4 DEF AskFails, RawType, Knows, NothingLost, DoneStays, ResultType,
              ComparedAreTheConfigs, EvalPCs
<1>5. CASE OpenFile
  <2>1. label.config \in Configs /\ item \in Items /\ Torn.state = "torn"
    BY <1>5 DEF OpenFile, Knows, Labels, Torn
  <2> raw' = [raw EXCEPT ![label.config][item] = Torn]
    BY <1>5 DEF OpenFile, OutDir
  <2>2. /\ RawType' /\ raw'[label.config][item] = Torn
        /\ \A d \in Configs, j \in Items :
               <<d, j>> # <<label.config, item>> => raw'[d][j] = raw[d][j]
    BY <1>0, <2>1 DEF RawType
  <2> QED BY <1>0, <1>5, <2>1, <2>2 DEF OpenFile, Knows, NothingLost, DoneStays, Labels,
                ResultType, ComparedAreTheConfigs, EvalPCs
<1>6. CASE Save
  <2>1. /\ label.config \in Configs /\ item \in Items
        /\ answer \in AnswersOf(label.config) /\ answer.state = "whole"
    BY <1>6, OwnAnswer DEF Save, Knows, Labels
  <2> raw' = [raw EXCEPT ![label.config][item] = answer]
    BY <1>6 DEF Save, OutDir
  <2>2. /\ RawType' /\ raw'[label.config][item] = answer
        /\ \A d \in Configs, j \in Items :
               <<d, j>> # <<label.config, item>> => raw'[d][j] = raw[d][j]
    BY <1>0, <2>1 DEF RawType
  <2> QED BY <1>0, <1>6, <2>1, <2>2 DEF Save, Knows, NothingLost, DoneStays, Labels,
                ResultType, ComparedAreTheConfigs, EvalPCs
<1>7. CASE Done
  BY <1>0, <1>7 DEF Done, RawType, Knows, NothingLost, DoneStays, ResultType,
              ComparedAreTheConfigs, EvalPCs
<1>8. CASE EvalDies
  BY <1>0, <1>8, BoundAssumption DEF EvalDies, RawType, Knows, NothingLost, DoneStays, ResultType,
              ComparedAreTheConfigs, EvalPCs
<1>9. CASE Compare
  <2>1. ASSUME result' # None, NEW i \in DOMAIN result'
        PROVE  /\ i \in Items /\ DOMAIN result'[i] = {"base", "other", "m"}
               /\ result'[i].base = Base /\ result'[i].other = Other
    <3>1. /\ i \in Paired /\ Torn \notin {raw[Base][i], raw[Other][i]}
          /\ DOMAIN result'[i] = {"base", "other", "m"}
          /\ result'[i].base = raw[Base][i].by /\ result'[i].other = raw[Other][i].by
      BY <1>9, <2>1 DEF Compare, BaseRaw, OtherRaw, OutDir
    <3>2. /\ i \in Items /\ raw[Base][i] \notin {Absent, Torn}
          /\ raw[Other][i] \notin {Absent, Torn}
      BY <3>1 DEF Paired, BaseRaw, OtherRaw, OutDir
    <3> QED BY <3>1, <3>2, ConfigsAssumption, OwnAnswer DEF RawType
  <2> QED BY <1>0, <1>9, <2>1 DEF Compare, RawType, Knows, NothingLost, DoneStays, ResultType,
               ComparedAreTheConfigs
<1>10. ASSUME NEW i \in Items, Skip(i) PROVE EvalInv'
  <2>1. i \in Items /\ label.config \in Configs /\ raw[label.config][i].state # "absent"
    BY <1>10, StateOf DEF Skip, Exists, OutDir, Knows, Labels
  <2> QED BY <1>0, <1>10, <2>1 DEF Skip, RawType, Knows, NothingLost, DoneStays, ResultType,
               ComparedAreTheConfigs, EvalPCs
<1>11. ASSUME NEW i \in Items, Ask(i) PROVE EvalInv'
  BY <1>0, <1>11, NoneAssumption DEF Ask, RawType, Knows, NothingLost, DoneStays, ResultType,
               ComparedAreTheConfigs, EvalPCs
<1> QED BY <1>1, <1>2, <1>3, <1>4, <1>5, <1>6, <1>7, <1>8, <1>9, <1>10, <1>11 DEF EvalStep

LEMMA Launches ==
    ASSUME EvalInv, NEW c \in Configs, NEW kind \in {"dense", "probes"}, Launch(c, kind)
    PROVE  EvalInv'
<1>1. \A d : UNCHANGED AnswersOf(d)
  BY DEF AnswersOf
<1> QED  BY <1>1 DEF EvalInv, Launch, Servers, RawType, Knows, NothingLost, DoneStays,
                     ResultType, ComparedAreTheConfigs

LEMMA EvalStutters == EvalInv /\ UNCHANGED evalVars => EvalInv'
<1>1. \A d : UNCHANGED AnswersOf(d)
  BY DEF AnswersOf
<1> QED  BY <1>1 DEF EvalInv, evalVars, RawType, Knows, NothingLost, DoneStays, ResultType,
                     ComparedAreTheConfigs

-----------------------------------------------------------------------------
(* The head that is stored.                                                *)

Computed == Tensors(head, opts)

\* What the tool holds, and what it has written, is what it computed from this head.
HeadStored ==
    /\ opts \in [bits : {TrunkBits, TrunkBits + 1}, observer : {"minmax", "mse"}]
    /\ stored \in {<<>>, Computed}
    /\ dst.tensors \in {<<>>, <<Computed>>}
    /\ dst.config # <<>> => dst.config = <<NewConfig(source, opts.bits)>>
    /\ qpc \in {"mkdir"} \cup Pieces => stored = Computed
    /\ dst.piece["shard"] = "whole" => dst.tensors = <<Computed>>

LEMMA StoredInitial == QuantInit => HeadStored
BY DEF QuantInit, HeadStored, NoDst, Pieces

LEMMA StoredPreserved == QuantInv /\ HeadStored /\ QuantStep => HeadStored'
<1> SUFFICES ASSUME QuantInv, HeadStored, QuantStep PROVE HeadStored'
  OBVIOUS
<1>1. UNCHANGED <<head, source, opts>> /\ Computed' = Computed
  BY DEF QuantStep, StartQuantizer, Check, RefuseShape, Quantize, Mkdir, Refuse, KillQuantizer,
         RemoveDst, Open, Write, Computed
<1> USE DEF HeadStored
<1>2. CASE StartQuantizer \/ Check \/ RefuseShape \/ Refuse \/ KillQuantizer
  BY <1>1, <1>2 DEF StartQuantizer, Check, RefuseShape, Refuse, KillQuantizer, Pieces
<1>3. CASE Quantize
  <2>1. stored' = Computed /\ dst' = dst
    BY <1>3 DEF Quantize, Computed
  <2> QED  BY <1>1, <2>1
<1>4. CASE Mkdir
  <2>1. /\ qpc = "mkdir" /\ stored' = stored /\ dst'.piece = dst.piece
        /\ dst'.tensors = dst.tensors /\ dst'.config = dst.config
    BY <1>4 DEF Mkdir, QuantInv, DstType
  <2> QED  BY <1>1, <2>1
<1>5. CASE RemoveDst
  BY <1>1, <1>5 DEF RemoveDst, NoDst, Pieces
<1>6. ASSUME NEW p \in Pieces, Open(p) PROVE HeadStored'
  <2>1. /\ qpc' = qpc /\ stored' = stored /\ dst'.tensors = dst.tensors
        /\ dst'.config = dst.config /\ dst'.piece = [dst.piece EXCEPT ![p] = "torn"]
    BY <1>6 DEF Open, QuantInv, DstType
  <2> QED  BY <1>1, <2>1 DEF QuantInv, DstType, States, Pieces
<1>7. ASSUME NEW p \in Pieces, Write(p) PROVE HeadStored'
  <2>1. /\ qpc \in Pieces /\ qpc' \in Pieces \cup {"idle"} /\ stored' = stored
        /\ dst'.tensors = IF p = "shard" THEN <<stored>> ELSE dst.tensors
        /\ dst'.config = IF p = "config" THEN <<NewConfig(source, opts.bits)>> ELSE dst.config
        /\ dst'.piece = [dst.piece EXCEPT ![p] = "whole"]
    BY <1>7 DEF Write, After, Pieces, QuantInv, DstType
  <2> QED  BY <1>1, <2>1 DEF QuantInv, DstType, States, Pieces
<1> QED  BY <1>2, <1>3, <1>4, <1>5, <1>6, <1>7 DEF QuantStep

LEMMA StoredStutters == HeadStored /\ UNCHANGED quantVars => HeadStored'
<1> SUFFICES ASSUME HeadStored, UNCHANGED quantVars PROVE HeadStored'
  OBVIOUS
<1>1. UNCHANGED <<head, source, opts, qpc, stored, dst>> /\ Computed' = Computed
  BY DEF quantVars, Computed
<1> QED  BY <1>1 DEF HeadStored

-----------------------------------------------------------------------------
(* How near a quantized group is to its weights.                           *)

LEMMA LeastNat ==
    ASSUME NEW S, S \subseteq Nat, S # {}
    PROVE  \E x \in S : \A y \in S : x <= y
<1> DEFINE R == OpToRel(<, Nat)
<1>1. IsWellFoundedOn(R, Nat)
  BY NatLessThanWellFounded
<1> HIDE DEF R
<1>2. PICK x \in S : \A y \in S : <<y, x>> \notin R
  BY <1>1, WFMin
<1>3. \A y \in S : ~(y < x)
  BY <1>2 DEF R, OpToRel
<1> QED  BY <1>3

\* A head has a least weight, and a greatest.
LEMMA LeastIndex ==
    ASSUME NEW n \in Nat \ {0}, NEW w \in [1..n -> Int]
    PROVE  \E i \in 1..n : \A j \in 1..n : w[i] <= w[j]
<1> DEFINE bad == {k \in 1..n : ~ \E i \in 1..k : \A j \in 1..k : w[i] <= w[j]}
<1>1. SUFFICES ASSUME bad # {} PROVE FALSE
  <2>1. n \in 1..n /\ (n \notin bad => \E i \in 1..n : \A j \in 1..n : w[i] <= w[j])
    OBVIOUS
  <2> HIDE DEF bad
  <2> QED  BY <2>1
<1>2. PICK k \in bad : \A m \in bad : k <= m
  <2>1. bad \subseteq Nat
    OBVIOUS
  <2> HIDE DEF bad
  <2> QED  BY <1>1, <2>1, LeastNat
<1>3. k # 1
  OBVIOUS
<1>4. k - 1 \in 1..n /\ k - 1 \notin bad
  <2>1. k \in 1..n
    OBVIOUS
  <2> HIDE DEF bad
  <2> QED  BY <1>2, <1>3, <2>1
<1>5. PICK i \in 1..(k - 1) : \A j \in 1..(k - 1) : w[i] <= w[j]
  BY <1>4
<1>6. \A j \in 1..k : j = k \/ j \in 1..(k - 1)
  OBVIOUS
<1>7. w[i] \in Int /\ w[k] \in Int
  OBVIOUS
<1>8. CASE w[i] <= w[k]
  BY <1>5, <1>6, <1>8
<1>9. CASE w[k] <= w[i]
  <2>1. \A j \in 1..k : w[k] <= w[j]
    <3> SUFFICES ASSUME NEW j \in 1..k PROVE w[k] <= w[j]
      OBVIOUS
    <3>1. w[j] \in Int
      OBVIOUS
    <3>2. CASE j = k
      BY <1>7, <3>2
    <3>3. CASE j \in 1..(k - 1)
      BY <1>5, <1>7, <1>9, <3>1, <3>3
    <3> QED  BY <1>6, <3>2, <3>3
  <2> QED  BY <2>1
<1> QED  BY <1>7, <1>8, <1>9

LEMMA LeastAndSpan ==
    ASSUME NEW w \in Heads
    PROVE  /\ Least(w) \in Int /\ Span(w) \in Nat
           /\ \A i \in 1..GroupSize :
                  w[i] \in Int /\ Least(w) <= w[i] /\ w[i] <= Least(w) + Span(w)
<1> DEFINE S == {w[i] : i \in DOMAIN w}
<1>0. w \in [1..GroupSize -> Int] /\ GroupSize \in Nat \ {0} /\ DOMAIN w = 1..GroupSize
  BY HeadAssumption DEF Heads
<1>1. PICK i \in 1..GroupSize : \A j \in 1..GroupSize : w[i] <= w[j]
  BY <1>0, LeastIndex
<1> DEFINE v == [j \in 1..GroupSize |-> 0 - w[j]]
<1>2. PICK k \in 1..GroupSize : \A j \in 1..GroupSize : v[k] <= v[j]
  <2>1. v \in [1..GroupSize -> Int]
    BY <1>0
  <2> HIDE DEF v
  <2> QED  BY <1>0, <2>1, LeastIndex
<1>3. \A j \in 1..GroupSize : w[j] <= w[k]
  BY <1>0, <1>2
<1>4. Min(S) \in S /\ \A y \in S : Min(S) <= y
  <2>1. \E x \in S : \A y \in S : x <= y
    BY <1>0, <1>1
  <2> QED  BY <2>1 DEF Min
<1>5. Max(S) \in S /\ \A y \in S : Max(S) >= y
  <2>1. \E x \in S : \A y \in S : x >= y
    BY <1>0, <1>3
  <2> QED  BY <2>1 DEF Max
<1>6. Min(S) \in Int /\ Max(S) \in Int /\ Max(S) >= Min(S)
      /\ \A j \in 1..GroupSize : w[j] \in Int /\ Min(S) <= w[j] /\ w[j] <= Max(S)
  <2>1. S \subseteq Int /\ \A j \in 1..GroupSize : w[j] \in S
    BY <1>0
  <2> HIDE DEF S
  <2> QED  BY <1>4, <1>5, <2>1
<1>7. Least(w) = Min(S) /\ Span(w) = Max(S) - Min(S)
  BY DEF Least, Span
<1> HIDE DEF S
<1> QED  BY <1>6, <1>7

LEMMA PowerOfTwo ==
    ASSUME NEW b \in Nat PROVE 2^b \in Nat /\ 2^b # 0 /\ (b # 0 => 2^b # 1)
<1>1. IsFiniteSet(1..b) /\ Cardinality(1..b) = b
  BY FS_Interval
<1>2. IsFiniteSet(SUBSET (1..b)) /\ Cardinality(SUBSET (1..b)) = 2^b
  BY <1>1, FS_SUBSET
<1>3. SUBSET (1..b) # {}
  OBVIOUS
<1>4. 2^b \in Nat /\ 2^b # 0
  BY <1>2, <1>3, FS_CardinalityType, FS_EmptySet
<1>5. ASSUME b # 0, 2^b = 1 PROVE FALSE
  <2>1. {} \in SUBSET (1..b) /\ {1} \in SUBSET (1..b) /\ {} # {1}
    BY <1>5
  <2>2. PICK x : SUBSET (1..b) = {x}
    BY <1>2, <1>5, FS_Singleton
  <2> QED  BY <2>1, <2>2
<1> QED  BY <1>4, <1>5

LEMMA QMaxType == ASSUME NEW b \in Nat PROVE QMax(b) \in Nat /\ (b # 0 => QMax(b) # 0)
BY PowerOfTwo DEF QMax

LEMMA Times ==
    ASSUME NEW a \in Int, NEW b \in Int, NEW d \in Nat, a <= b
    PROVE  a * d <= b * d
OBVIOUS

\* torch.round is off by at most half a unit ...
LEMMA RoundIsNear ==
    ASSUME NEW n \in Int, NEW d \in Nat \ {0}
    PROVE  /\ RoundDiv(n, d) \in Int
           /\ 2 * (RoundDiv(n, d) * d - n) <= d /\ 2 * (n - RoundDiv(n, d) * d) <= d
<1> DEFINE down == n \div d
           rest == n % d
<1>1. down \in Int /\ rest \in 0..(d - 1) /\ n = d * down + rest
  OBVIOUS
<1>2. RoundDiv(n, d) \in {down, down + 1} /\ (RoundDiv(n, d) = down => 2 * rest <= d)
      /\ (RoundDiv(n, d) = down + 1 => 2 * rest >= d)
  BY <1>1 DEF RoundDiv
<1> HIDE DEF down, rest
<1>3. d * down \in Int /\ down * d = d * down /\ (down + 1) * d = d * down + d
  BY <1>1
<1>4. CASE RoundDiv(n, d) = down
  BY <1>1, <1>2, <1>3, <1>4
<1>5. CASE RoundDiv(n, d) = down + 1
  BY <1>1, <1>2, <1>3, <1>5
<1> QED  BY <1>2, <1>4, <1>5

\* ... and still is after clamping, if the number is off the range by no more.
LEMMA ClampIsNear ==
    ASSUME NEW n \in Int, NEW d \in Nat \ {0}, NEW top \in Nat,
           0 <= 2 * n + d, 2 * n <= 2 * (top * d) + d,
           NEW c, c = Clamp(RoundDiv(n, d), top)
    PROVE  c \in 0..top /\ 2 * (c * d - n) <= d /\ 2 * (n - c * d) <= d
<1> DEFINE r == RoundDiv(n, d)
<1>1. r \in Int /\ 2 * (r * d - n) <= d /\ 2 * (n - r * d) <= d
  BY RoundIsNear
<1> HIDE DEF r
<1>2. top * d \in Int /\ r * d \in Int /\ 0 * d = 0 /\ (0 - 1) * d = 0 - d
      /\ (top + 1) * d = top * d + d
  BY <1>1
<1>3. CASE r < 0
  <2>1. c = 0
    BY <1>3 DEF Clamp, r
  <2>2. r * d <= 0 - d
    <3>1. r <= 0 - 1
      BY <1>1, <1>3
    <3>2. r * d <= (0 - 1) * d
      BY <1>1, <3>1, Times
    <3> QED  BY <1>2, <3>2
  <2> QED  BY <1>1, <1>2, <2>1, <2>2
<1>4. CASE r > top
  <2>1. c = top
    BY <1>1, <1>4 DEF Clamp, r
  <2>2. r * d >= top * d + d
    <3>1. top + 1 <= r
      BY <1>1, <1>4
    <3>2. (top + 1) * d <= r * d
      BY <1>1, <3>1, Times
    <3> QED  BY <1>2, <3>2
  <2> QED  BY <1>1, <1>2, <2>1, <2>2
<1>5. CASE 0 <= r /\ r <= top
  <2>1. c = r
    BY <1>1, <1>5 DEF Clamp, r
  <2> QED  BY <1>1, <1>2, <1>5, <2>1
<1> QED  BY <1>1, <1>3, <1>4, <1>5 DEF r

\* With ratio Whole, no weight of a group with both signs moves by more than half a step.
LEMMA WholeRangeIsNear ==
    ASSUME NEW w \in Heads, NEW b \in Nat, Span(w) > 0,
           Least(w) <= 0, Least(w) + Span(w) >= 0, NEW i \in 1..GroupSize
    PROVE  LET e == Error(w, b, Quantized(w, b, Whole))[i]
           IN  e \in Int /\ 2 * e <= Span(w) * Whole /\ 0 - 2 * e <= Span(w) * Whole
<1> DEFINE lo == Least(w)
           sp == Span(w)
           m == QMax(b)
           x == w[i]
           W == Whole
           z == Zero(w, b, W)
           q == Clamp(RoundDiv(x * W * m + z * (sp * W), sp * W), m)
<1>1. /\ lo \in Int /\ sp \in Nat \ {0} /\ m \in Nat /\ x \in Int /\ W \in Nat \ {0}
      /\ lo <= x /\ x <= lo + sp /\ lo <= 0 /\ lo + sp >= 0
  BY LeastAndSpan, QMaxType, HeadAssumption
<1>2. z = Clamp(RoundDiv(-(2 * W * lo + sp * (W - W)) * m, 2 * sp * W), m)
  BY DEF Zero
<1>3. Error(w, b, Quantized(w, b, W))[i] = (q - z) * sp * W - x * W * m
  <2>1. DOMAIN w = 1..GroupSize
    BY DEF Heads
  <2> QED  BY <2>1 DEF Error, Quantized
<1> HIDE DEF lo, sp, m, x, W, z, q
<1> DEFINE L == lo * m
           M == sp * m
<1>4. /\ L \in Int /\ M \in Int /\ x * m \in Int /\ L <= 0 /\ L + M >= 0
      /\ L <= x * m /\ x * m <= L + M /\ M >= 0
  <2>1. L \in Int /\ M \in Int /\ x * m \in Int /\ (lo + sp) * m = L + M /\ 0 * m = 0
    BY <1>1
  <2>2. lo * m <= 0 * m /\ 0 * m <= (lo + sp) * m /\ lo * m <= x * m /\ x * m <= (lo + sp) * m
        /\ 0 * m <= sp * m
    BY <1>1, Times
  <2> QED  BY <2>1, <2>2
<1>5. z \in 0..m /\ 2 * (z * sp + L) <= sp /\ 2 * (0 - (z * sp + L)) <= sp
  <2> DEFINE n == -(2 * W * lo + sp * (W - W)) * m
             d == 2 * sp * W
  <2>1. /\ n = (2 * W) * (0 - L) /\ d = (2 * W) * sp /\ n \in Int /\ d \in Nat \ {0}
        /\ m * d = (2 * W) * M
    BY <1>1
  <2> HIDE DEF n, d, L, M
  <2>2. 0 <= (2 * W) * (0 - L) /\ (2 * W) * (0 - L) <= (2 * W) * M
    BY <1>1, <1>4
  <2>3. 0 <= 2 * n + d /\ 2 * n <= 2 * (m * d) + d
    BY <2>1, <2>2, <1>1, <1>4
  <2>4. z = Clamp(RoundDiv(n, d), m)
    BY <1>2 DEF n, d
  <2>5. z \in 0..m /\ 2 * (z * d - n) <= d /\ 2 * (n - z * d) <= d
    BY <1>1, <2>1, <2>3, <2>4, ClampIsNear
  <2>6. z * d - n = (2 * W) * (z * sp + L) /\ n - z * d = (2 * W) * (0 - (z * sp + L))
    BY <1>1, <1>4, <2>1, <2>5
  <2>7. (2 * W) * (2 * (z * sp + L)) <= (2 * W) * sp
        /\ (2 * W) * (2 * (0 - (z * sp + L))) <= (2 * W) * sp
    BY <1>1, <1>4, <2>1, <2>5, <2>6
  <2> DEFINE y == z * sp + L
  <2>8. y \in Int
    BY <1>1, <1>4, <2>5
  <2> HIDE DEF y
  <2>9. \A u, v \in Int : (2 * W) * u <= (2 * W) * v => u <= v
    BY <1>1
  <2>10. (2 * W) * (2 * y) <= (2 * W) * sp /\ (2 * W) * (2 * (0 - y)) <= (2 * W) * sp
    BY <2>7 DEF y
  <2>11. 2 * y <= sp /\ 2 * (0 - y) <= sp
    BY <1>1, <2>8, <2>9, <2>10
  <2> QED  BY <2>5, <2>11 DEF y
<1> HIDE DEF L, M
<1>6. q \in 0..m /\ 2 * (q * (sp * W) - (x * W * m + z * (sp * W))) <= sp * W
      /\ 2 * ((x * W * m + z * (sp * W)) - q * (sp * W)) <= sp * W
  <2> DEFINE n == x * W * m + z * (sp * W)
             d == sp * W
             y == z * sp + L
  <2>0. y \in Int /\ 2 * y <= sp /\ 0 - 2 * y <= sp /\ z * sp \in Int
    BY <1>1, <1>4, <1>5
  <2>1. n = (x * m + z * sp) * W /\ n \in Int /\ d \in Nat \ {0} /\ m * d = M * W
    BY <1>1, <1>5 DEF M
  <2>2. 0 <= 2 * (x * m + z * sp) + sp /\ 2 * (x * m + z * sp) <= 2 * M + sp
    BY <1>1, <1>4, <2>0
  <2>3. 0 * W <= (2 * (x * m + z * sp) + sp) * W
        /\ (2 * (x * m + z * sp)) * W <= (2 * M + sp) * W
    <3>1. 2 * (x * m + z * sp) \in Int /\ 2 * (x * m + z * sp) + sp \in Int /\ 2 * M + sp \in Int
      BY <1>1, <1>4, <2>0
    <3> QED  BY <1>1, <2>2, <3>1, Times
  <2>4. /\ 0 * W = 0
        /\ (2 * (x * m + z * sp) + sp) * W = 2 * n + d
        /\ (2 * (x * m + z * sp)) * W = 2 * n
        /\ (2 * M + sp) * W = 2 * (m * d) + d
    BY <1>1, <1>4, <2>0, <2>1
  <2>5. 0 <= 2 * n + d /\ 2 * n <= 2 * (m * d) + d
    BY <2>3, <2>4
  <2>6. q = Clamp(RoundDiv(n, d), m)
    BY DEF q
  <2> HIDE DEF n, d
  <2>7. q \in 0..m /\ 2 * (q * d - n) <= d /\ 2 * (n - q * d) <= d
    BY <1>1, <2>1, <2>5, <2>6, ClampIsNear
  <2> QED  BY <2>7 DEF n, d
<1> DEFINE e == q * (sp * W) - (x * W * m + z * (sp * W))
<1>7. (q - z) * sp * W - x * W * m = e /\ e \in Int
      /\ (x * W * m + z * (sp * W)) - q * (sp * W) = 0 - e
  BY <1>1, <1>5, <1>6
<1>8. 2 * e <= sp * W /\ 0 - 2 * e <= sp * W
  <2>1. sp * W \in Int
    BY <1>1
  <2> HIDE DEF e
  <2>2. 2 * e <= sp * W /\ 2 * (0 - e) <= sp * W
    BY <1>6, <1>7 DEF e
  <2> QED  BY <1>7, <2>1, <2>2
<1> HIDE DEF e
<1> QED  BY <1>3, <1>7, <1>8 DEF sp, W

LEMMA SquareOfHalf ==
    ASSUME NEW e \in Int, NEW s \in Nat, 2 * e <= s, 0 - 2 * e <= s
    PROVE  Squared(e) \in Nat /\ Squared(s) \in Nat /\ 4 * Squared(e) <= Squared(s)
<1> DEFINE a == IF e < 0 THEN 0 - e ELSE e
<1>1. a \in Nat /\ 2 * a <= s /\ a * a = e * e
  OBVIOUS
<1> HIDE DEF a
<1>2. (2 * a) * (2 * a) <= s * (2 * a) /\ (2 * a) * s <= s * s
  BY <1>1, Times
<1>3. (2 * a) * (2 * a) = 4 * (a * a) /\ (2 * a) * s = s * (2 * a)
      /\ a * a \in Nat /\ s * s \in Nat /\ s * (2 * a) \in Int
  BY <1>1
<1> QED  BY <1>1, <1>2, <1>3 DEF Squared

-----------------------------------------------------------------------------
(* The sum over a group.                                                   *)

SumOfSquares(e, T) == MapThenSumSet(LAMBDA i : Squared(e[i]), T)

\* The step of the fold that this is ...
SumStep(T, e, h) ==
    [t \in SUBSET T |->
        IF t = {} THEN 0
        ELSE LET i == CHOOSE x \in t : TRUE IN Squared(e[i]) + h[t \ {i}]]

\* ... and an h that satisfies its equation for the subsets of up to n indices.
SolvesUpTo(T, e, n, h) ==
    \A t \in SUBSET T : Cardinality(t) <= n =>
        h[t] = IF t = {} THEN 0
               ELSE LET i == CHOOSE x \in t : TRUE IN Squared(e[i]) + h[t \ {i}]

LEMMA Fewer ==
    ASSUME NEW T, IsFiniteSet(T), NEW i \in T
    PROVE  /\ IsFiniteSet(T \ {i}) /\ Cardinality(T) \in Nat /\ Cardinality(T \ {i}) \in Nat
           /\ Cardinality(T \ {i}) = Cardinality(T) - 1
BY FS_RemoveElement, FS_CardinalityType

LEMMA SumSolved ==
    ASSUME NEW T, NEW e, IsFiniteSet(T), NEW n \in Nat
    PROVE  \E h : SolvesUpTo(T, e, n, h)
<1> DEFINE bad == {m \in Nat : ~ \E h : SolvesUpTo(T, e, m, h)}
<1>1. SUFFICES bad = {}
  OBVIOUS
<1>2. SUFFICES ASSUME bad # {} PROVE FALSE
  OBVIOUS
<1>3. PICK m \in bad : \A k \in bad : m <= k
  BY <1>2, LeastNat
<1>4. \A t \in SUBSET T : IsFiniteSet(t) /\ Cardinality(t) \in Nat
  BY FS_Subset, FS_CardinalityType
<1>5. m # 0
  <2>1. \A t \in SUBSET T : Cardinality(t) <= 0 => t = {}
    BY <1>4, FS_EmptySet
  <2>2. SolvesUpTo(T, e, 0, [t \in SUBSET T |-> 0])
    BY <2>1 DEF SolvesUpTo
  <2> QED  BY <2>2
<1>6. m - 1 \in Nat /\ m - 1 \notin bad
  BY <1>3, <1>5
<1>7. PICK h : SolvesUpTo(T, e, m - 1, h)
  BY <1>6
<1> DEFINE w == SumStep(T, e, h)
<1>8. \A t \in SUBSET T : Cardinality(t) <= m - 1 => w[t] = h[t]
  BY <1>7 DEF SolvesUpTo, SumStep
<1>9. ASSUME NEW t \in SUBSET T, Cardinality(t) <= m
      PROVE  w[t] = IF t = {} THEN 0
                    ELSE LET i == CHOOSE x \in t : TRUE IN Squared(e[i]) + w[t \ {i}]
  <2>1. CASE t = {}
    BY <2>1 DEF SumStep
  <2>2. CASE t # {}
    <3> DEFINE i == CHOOSE x \in t : TRUE
    <3>1. i \in t
      BY <2>2
    <3> HIDE DEF i
    <3>2. t \ {i} \in SUBSET T /\ Cardinality(t \ {i}) <= m - 1
      BY <1>4, <1>9, <3>1, Fewer
    <3>3. w[t \ {i}] = h[t \ {i}]
      BY <1>8, <3>2
    <3>4. w[t] = Squared(e[i]) + h[t \ {i}]
      BY <2>2 DEF SumStep, i
    <3> QED  BY <2>2, <3>3, <3>4 DEF i
  <2> QED  BY <2>1, <2>2
<1>10. SolvesUpTo(T, e, m, w)
  <2> HIDE DEF w
  <2> QED  BY <1>9 DEF SolvesUpTo
<1> QED  BY <1>10

\* The sum, and those over the subsets that it is made of.
SumsOf(T, e, fold) ==
    /\ SumOfSquares(e, T) = fold[T] /\ fold[{}] = 0
    /\ \A t \in SUBSET T : t # {} =>
          LET i == CHOOSE x \in t : TRUE IN fold[t] = Squared(e[i]) + fold[t \ {i}]

LEMMA SumEquation == ASSUME NEW T, NEW e, IsFiniteSet(T) PROVE \E fold : SumsOf(T, e, fold)
<1> DEFINE fold == CHOOSE h : h = SumStep(T, e, h)
<1>1. SumOfSquares(e, T) = fold[T]
  BY DEF SumOfSquares, MapThenSumSet, MapThenFoldSet, SumStep
<1>2. fold = SumStep(T, e, fold)
  <2>1. Cardinality(T) \in Nat
    BY FS_CardinalityType
  <2>2. PICK h : SolvesUpTo(T, e, Cardinality(T), h)
    BY <2>1, SumSolved
  <2>3. \A t \in SUBSET T : Cardinality(t) <= Cardinality(T)
    BY FS_Subset
  <2> DEFINE w == SumStep(T, e, h)
  <2>4. \A t \in SUBSET T : w[t] = h[t]
    BY <2>2, <2>3 DEF SolvesUpTo, SumStep
  <2>5. \A t \in SUBSET T : t # {} => (CHOOSE x \in t : TRUE) \in t
    OBVIOUS
  <2>6. w = SumStep(T, e, w)
    BY <2>4, <2>5 DEF SumStep
  <2> HIDE DEF w
  <2> QED  BY <2>6
<1> HIDE DEF fold
<1>3. fold[{}] = 0 /\ \A t \in SUBSET T : t # {} =>
          LET i == CHOOSE x \in t : TRUE IN fold[t] = Squared(e[i]) + fold[t \ {i}]
  BY <1>2 DEF SumStep
<1> QED  BY <1>1, <1>3 DEF SumsOf

\* What bounds each square by another bounds their sums.
LEMMA SumCompare ==
    ASSUME NEW T, NEW x, NEW e, IsFiniteSet(T), NEW K \in Nat, NEW L \in Nat, NEW M \in Nat,
           \A i \in T : /\ Squared(x[i]) \in Nat /\ Squared(e[i]) \in Nat
                        /\ K * Squared(x[i]) <= L * Squared(e[i]) + M
    PROVE  /\ SumOfSquares(x, T) \in Nat /\ SumOfSquares(e, T) \in Nat
           /\ K * SumOfSquares(x, T) <= L * SumOfSquares(e, T) + Cardinality(T) * M
<1>1. PICK f : SumsOf(T, x, f)
  BY SumEquation
<1>2. PICK g : SumsOf(T, e, g)
  BY SumEquation
<1> DEFINE Good(t) == /\ f[t] \in Nat /\ g[t] \in Nat
                      /\ K * f[t] <= L * g[t] + Cardinality(t) * M
           bad == {n \in Nat : \E t \in SUBSET T : Cardinality(t) = n /\ ~Good(t)}
<1>3. \A t \in SUBSET T : IsFiniteSet(t) /\ Cardinality(t) \in Nat
  BY FS_Subset, FS_CardinalityType
<1>4. SUFFICES bad = {}
  <2>1. T \in SUBSET T /\ Cardinality(T) \in Nat
    BY <1>3
  <2>2. Good(T)
    BY <1>4, <2>1
  <2> QED  BY <1>1, <1>2, <2>2 DEF SumsOf
<1>5. SUFFICES ASSUME bad # {} PROVE FALSE
  OBVIOUS
<1>6. PICK n \in bad : \A k \in bad : n <= k
  <2>1. bad \subseteq Nat
    OBVIOUS
  <2> HIDE DEF bad
  <2> QED  BY <1>5, <2>1, LeastNat
<1>7. PICK t \in SUBSET T : Cardinality(t) = n /\ ~Good(t)
  BY <1>6
<1>8. t # {}
  <2> SUFFICES ASSUME t = {} PROVE FALSE
    OBVIOUS
  <2>1. f[t] = 0 /\ g[t] = 0 /\ Cardinality(t) = 0
    BY <1>1, <1>2, FS_EmptySet DEF SumsOf
  <2>2. K * 0 = 0 /\ L * 0 = 0 /\ 0 * M = 0
    OBVIOUS
  <2>3. Good(t)
    BY <2>1, <2>2
  <2> QED  BY <1>7, <2>3
<1> DEFINE i == CHOOSE y \in t : TRUE
<1>9. i \in t /\ i \in T
  BY <1>8
<1>10. f[t] = Squared(x[i]) + f[t \ {i}] /\ g[t] = Squared(e[i]) + g[t \ {i}]
  BY <1>1, <1>2, <1>8 DEF SumsOf
<1> HIDE DEF i
<1>11. /\ t \ {i} \in SUBSET T /\ Cardinality(t \ {i}) \in Nat
       /\ Cardinality(t) = Cardinality(t \ {i}) + 1
  BY <1>3, <1>9, Fewer
<1>12. Good(t \ {i})
  <2>1. Cardinality(t \ {i}) \notin bad
    <3>1. Cardinality(t) = n /\ n \in Nat
      BY <1>7
    <3> HIDE DEF bad
    <3> QED  BY <1>6, <1>11, <3>1
  <2> HIDE DEF Good
  <2> QED  BY <1>11, <2>1
<1>13. /\ Squared(x[i]) \in Nat /\ Squared(e[i]) \in Nat
       /\ K * Squared(x[i]) <= L * Squared(e[i]) + M
  BY <1>9
<1>14. Good(t)
  <2> DEFINE c == Cardinality(t \ {i})
             a == f[t \ {i}]
             b == g[t \ {i}]
             p == Squared(x[i])
             q == Squared(e[i])
  <2>1. /\ a \in Nat /\ b \in Nat /\ c \in Nat /\ p \in Nat /\ q \in Nat
        /\ K * a <= L * b + c * M /\ K * p <= L * q + M
        /\ f[t] = p + a /\ g[t] = q + b /\ Cardinality(t) = c + 1
    BY <1>10, <1>11, <1>12, <1>13
  <2> HIDE DEF a, b, c, p, q
  <2>2. /\ K * (p + a) = K * p + K * a /\ L * (q + b) = L * q + L * b /\ (c + 1) * M = c * M + M
        /\ K * p \in Int /\ K * a \in Int /\ L * q \in Int /\ L * b \in Int /\ c * M \in Int
    BY ONLY <2>1, K \in Nat, L \in Nat, M \in Nat
  <2>3. /\ p + a \in Nat /\ q + b \in Nat
        /\ K * (p + a) <= L * (q + b) + (c + 1) * M
    BY ONLY <2>1, <2>2, M \in Nat
  <2> QED  BY <2>1, <2>3
<1> QED  BY <1>7, <1>14

\* A sum of squares is a natural number, and at most as many times a bound of them as there are.
LEMMA SumBound ==
    ASSUME NEW T, NEW e, IsFiniteSet(T), NEW B \in Nat,
           \A i \in T : Squared(e[i]) \in Nat
    PROVE  /\ SumOfSquares(e, T) \in Nat
           /\ (\A i \in T : 4 * Squared(e[i]) <= B) => 4 * SumOfSquares(e, T) <= Cardinality(T) * B
<1>1. SumOfSquares(e, T) \in Nat
  <2>1. \A i \in T : 0 * Squared(e[i]) <= 0 * Squared(e[i]) + 0
    OBVIOUS
  <2>2. 0 \in Nat
    OBVIOUS
  <2> QED  BY <2>1, <2>2, SumCompare
<1>2. ASSUME \A i \in T : 4 * Squared(e[i]) <= B
      PROVE  4 * SumOfSquares(e, T) <= Cardinality(T) * B
  <2>1. \A i \in T : 4 * Squared(e[i]) <= 0 * Squared(e[i]) + B
    BY <1>2
  <2>2. 4 \in Nat /\ 0 \in Nat
    OBVIOUS
  <2>3. 4 * SumOfSquares(e, T) <= 0 * SumOfSquares(e, T) + Cardinality(T) * B
    BY <2>1, <2>2, SumCompare
  <2>4. Cardinality(T) * B \in Int /\ 0 * SumOfSquares(e, T) = 0
    BY <1>1, FS_CardinalityType
  <2> QED  BY <2>3, <2>4
<1> QED  BY <1>1, <1>2

-----------------------------------------------------------------------------
(* The choice of the ratio.                                                *)

Tried(observer) == IF observer = "mse" THEN Ratios ELSE {Whole}

\* Every candidate's error is a number.
LEMMA ErrorType ==
    ASSUME NEW w \in Heads, NEW b \in Nat, NEW r \in 1..Whole, Span(w) > 0
    PROVE  SquaredError(w, b, Quantized(w, b, r)) \in Nat
<1> DEFINE e == Error(w, b, Quantized(w, b, r))
<1>1. DOMAIN w = 1..GroupSize /\ IsFiniteSet(1..GroupSize)
  BY HeadAssumption, FS_Interval DEF Heads
<1>2. Span(w) \in Nat /\ Least(w) \in Int /\ QMax(b) \in Nat /\ Whole \in Nat
      /\ Span(w) * r \in Nat \ {0}
  BY LeastAndSpan, QMaxType, HeadAssumption
<1>3. \A n \in Int, d \in Nat \ {0} : Clamp(RoundDiv(n, d), QMax(b)) \in Int
  BY <1>2, RoundIsNear DEF Clamp
<1>4. Zero(w, b, r) \in Int
  <2> DEFINE n == -(2 * Whole * Least(w) + Span(w) * (Whole - r)) * QMax(b)
             d == 2 * Span(w) * r
  <2>1. n \in Int /\ d \in Nat \ {0}
    BY <1>2
  <2> HIDE DEF n, d
  <2>2. Clamp(RoundDiv(n, d), QMax(b)) \in Int
    BY <1>3, <2>1
  <2> QED  BY <2>2 DEF Zero, n, d
<1>5. ASSUME NEW i \in 1..GroupSize PROVE e[i] \in Int
  <2> DEFINE n == w[i] * Whole * QMax(b) + Zero(w, b, r) * (Span(w) * r)
             q == Clamp(RoundDiv(n, Span(w) * r), QMax(b))
  <2>1. e[i] = (q - Zero(w, b, r)) * Span(w) * r - w[i] * Whole * QMax(b)
    BY <1>1 DEF Error, Quantized
  <2>2. w[i] \in Int
    BY LeastAndSpan
  <2>3. n \in Int
    BY <1>2, <1>4, <2>2
  <2> HIDE DEF n
  <2>4. q \in Int
    BY <1>2, <1>3, <2>3
  <2> HIDE DEF q, e
  <2> QED  BY <1>2, <1>4, <2>1, <2>2, <2>4
<1> HIDE DEF e
<1>6. \A i \in 1..GroupSize : Squared(e[i]) \in Nat
  <2>1. \A x \in Int : x * x \in Nat
    OBVIOUS
  <2> QED  BY <1>5, <2>1 DEF Squared
<1>7. SumOfSquares(e, 1..GroupSize) \in Nat
  <2>1. 0 \in Nat
    OBVIOUS
  <2> QED  BY <1>1, <1>6, <2>1, SumBound
<1> QED  BY <1>1, <1>7 DEF SquaredError, SumOfSquares, e

\* Of the ratios the whole range is one, so that no other is chosen unless it is better.
LEMMA ChosenIsBest ==
    ASSUME NEW w \in Heads, NEW b \in Nat, NEW observer, Span(w) > 0
    PROVE  /\ \E r \in Ratios : QuantizeChunk(w, b, observer) = Quantized(w, b, r)
           /\ SquaredError(w, b, QuantizeChunk(w, b, observer)) \in Nat
           /\ SquaredError(w, b, QuantizeChunk(w, b, observer))
                <= SquaredError(w, b, Quantized(w, b, Whole))
<1> DEFINE tried == {Quantized(w, b, r) : r \in Tried(observer)}
           best == {t \in tried : \A u \in tried : SquaredError(w, b, t) <= SquaredError(w, b, u)}
           chosen == CHOOSE t \in best : \A u \in best : t.ratio >= u.ratio
<1>1. Tried(observer) \subseteq 1..Whole /\ Tried(observer) \subseteq Ratios /\ Whole \in Tried(observer) /\ Whole \in Nat
  BY HeadAssumption DEF Tried
<1>2. QuantizeChunk(w, b, observer) = chosen
  BY DEF QuantizeChunk, Tried
<1>3. Quantized(w, b, Whole) \in tried
  BY <1>1
<1>4. \A t \in tried : SquaredError(w, b, t) \in Nat
  BY <1>1, ErrorType
<1>5. \A t \in tried : t.ratio \in 1..Whole
  BY <1>1 DEF Quantized
<1> HIDE DEF tried
<1>6. \E t \in best : TRUE
  <2> DEFINE errors == {SquaredError(w, b, t) : t \in tried}
  <2>1. errors \subseteq Nat /\ errors # {}
    BY <1>3, <1>4
  <2> HIDE DEF errors
  <2>2. PICK x \in errors : \A y \in errors : x <= y
    BY <2>1, LeastNat
  <2>3. PICK t \in tried : x = SquaredError(w, b, t)
    BY <2>2 DEF errors
  <2>4. \A u \in tried : SquaredError(w, b, t) <= SquaredError(w, b, u)
    BY <2>2, <2>3 DEF errors
  <2> QED  BY <2>4
<1>7. best \subseteq tried
  OBVIOUS
<1>8. \E t \in best : \A u \in best : t.ratio >= u.ratio
  <2> HIDE DEF best
  <2> DEFINE below == {Whole - t.ratio : t \in best}
  <2>1. below \subseteq Nat /\ below # {}
    BY <1>1, <1>5, <1>6, <1>7
  <2> HIDE DEF below
  <2>2. PICK x \in below : \A y \in below : x <= y
    BY <2>1, LeastNat
  <2>3. PICK t \in best : x = Whole - t.ratio
    BY <2>2 DEF below
  <2>4. ASSUME NEW u \in best PROVE t.ratio >= u.ratio
    <3>1. Whole - t.ratio <= Whole - u.ratio
      BY <2>2, <2>3 DEF below
    <3>2. t.ratio \in Int /\ u.ratio \in Int
      BY <1>5, <1>7
    <3> QED  BY <1>1, <3>1, <3>2
  <2> QED  BY <2>4
<1>9. chosen \in best
  <2> HIDE DEF best
  <2> QED  BY <1>8
<1>11. \E r \in Ratios : chosen = Quantized(w, b, r)
  <2> HIDE DEF chosen
  <2>1. chosen \in tried
    BY <1>7, <1>9
  <2> QED  BY <1>1, <2>1 DEF tried
<1>10. /\ SquaredError(w, b, chosen) \in Nat
       /\ SquaredError(w, b, chosen) <= SquaredError(w, b, Quantized(w, b, Whole))
  <2> HIDE DEF chosen
  <2> QED  BY <1>3, <1>4, <1>9
<1> QED  BY <1>2, <1>10, <1>11

\* What quantize_chunk makes of a group with both signs.
LEMMA ChunkIsNear ==
    ASSUME NEW w \in Heads, NEW b \in Nat, NEW observer,
           Span(w) > 0, Least(w) <= 0, Least(w) + Span(w) >= 0
    PROVE  4 * SquaredError(w, b, QuantizeChunk(w, b, observer))
             <= GroupSize * Squared(Span(w) * Whole)
<1> DEFINE e == Error(w, b, Quantized(w, b, Whole))
           B == Squared(Span(w) * Whole)
<1>1. DOMAIN w = 1..GroupSize /\ IsFiniteSet(1..GroupSize) /\ Cardinality(1..GroupSize) = GroupSize
  BY HeadAssumption, FS_Interval DEF Heads
<1>2. Span(w) * Whole \in Nat
  <2>1. Span(w) \in Nat /\ Whole \in Nat
    BY LeastAndSpan, HeadAssumption
  <2> QED  BY <2>1
<1>3. ASSUME NEW i \in 1..GroupSize
      PROVE  Squared(e[i]) \in Nat /\ B \in Nat /\ 4 * Squared(e[i]) <= B
  <2>1. e[i] \in Int /\ 2 * e[i] <= Span(w) * Whole /\ 0 - 2 * e[i] <= Span(w) * Whole
    BY <1>3, WholeRangeIsNear
  <2> HIDE DEF e
  <2> QED  BY <1>2, <2>1, SquareOfHalf
<1>4. B \in Nat
  BY <1>3, HeadAssumption
<1> HIDE DEF e, B
<1>5. SumOfSquares(e, 1..GroupSize) \in Nat
      /\ 4 * SumOfSquares(e, 1..GroupSize) <= GroupSize * B
  BY <1>1, <1>3, <1>4, SumBound
<1>6. SquaredError(w, b, Quantized(w, b, Whole)) \in Nat
      /\ 4 * SquaredError(w, b, Quantized(w, b, Whole)) <= GroupSize * B
  BY <1>1, <1>5 DEF SquaredError, SumOfSquares, e
<1>7. SquaredError(w, b, QuantizeChunk(w, b, observer)) \in Nat
      /\ SquaredError(w, b, QuantizeChunk(w, b, observer))
           <= SquaredError(w, b, Quantized(w, b, Whole))
  BY ChosenIsBest
<1>8. GroupSize * B \in Int
  BY <1>4, HeadAssumption
<1> QED  BY <1>6, <1>7, <1>8 DEF B

-----------------------------------------------------------------------------
(* What the rounding of the scale adds.                                    *)

\* A rounded scale is off by at most its 2^ScaleBits-th part.
LEMMA ScaleIsNear ==
    ASSUME NEW n \in Nat \ {0}, NEW d \in Nat \ {0}, NEW s \in ToScaleType(n, d)
    PROVE  LET off == s.num * d - n * s.den
           IN  /\ s.num \in Int /\ s.den \in Nat \ {0}
               /\ 2^ScaleBits * off <= n * s.den /\ 2^ScaleBits * (0 - off) <= n * s.den
<1> DEFINE p == 2^ScaleBits
<1>1. p \in Nat
  BY PowerOfTwo, HeadAssumption
<1>2. PICK x \in Exponents :
          /\ s = [num |-> RoundDiv(n * Power(x), d * Power(-x)) * Power(-x), den |-> Power(x)]
          /\ p * (d * Power(-x)) <= 2 * (n * Power(x))
  BY DEF ToScaleType
<1> HIDE DEF p
<1>3. Power(x) \in Nat \ {0} /\ Power(-x) \in Nat \ {0}
  <2>1. x \in Int /\ -x \in Int
    BY HeadAssumption
  <2>2. \A y \in Int : Power(y) \in Nat \ {0}
    BY PowerOfTwo DEF Power
  <2> QED  BY <2>1, <2>2
<1> DEFINE u == n * Power(x)
           v == d * Power(-x)
           r == RoundDiv(u, v)
           off == r * v - u
<1>4. u \in Nat \ {0} /\ v \in Nat \ {0}
  <2>1. \A y, z \in Nat \ {0} : y * z \in Nat \ {0}
    OBVIOUS
  <2> QED  BY <1>3, <2>1
<1>5. r \in Int /\ 2 * off <= v /\ 2 * (0 - off) <= v /\ off \in Int
  <2> HIDE DEF u, v
  <2>1. r \in Int /\ 2 * (r * v - u) <= v /\ 2 * (u - r * v) <= v
    <3>1. u \in Int /\ v \in Nat \ {0}
      BY <1>4
    <3> QED  BY ONLY <3>1, RoundIsNear
  <2> HIDE DEF r
  <2>2. r * v \in Int /\ u - r * v = 0 - off
    BY <1>4, <2>1
  <2> QED  BY <1>4, <2>1, <2>2
<1>6. /\ s.den = Power(x) /\ s.num = r * Power(-x) /\ s.num \in Int
      /\ s.num * d - n * s.den = off /\ n * s.den = u
  <2>1. s.num = r * Power(-x) /\ s.den = Power(x)
    BY <1>2
  <2> HIDE DEF r
  <2>2. (r * Power(-x)) * d = r * v
    BY <1>3, <1>5
  <2> QED  BY <1>3, <1>5, <2>1, <2>2
<1>7. p * v <= 2 * u
  BY <1>2
<1> HIDE DEF u, v, r, off
<1>8. ASSUME NEW o \in Int, 2 * o <= v PROVE p * o <= u
  <2>1. (2 * o) * p <= v * p
    BY <1>1, <1>4, <1>8, Times
  <2>2. (2 * o) * p = 2 * (p * o) /\ v * p = p * v /\ p * o \in Int /\ p * v \in Int
    BY <1>1, <1>4, <1>8
  <2> QED  BY <1>4, <1>7, <2>1, <2>2
<1>9. p * off <= u /\ p * (0 - off) <= u
  BY <1>5, <1>8
<1> QED  BY <1>3, <1>6, <1>9 DEF p

\* The square of a sum, weighted.
LEMMA Mixed ==
    ASSUME NEW a \in Nat, NEW b \in Nat, NEW u \in Int, NEW v \in Int
    PROVE  b * Squared(a * u + v) <= (a + b) * ((a * b) * Squared(u) + Squared(v))
<1> DEFINE y == v - b * u
<1>1. y \in Int /\ y * y \in Nat
  <2>1. y \in Int
    OBVIOUS
  <2>2. \A x \in Int : x * x \in Nat
    BY ONLY TRUE
  <2> HIDE DEF y
  <2> QED  BY <2>1, <2>2
<1>2. a * (y * y) >= 0
  <2> HIDE DEF y
  <2> QED  BY <1>1
<1>3. (a + b) * ((a * b) * (u * u) + v * v) - b * ((a * u + v) * (a * u + v)) = a * (y * y)
  OBVIOUS
<1>4. (a + b) * ((a * b) * (u * u) + v * v) \in Int /\ b * ((a * u + v) * (a * u + v)) \in Int
  OBVIOUS
<1> HIDE DEF y
<1> QED  BY <1>2, <1>3, <1>4 DEF Squared

\* Clamped numbers are in the range.
LEMMA QuantizedType ==
    ASSUME NEW w \in Heads, NEW b \in Nat, NEW r \in Ratios, Span(w) > 0
    PROVE  LET t == Quantized(w, b, r)
           IN  /\ t.ratio = r /\ t.zero \in 0..QMax(b)
               /\ \A i \in 1..GroupSize : t.q[i] \in 0..QMax(b)
<1>1. /\ Span(w) \in Nat \ {0} /\ Least(w) \in Int /\ QMax(b) \in Nat /\ Whole \in Nat
      /\ r \in Nat \ {0} /\ DOMAIN w = 1..GroupSize
  <2>1. Span(w) \in Nat \ {0} /\ Least(w) \in Int
    BY LeastAndSpan
  <2>2. QMax(b) \in Nat
    BY QMaxType
  <2>3. Whole \in Nat /\ r \in Nat \ {0} /\ DOMAIN w = 1..GroupSize
    BY HeadAssumption DEF Heads
  <2> QED  BY <2>1, <2>2, <2>3
<1>2. \A n \in Int, d \in Nat \ {0} : Clamp(RoundDiv(n, d), QMax(b)) \in 0..QMax(b)
  <2>1. \A x \in Int : Clamp(x, QMax(b)) \in 0..QMax(b)
    BY <1>1 DEF Clamp
  <2>2. \A n \in Int, d \in Nat \ {0} : RoundDiv(n, d) \in Int
    BY RoundIsNear
  <2> QED  BY <2>1, <2>2
<1>3. \A y, z \in Nat \ {0} : y * z \in Nat \ {0}
  OBVIOUS
<1>4. Zero(w, b, r) \in 0..QMax(b)
  <2> DEFINE n == -(2 * Whole * Least(w) + Span(w) * (Whole - r)) * QMax(b)
             d == 2 * Span(w) * r
  <2>1. n \in Int /\ d \in Nat \ {0}
    BY <1>1, <1>3
  <2> HIDE DEF n, d
  <2>2. Clamp(RoundDiv(n, d), QMax(b)) \in 0..QMax(b)
    BY <1>2, <2>1
  <2> QED  BY <2>2 DEF Zero, n, d
<1>5. ASSUME NEW i \in 1..GroupSize PROVE Quantized(w, b, r).q[i] \in 0..QMax(b)
  <2> DEFINE n == w[i] * Whole * QMax(b) + Zero(w, b, r) * (Span(w) * r)
  <2>1. n \in Int /\ Span(w) * r \in Nat \ {0}
    <3>1. w[i] \in Int /\ Zero(w, b, r) \in Int
      BY <1>4, LeastAndSpan
    <3> QED  BY <1>1, <1>3, <3>1
  <2>2. Quantized(w, b, r).q[i] = Clamp(RoundDiv(n, Span(w) * r), QMax(b))
    BY <1>1 DEF Quantized
  <2> HIDE DEF n
  <2> QED  BY <1>2, <2>1, <2>2
<1> QED  BY <1>4, <1>5 DEF Quantized

\* One weight: with k its distance from the zero point, what is loaded is off by what
\* quantize_chunk makes of it (e) and by k times the rounding of the scale (off).
LEMMA WeightIsNear ==
    ASSUME NEW a \in Nat, NEW top \in Nat, NEW k \in Int, k <= top, 0 - k <= top,
           NEW num \in Int, NEW den \in Nat, NEW n \in Nat, NEW d \in Nat, NEW y \in Int,
           NEW S \in Nat, n * den <= S,
           a * (num * d - n * den) <= n * den, a * (0 - (num * d - n * den)) <= n * den,
           NEW e, e = k * n - y * d, NEW x, x = k * num - y * den
    PROVE  /\ x \in Int /\ e \in Int
           /\ ((2 * top) * Squared(a * d)) * Squared(x)
                <= ((a + 2 * top) * ((a * (2 * top)) * Squared(den))) * Squared(e)
                     + (a + 2 * top) * Squared(top * S)
<1> DEFINE off == num * d - n * den
           v == k * (a * off)
           b == 2 * top
<1>1. x \in Int /\ e \in Int /\ off \in Int /\ n * den \in Nat /\ b \in Nat
  OBVIOUS
<1>2. a * off \in Int /\ a * off <= S /\ 0 - a * off <= S
  BY <1>1
<1>3. (a * d) * x = a * (den * e) + v
  OBVIOUS
<1>4. v \in Int /\ Squared(v) <= Squared(top * S)
  <2> DEFINE g == a * off
  <2>1. g \in Int /\ g <= S /\ 0 - g <= S
    BY <1>2
  <2> HIDE DEF off, g
  <2>2. v = k * g
    BY DEF g
  <2> DEFINE kk == IF k < 0 THEN 0 - k ELSE k
             gg == IF g < 0 THEN 0 - g ELSE g
  <2>3. kk \in 0..top /\ gg \in Nat /\ gg <= S /\ kk * kk = k * k /\ gg * gg = g * g
    BY <2>1
  <2> HIDE DEF kk, gg
  <2>4. kk * gg <= top * gg /\ gg * top <= S * top
    BY <2>3, Times
  <2>5. kk * gg \in Nat /\ top * S \in Nat /\ gg * top = top * gg /\ S * top = top * S
    BY <2>3
  <2>6. kk * gg <= top * S
    BY <2>3, <2>4, <2>5
  <2>7. \A p, q \in Nat : p <= q => p * p <= q * q
    BY ONLY Times
  <2>8. (kk * gg) * (kk * gg) <= (top * S) * (top * S)
    BY <2>5, <2>6, <2>7
  <2>9. (kk * gg) * (kk * gg) = (k * g) * (k * g)
    <3>1. (kk * gg) * (kk * gg) = (kk * kk) * (gg * gg) /\ (k * g) * (k * g) = (k * k) * (g * g)
      BY <2>1, <2>3
    <3> QED  BY <2>3, <3>1
  <2>10. v \in Int
    BY <2>1, <2>2
  <2> QED  BY <2>2, <2>8, <2>9, <2>10 DEF Squared
<1>5. b * Squared(a * (den * e) + v) <= (a + b) * ((a * b) * Squared(den * e) + Squared(v))
  <2>1. den * e \in Int
    BY <1>1
  <2> HIDE DEF v, b
  <2> QED  BY <1>1, <1>4, <2>1, Mixed
<1> HIDE DEF off, v, b
<1>6. Squared(v) \in Int /\ Squared(top * S) \in Int /\ Squared(den * e) \in Int /\ a + b \in Nat
      /\ (a * b) * Squared(den * e) \in Int
  BY <1>1, <1>4 DEF Squared
<1>7. (a + b) * ((a * b) * Squared(den * e) + Squared(v))
        <= (a + b) * ((a * b) * Squared(den * e)) + (a + b) * Squared(top * S)
  <2> DEFINE E == (a * b) * Squared(den * e)
             V == Squared(v)
             B == Squared(top * S)
  <2>1. E \in Int /\ V \in Int /\ B \in Int /\ V <= B
    BY <1>4, <1>6
  <2> HIDE DEF E, V, B
  <2>2. V * (a + b) <= B * (a + b)
    BY <1>6, <2>1, Times
  <2>3. (a + b) * (E + V) = (a + b) * E + V * (a + b) /\ B * (a + b) = (a + b) * B
        /\ (a + b) * E \in Int /\ V * (a + b) \in Int /\ (a + b) * B \in Int
    BY <1>6, <2>1
  <2>4. (a + b) * (E + V) <= (a + b) * E + (a + b) * B
    BY <2>2, <2>3
  <2> QED  BY <2>4 DEF E, V, B
<1>8. b * Squared((a * d) * x) = (b * Squared(a * d)) * Squared(x)
  BY <1>1 DEF Squared
<1>9. (a + b) * ((a * b) * Squared(den * e)) = ((a + b) * ((a * b) * Squared(den))) * Squared(e)
  BY <1>1 DEF Squared
<1>10. /\ b * Squared(a * (den * e) + v) \in Int
       /\ (a + b) * ((a * b) * Squared(den * e) + Squared(v)) \in Int
       /\ (a + b) * ((a * b) * Squared(den * e)) + (a + b) * Squared(top * S) \in Int
  <2>1. \A p, q \in Int : p * q \in Int /\ p + q \in Int
    BY ONLY TRUE
  <2>2. Squared(a * (den * e) + v) \in Int
    BY <1>1, <1>4, <2>1 DEF Squared
  <2>3. b \in Int /\ a + b \in Int /\ (a * b) * Squared(den * e) \in Int
    BY <1>1, <1>6
  <2> QED  BY ONLY <1>6, <2>1, <2>2, <2>3
<1> QED
  <2>1. b * Squared(a * (den * e) + v)
          <= (a + b) * ((a * b) * Squared(den * e)) + (a + b) * Squared(top * S)
    BY ONLY <1>5, <1>7, <1>10
  <2> QED  BY <1>1, <1>3, <1>8, <1>9, <2>1 DEF b

\* From squares K * X <= L * E + G * M and 4 * E <= G * C of a group to half a step and the
\* rounding's share: with b = 2 * top, K = b * (a * d)^2 and so on, b and Whole^2 cancel.
LEMMA Shares ==
    ASSUME NEW a \in Nat \ {0}, NEW top \in Nat \ {0}, NEW W \in Nat \ {0}, NEW sp \in Nat,
           NEW den \in Nat, NEW G \in Nat, NEW X \in Nat, NEW E \in Nat,
           NEW b, b = 2 * top, NEW S, S = (sp * W) * den,
           (b * Squared(a * (W * top))) * X
               <= ((a + b) * ((a * b) * Squared(den))) * E + G * ((a + b) * Squared(top * S)),
           4 * E <= G * Squared(sp * W)
    PROVE  Squared(2 * top * a) * X <= G * Squared(sp * den * (a + 2 * top))
<1>1. \A p, q \in Int : p * q \in Int /\ p + q \in Int
  BY ONLY TRUE
<1>2. b \in Nat \ {0} /\ S \in Nat /\ a + b \in Nat
  OBVIOUS
<1> DEFINE K == b * Squared(a * (W * top))
           L == (a + b) * ((a * b) * Squared(den))
           M == (a + b) * Squared(top * S)
           R == G * Squared(sp * W)
           left == Squared(2 * top * a) * X
           right == G * Squared(sp * den * (a + 2 * top))
           c == b * Squared(W)
<1>3. /\ K \in Int /\ L \in Nat /\ M \in Int /\ R \in Int /\ left \in Int /\ right \in Int
      /\ K * X \in Int /\ L * E \in Int /\ G * M \in Int /\ c \in Nat \ {0}
  <2>1. \A p, q \in Nat : p * q \in Nat
    BY ONLY TRUE
  <2>2. \A p, q \in Nat \ {0} : p * q \in Nat \ {0}
    BY ONLY TRUE
  <2>3. L \in Nat
    BY <1>2, <2>1 DEF Squared
  <2>4. K \in Int /\ M \in Int /\ R \in Int /\ left \in Int /\ right \in Int
    BY <1>1, <1>2 DEF Squared
  <2>5. c \in Nat \ {0}
    BY <1>2, <2>2 DEF Squared
  <2> HIDE DEF K, L, M, R, c, left, right
  <2> QED  BY <1>1, <2>3, <2>4, <2>5
<1>4. 4 * (K * X) <= L * R + 4 * (G * M)
  <2>1. K * X <= L * E + G * M /\ 4 * E <= R
    OBVIOUS
  <2> HIDE DEF K, L, M, R
  <2>2. (4 * E) * L <= R * L
    BY <1>3, <2>1, Times
  <2>3. (4 * E) * L = 4 * (L * E) /\ R * L = L * R /\ L * R \in Int
    BY <1>3
  <2> QED  BY <1>3, <2>1, <2>2, <2>3
<1>5. 4 * (K * X) = c * left
  <2>1. K = b * ((a * (W * top)) * (a * (W * top))) /\ left = ((2 * top * a) * (2 * top * a)) * X
        /\ c = b * (W * W)
    BY DEF Squared
  <2> HIDE DEF K, left, c
  <2> QED  BY <1>2, <2>1
<1>6. L * R + 4 * (G * M) = c * right
  <2> DEFINE h == sp * den
             j == W * W
  <2>1. h \in Int /\ j \in Int
    BY <1>1
  <2>2. L * R = ((a + b) * (a * b)) * (G * ((h * h) * j))
    <3>1. L = ((a + b) * (a * b)) * (den * den) /\ R = G * ((sp * W) * (sp * W))
      BY <1>2 DEF Squared
    <3>2. (den * den) * (G * ((sp * W) * (sp * W))) = G * ((h * h) * j)
      OBVIOUS
    <3>3. \A p, q, r \in Int : (p * q) * r = p * (q * r)
      BY ONLY TRUE
    <3>4. (a + b) * (a * b) \in Int /\ den * den \in Int /\ G * ((sp * W) * (sp * W)) \in Int
      BY <1>1, <1>2
    <3> HIDE DEF L, R, h, j
    <3> QED  BY <3>1, <3>2, <3>3, <3>4
  <2>3. 4 * (G * M) = ((a + b) * (b * b)) * (G * ((h * h) * j))
    <3>1. M = (a + b) * ((top * S) * (top * S))
      BY DEF Squared
    <3>2. S = h * W
      BY <1>2
    <3>3. 4 * ((top * (h * W)) * (top * (h * W))) = (b * b) * ((h * h) * j)
      <4> HIDE DEF h
      <4> QED  BY <2>1
    <3> DEFINE z == (h * h) * j
               o == (top * (h * W)) * (top * (h * W))
    <3>4. M = (a + b) * o /\ 4 * o = (b * b) * z /\ o \in Int /\ z \in Int
      BY <1>1, <1>2, <2>1, <3>1, <3>2, <3>3
    <3> HIDE DEF M, z, o
    <3>5. 4 * (G * M) = (G * (a + b)) * (4 * o)
      BY <1>2, <3>4
    <3>6. (G * (a + b)) * ((b * b) * z) = ((a + b) * (b * b)) * (G * z)
      BY <1>2, <3>4
    <3> QED  BY <3>4, <3>5, <3>6 DEF z
  <2>4. c * right = (b * j) * (G * ((h * (a + b)) * (h * (a + b))))
    BY <1>2 DEF Squared
  <2> HIDE DEF h, j, L, R, M, c, right
  <2>5. ((a + b) * (a * b)) * (G * ((h * h) * j)) + ((a + b) * (b * b)) * (G * ((h * h) * j))
          = (b * j) * (G * ((h * (a + b)) * (h * (a + b))))
    BY <1>2, <2>1
  <2> QED  BY <2>2, <2>3, <2>4, <2>5
<1> HIDE DEF K, L, M, R, left, right, c
<1>7. c * left <= c * right
  BY <1>4, <1>5, <1>6
<1>8. left <= right
  <2>1. \A q \in Nat \ {0} : \A p, r \in Int : q * p <= q * r => p <= r
    BY ONLY TRUE
  <2> QED  BY <1>3, <1>7, <2>1
<1> QED  BY <1>8 DEF left, right

\* What is loaded of a group with both signs.
LEMMA LoadedIsNear ==
    ASSUME NEW w \in Heads, NEW b \in Nat \ {0}, NEW observer,
           Span(w) > 0, Least(w) <= 0, Least(w) + Span(w) >= 0,
           NEW t, t.bits = b, t.chunk = QuantizeChunk(w, b, observer),
           t.scale \in ToScaleType(Span(w) * t.chunk.ratio, Whole * QMax(b))
    PROVE  Squared(2 * QMax(b) * 2^ScaleBits) * SumOfSquares(LoadedError(w, t), DOMAIN w)
             <= GroupSize * Squared(Span(w) * t.scale.den * (2^ScaleBits + 2 * QMax(b)))
<1> DEFINE a == 2^ScaleBits
           top == QMax(b)
           sp == Span(w)
           r == t.chunk.ratio
           n == sp * r
           d == Whole * top
           num == t.scale.num
           den == t.scale.den
           S == (sp * Whole) * den
           x == LoadedError(w, t)
           e == Error(w, b, t.chunk)
<1>1. /\ a \in Nat \ {0} /\ top \in Nat \ {0} /\ sp \in Nat \ {0} /\ Whole \in Nat \ {0}
      /\ GroupSize \in Nat \ {0}
      /\ DOMAIN w = 1..GroupSize /\ IsFiniteSet(1..GroupSize)
      /\ Cardinality(1..GroupSize) = GroupSize
  <2>1. a \in Nat \ {0} /\ top \in Nat \ {0}
    BY PowerOfTwo, QMaxType, HeadAssumption
  <2>2. sp \in Nat \ {0}
    BY LeastAndSpan
  <2>3. /\ Whole \in Nat \ {0} /\ GroupSize \in Nat \ {0} /\ DOMAIN w = 1..GroupSize
    BY HeadAssumption DEF Heads
  <2>4. IsFiniteSet(1..GroupSize) /\ Cardinality(1..GroupSize) = GroupSize
    BY <2>3, FS_Interval
  <2> HIDE DEF a, top, sp
  <2> QED  BY <2>1, <2>2, <2>3, <2>4
<1>2. /\ r \in Ratios /\ r \in 1..Whole /\ t.chunk.zero \in 0..top
      /\ \A i \in 1..GroupSize : t.chunk.q[i] \in 0..top
  <2>1. PICK r0 \in Ratios : t.chunk = Quantized(w, b, r0)
    BY ChosenIsBest
  <2> QED  BY <2>1, QuantizedType, HeadAssumption
<1>3. n \in Nat \ {0} /\ d \in Nat \ {0} /\ n <= sp * Whole
  <2>1. \A p, q \in Nat \ {0} : p * q \in Nat \ {0}
    BY ONLY TRUE
  <2> HIDE DEF sp, top, r
  <2>2. r * sp <= Whole * sp /\ r * sp = sp * r /\ Whole * sp = sp * Whole
    BY ONLY <1>1, <1>2, Times
  <2> QED  BY <1>1, <1>2, <2>1, <2>2
<1>4. /\ num \in Int /\ den \in Nat \ {0}
      /\ a * (num * d - n * den) <= n * den /\ a * (0 - (num * d - n * den)) <= n * den
  BY <1>3, ScaleIsNear
<1>5. S \in Nat /\ n * den <= S
  <2> HIDE DEF n, sp, den
  <2>1. sp * Whole \in Nat
    BY <1>1
  <2>2. n * den <= (sp * Whole) * den
    BY ONLY <1>3, <1>4, <2>1, Times
  <2> QED  BY <1>4, <2>1, <2>2
<1>6. ASSUME NEW i \in 1..GroupSize
      PROVE  /\ x[i] \in Int /\ e[i] \in Int
             /\ ((2 * top) * Squared(a * d)) * Squared(x[i])
                  <= ((a + 2 * top) * ((a * (2 * top)) * Squared(den))) * Squared(e[i])
                       + (a + 2 * top) * Squared(top * S)
  <2> DEFINE k == t.chunk.q[i] - t.chunk.zero
             y == w[i]
  <2>1. /\ k \in Int /\ k <= top /\ 0 - k <= top /\ y \in Int
    <3>1. t.chunk.q[i] \in 0..top /\ t.chunk.zero \in 0..top /\ top \in Nat
      BY <1>1, <1>2
    <3> HIDE DEF top
    <3> QED  BY <3>1, LeastAndSpan
  <2>2. x[i] = k * num - y * den
    BY <1>1 DEF LoadedError
  <2>3. e[i] = k * n - y * d
    <3>1. e[i] = k * sp * r - y * Whole * top
      BY <1>1 DEF Error
    <3> HIDE DEF k, y, sp, r, top, e
    <3> QED  BY <1>1, <1>2, <2>1, <3>1
  <2> HIDE DEF a, top, k, y, n, d, num, den, S, x, e
  <2> QED  BY <1>1, <1>3, <1>4, <1>5, <2>1, <2>2, <2>3, WeightIsNear
<1> DEFINE K == (2 * top) * Squared(a * d)
           L == (a + 2 * top) * ((a * (2 * top)) * Squared(den))
           M == (a + 2 * top) * Squared(top * S)
<1>7. K \in Nat /\ L \in Nat /\ M \in Nat
  <2>1. \A p, q \in Nat : p * q \in Nat /\ p + q \in Nat
    BY ONLY TRUE
  <2> HIDE DEF a, top, d, den, S
  <2> QED  BY <1>1, <1>3, <1>4, <1>5, <2>1 DEF Squared
<1>8. /\ SumOfSquares(x, 1..GroupSize) \in Nat /\ SumOfSquares(e, 1..GroupSize) \in Nat
      /\ K * SumOfSquares(x, 1..GroupSize) <= L * SumOfSquares(e, 1..GroupSize) + GroupSize * M
  <2>1. \A i \in 1..GroupSize : /\ Squared(x[i]) \in Nat /\ Squared(e[i]) \in Nat
                                /\ K * Squared(x[i]) <= L * Squared(e[i]) + M
    <3>1. \A p \in Int : p * p \in Nat
      BY ONLY TRUE
    <3> HIDE DEF x, e
    <3> QED  BY <1>6, <3>1 DEF Squared
  <2> HIDE DEF x, e, K, L, M
  <2> QED  BY <1>1, <1>7, <2>1, SumCompare
<1>9. 4 * SumOfSquares(e, 1..GroupSize) <= GroupSize * Squared(sp * Whole)
  <2>1. 4 * SquaredError(w, b, t.chunk) <= GroupSize * Squared(sp * Whole)
    BY ChunkIsNear
  <2>2. SquaredError(w, b, t.chunk) = SumOfSquares(e, 1..GroupSize)
    BY <1>1 DEF SquaredError, SumOfSquares
  <2> QED  BY <2>1, <2>2
<1>10. GroupSize * M = GroupSize * ((a + 2 * top) * Squared(top * S))
  OBVIOUS
<1> HIDE DEF a, top, sp, den, x, e, S
<1>11. Squared(2 * top * a) * SumOfSquares(x, 1..GroupSize)
         <= GroupSize * Squared(sp * den * (a + 2 * top))
  <2> DEFINE X == SumOfSquares(x, 1..GroupSize)
             E == SumOfSquares(e, 1..GroupSize)
  <2>1. /\ X \in Nat /\ E \in Nat
        /\ ((2 * top) * Squared(a * (Whole * top))) * X
             <= ((a + 2 * top) * ((a * (2 * top)) * Squared(den))) * E
                  + GroupSize * ((a + 2 * top) * Squared(top * S))
        /\ 4 * E <= GroupSize * Squared(sp * Whole)
    BY <1>8, <1>9
  <2>2. S = (sp * Whole) * den
    BY DEF S
  <2> HIDE DEF X, E
  <2>3. Squared(2 * top * a) * X <= GroupSize * Squared(sp * den * (a + 2 * top))
    BY <1>1, <1>4, <2>1, <2>2, Shares
  <2> QED  BY <2>3 DEF X
<1> QED  BY <1>1, <1>11 DEF a, top, sp, den, x

\* A loadable head was made of this one.
LEMMA StoredIsNear == QuantInv /\ HeadStored => HeadIsRecovered
<1> SUFFICES ASSUME QuantInv, HeadStored, Loadable, Span(head) > 0, Least(head) <= 0,
                    Least(head) + Span(head) >= 0
             PROVE  LET t == dst.tensors[1]
                        top == QMax(t.bits)
                    IN  Squared(2 * top * 2^ScaleBits)
                            * SumOfSquares(LoadedError(head, t), DOMAIN head)
                          <= GroupSize * Squared(Span(head) * t.scale.den * (2^ScaleBits + 2 * top))
  BY DEF HeadIsRecovered, SumOfSquares
<1> DEFINE t == dst.tensors[1]
<1>1. dst.piece["shard"] = "whole"
  BY WholeInOrder DEF LoadableMeansWhole, Pieces
<1>2. t = Tensors(head, opts)
  BY <1>1 DEF HeadStored, Computed
<1>3. /\ t.bits = opts.bits /\ t.chunk = QuantizeChunk(head, opts.bits, opts.observer)
      /\ t.scale = Scale(head, opts.bits, t.chunk)
  BY <1>2 DEF Tensors
<1>4. /\ opts.bits \in Nat \ {0} /\ opts.bits \in {TrunkBits, TrunkBits + 1} /\ head \in Heads
  BY HeadAssumption DEF HeadStored, QuantInv
<1> HIDE DEF t
<1>5. t.scale \in ToScaleType(Span(head) * t.chunk.ratio, Whole * QMax(opts.bits))
  <2>1. t.chunk.ratio \in Ratios
    <3>1. PICK r \in Ratios : t.chunk = Quantized(head, opts.bits, r)
      BY <1>3, <1>4, ChosenIsBest
    <3> QED  BY <3>1 DEF Quantized
  <2>2. ToScaleType(Span(head) * t.chunk.ratio, Whole * QMax(opts.bits)) # {}
    BY <1>4, <2>1, ExponentsAssumption
  <2>3. Span(head) # 0
    BY <1>4, LeastAndSpan
  <2> QED  BY <1>3, <2>2, <2>3 DEF Scale
<1>6. Squared(2 * QMax(opts.bits) * 2^ScaleBits) * SumOfSquares(LoadedError(head, t), DOMAIN head)
        <= GroupSize * Squared(Span(head) * t.scale.den * (2^ScaleBits + 2 * QMax(opts.bits)))
  BY <1>3, <1>4, <1>5, LoadedIsNear
<1> QED  BY <1>3, <1>6 DEF t

-----------------------------------------------------------------------------
(* Both together.                                                          *)

IInv == QuantInv /\ HeadStored /\ EvalInv

LEMMA Inductive == Spec => []IInv
<1>1. Init => IInv
  BY QuantInitial, StoredInitial, EvalInitial DEF Init, IInv
<1>2. IInv /\ [Next]_vars => IInv'
  BY QuantPreserved, QuantStutters, StoredPreserved, StoredStutters, EvalPreserved,
     EvalStutters, Launches
     DEF IInv, Next, LaunchOf, vars
<1> QED BY <1>1, <1>2, PTL DEF Spec

\* Every variable has its type: what the quantizer holds and has written was made of this head,
\* what is stored for a configuration is half a file or an answer of its server, and the
\* evaluation has a label, an item and an answer exactly while it works with them.
THEOREM TypeCorrect == Spec => []TypeOK
<1>1. ASSUME IInv PROVE TypeOK
  <2>1. /\ head \in Heads /\ source \in Sources
        /\ qpc \in {"idle", "start", "quantize", "mkdir"} \cup Pieces
        /\ DOMAIN dst = {"dir", "piece", "config", "tensors"} /\ dst.dir \in BOOLEAN
        /\ dst.piece \in [Pieces -> {"absent", "torn", "whole"}]
    BY <1>1 DEF IInv, QuantInv, QuantPCs, DstType, States
  <2>2. /\ opts \in [bits : {TrunkBits, TrunkBits + 1}, observer : {"minmax", "mse"}]
        /\ stored \in {<<>>, Tensors(head, opts)} /\ dst.tensors \in {<<>>, <<Tensors(head, opts)>>}
        /\ dst.config # <<>> => dst.config = <<NewConfig(source, opts.bits)>>
    BY <1>1 DEF IInv, HeadStored, Computed
  <2>3. /\ server \in {None} \cup [config : Configs, kind : {"dense", "probes"}]
        /\ label \in {None} \cup Labels
        /\ epc \in {"idle", "next", "asked", "open", "saving"} /\ (epc = "idle") = (label = None)
        /\ item \in Items \cup {None} /\ (item # None) = (epc \in {"asked", "open", "saving"})
        /\ IF epc \in {"open", "saving"} THEN answer \in AnswersOf(label.config)
                                         ELSE answer = None
    BY <1>1 DEF IInv, EvalInv, EvalPCs, Knows, Servers
  <2>4. /\ todo \subseteq Items /\ DOMAIN raw = Configs /\ done \subseteq Labels
        /\ deaths \in 0..MaxDeaths
        /\ \A c \in Configs : DOMAIN raw[c] = Items
                              /\ \A i \in Items : raw[c][i] \in {Absent, Torn} \cup AnswersOf(c)
    BY <1>1 DEF IInv, EvalInv, RawType, DoneStays
  <2>5. result # None => /\ DOMAIN result \subseteq Items
                         /\ \A i \in DOMAIN result :
                               DOMAIN result[i] = {"base", "other", "m"}
                               /\ {result[i].base, result[i].other} \subseteq Configs
    BY <1>1, ConfigsAssumption DEF IInv, EvalInv, ResultType, ComparedAreTheConfigs
  <2> QED  BY <2>1, <2>2, <2>3, <2>4, <2>5 DEF TypeOK
<1> QED BY <1>1, Inductive, PTL

\* Whenever the quantizer is killed or refuses, and however often it is run again, a directory
\* whose config.json can be read is complete (quantize_lm_head.py, the order of main's writes).
THEOREM LoadableIsWhole == Spec => []LoadableMeansWhole
<1>1. IInv => LoadableMeansWhole
  BY WholeInOrder DEF IInv
<1> QED BY <1>1, Inductive, PTL

\* Whatever --bits says, the head of a loadable directory matches exactly one config group, with
\* the bits it was packed with, and is not ignored.
THEOREM HeadInOneGroup == Spec => []HeadMatchesOneGroup
<1>1. IInv => HeadMatchesOneGroup
  BY OneGroup DEF IInv
<1> QED BY <1>1, Inductive, PTL

\* Whatever the weights of a group with both signs, the bits, the data type of the scales and the
\* --observer, the head that is loaded is off by at most half a step of the group's range and the
\* share of the scale's rounding, root mean square.
THEOREM HeadStaysNear == Spec => []HeadIsRecovered
<1>1. IInv => HeadIsRecovered
  BY StoredIsNear DEF IInv
<1> QED BY <1>1, Inductive, PTL

\* compare.py only ever compares answers of the two configurations it was asked to compare,
\* through any deaths, restarts and resumptions.
THEOREM ComparedAnswers == Spec => []ComparedAreTheConfigs
<1>1. IInv => ComparedAreTheConfigs
  BY DEF IInv, EvalInv
<1> QED BY <1>1, Inductive, PTL

\* An evaluation that has printed "done" leaves a file, whole or cut short by an earlier death,
\* for every item it was asked for: none was passed over because a request failed.
THEOREM DoneStored == Spec => []DoneMeansStored
<1>1. IInv => DoneMeansStored
  BY DEF IInv, EvalInv, DoneStays, DoneMeansStored, Absent
<1> QED BY <1>1, Inductive, PTL
=============================================================================

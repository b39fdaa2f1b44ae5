------------------------------ MODULE Accuracy ------------------------------
(***************************************************************************)
(* The accuracy comparison as a whole: the quantizer writes the checkpoint *)
(* of the configurations with a quantized head (H8f, H8), launch.sh can    *)
(* only serve them once it is there, and the answers of both are compared. *)
(***************************************************************************)
EXTENDS QuantizeHead, LogitEval

vars == <<quantVars, evalVars>>

\* A server needs a config.json it can read: that of --dst for Other, that of --src for Base.
LaunchOf(c, kind) == (c = Other => Loadable) /\ Launch(c, kind)

Init == QuantInit /\ EvalInit

Next ==
    \/ QuantStep /\ UNCHANGED evalVars
    \/ EvalStep /\ UNCHANGED quantVars
    \/ \E c \in Configs, kind \in {"dense", "probes"} : LaunchOf(c, kind) /\ UNCHANGED quantVars

Spec == Init /\ [][Next]_vars

AnswersOf(c) == {Stored(c, Table(i, Answers[c][i])) : i \in Items}

\* Every variable has its type; an evaluation has a label, an item and an answer exactly while it
\* works with them.
TypeOK ==
    /\ head \in Heads
    /\ source \in Sources
    /\ opts \in [bits : {TrunkBits, TrunkBits + 1}, observer : {"minmax", "mse"}]
    /\ qpc \in {"idle", "start", "quantize", "mkdir"} \cup Pieces
    /\ stored \in {<<>>, Tensors(head, opts)}
    /\ DOMAIN dst = {"dir", "piece", "config", "tensors"} /\ dst.dir \in BOOLEAN
    /\ dst.piece \in [Pieces -> {"absent", "torn", "whole"}]
    /\ dst.tensors \in {<<>>, <<Tensors(head, opts)>>}
    /\ dst.config # <<>> => dst.config = <<NewConfig(source, opts.bits)>>
    /\ server \in {None} \cup [config : Configs, kind : {"dense", "probes"}]
    /\ label \in {None} \cup Labels
    /\ epc \in {"idle", "next", "asked", "open", "saving"} /\ (epc = "idle") = (label = None)
    /\ todo \subseteq Items
    /\ item \in Items \cup {None} /\ (item # None) = (epc \in {"asked", "open", "saving"})
    /\ IF epc \in {"open", "saving"} THEN answer \in AnswersOf(label.config) ELSE answer = None
    /\ DOMAIN raw = Configs /\ done \subseteq Labels /\ deaths \in 0..MaxDeaths
    /\ \A c \in Configs :
          DOMAIN raw[c] = Items /\ \A i \in Items : raw[c][i] \in {Absent, Torn} \cup AnswersOf(c)
    /\ result # None => /\ DOMAIN result \subseteq Items
                        /\ \A i \in DOMAIN result :
                              DOMAIN result[i] = {"base", "other", "m"}
                              /\ {result[i].base, result[i].other} \subseteq Configs
=============================================================================

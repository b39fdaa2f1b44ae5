------------------------------ MODULE MCAccuracy ------------------------------
(* A dense item of two positions, the first of which no server answers, and a      *)
(* probe; two weights of the head from -1 to 2, so that groups of one sign, equal  *)
(* weights and halves occur; clip ratios 1, 0.8 and 0.6; scales of two bits.       *)
EXTENDS Accuracy

MCWeights == -1..2
MCExponents == -5..5

MCAnswers ==
    [B0 |-> [d1 |-> <<<<>>, <<1, 2>>>>, p1 |-> <<<<3>>>>],
     H8 |-> [d1 |-> <<<<>>, <<2, 1>>>>, p1 |-> <<<<3>>>>]]
===============================================================================

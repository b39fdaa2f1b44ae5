------------------------------ MODULE LogitEval ------------------------------
(***************************************************************************)
(* experiments/accuracy-regression: launch.sh starts a server of a         *)
(* configuration, run_logit_eval.py asks it for the likeliest tokens at    *)
(* the positions of a corpus and stores one file per item, passing over    *)
(* those that exist, and compare.py compares the files of two              *)
(* configurations.  Server and evaluation may die at any moment.           *)
(*                                                                         *)
(* An answer is a table: for each position its ids (-1 where there is      *)
(* none), likeliest first, and whether the position is valid.  The         *)
(* probabilities compare.py adds up are left out, the tokens it adds them  *)
(* up over are not.                                                        *)
(***************************************************************************)
EXTENDS Integers, FiniteSets, Sequences, FiniteSetsExt

CONSTANTS
    Configs, Base, Other,   \* --config of the evaluations, --base and --other
    Dense, Probes,          \* the corpus: items of two kinds
    Answers,                \* [Configs -> [Items -> sequence of id sequences]]: what its server answers
    MaxDeaths,              \* bound on the deaths of servers and evaluations
    None

Items == Dense \cup Probes
Labels == [config : Configs, kinds : SUBSET {"dense", "probes"}]

ASSUME ConfigsAssumption == Base \in Configs /\ Other \in Configs
ASSUME NoneAssumption == None \notin Items \cup Labels
ASSUME BoundAssumption == MaxDeaths \in Nat

VARIABLES
    server,    \* the configuration that answers on the port, and how it was launched
    label,     \* --config of the evaluation, and the kinds it does not skip
    epc,       \* where the evaluation is: "idle", "next", "asked", "open", "saving"
    todo,      \* items it has still to look at
    item, answer,
    raw,       \* [Configs -> [Items -> "absent", "torn" or what is stored]]
    done,      \* the labels of the evaluations that have printed "done"
    result,    \* of compare.py
    deaths

evalVars == <<server, label, epc, todo, item, answer, raw, done, result, deaths>>

Kind(i) == IF i \in Dense THEN "dense" ELSE "probes"
Absent == [state |-> "absent"]
Torn == [state |-> "torn"]
Stored(c, table) == [state |-> "whole", by |-> c, table |-> table]

-----------------------------------------------------------------------------
(* launch.sh: LOGIT_EVAL=1 serves the dense items only, for want of a       *)
(* tokenizer, LOGIT_EVAL=2 is for the probes.                              *)

Launch(c, kind) ==
    /\ epc = "idle" /\ server' = [config |-> c, kind |-> kind] /\ server' # server
    /\ UNCHANGED <<label, epc, todo, item, answer, raw, done, result, deaths>>

\* At any time; a new one takes minutes, longer than an evaluation waits between two items.
ServerDies ==
    /\ server # None /\ deaths < MaxDeaths
    /\ server' = None /\ deaths' = deaths + 1
    /\ UNCHANGED <<label, epc, todo, item, answer, raw, done, result>>

-----------------------------------------------------------------------------
(* run_logit_eval.py.                                                      *)

\* Mutant: all configurations store in one directory.
MutantOutDir(c) == Base

\* raw/<config>, where the files of an evaluation go
OutDir(c) == c

\* --config is the configuration that was launched: nothing checks it.  --skip-probes and
\* --skip-dense leave out a kind; files stored elsewhere (--out) are not compare.py's.
StartEval ==
    /\ epc = "idle" /\ server # None
    /\ \E kinds \in {{"dense"}, {"probes"}, {"dense", "probes"}} :
          label' = [config |-> server.config, kinds |-> kinds]
    /\ todo' = {i \in Items : Kind(i) \in label'.kinds}
    /\ epc' = "next"
    /\ UNCHANGED <<server, item, answer, raw, done, result, deaths>>

Exists(i) == raw[OutDir(label.config)][i] # Absent

\* if dst.exists(): continue
Skip(i) ==
    /\ epc = "next" /\ i \in todo /\ Exists(i)
    /\ todo' = todo \ {i}
    /\ UNCHANGED <<server, label, epc, item, answer, raw, done, result, deaths>>

\* run_dense comes before run_probes.
Ask(i) ==
    /\ epc = "next" /\ i \in todo /\ ~Exists(i)
    /\ i \in Probes => todo \cap Dense = {}
    /\ item' = i /\ todo' = todo \ {i} /\ epc' = "asked"
    /\ UNCHANGED <<server, label, answer, raw, done, result, deaths>>

\* dicts_to_arrays: a position without an answer is not valid.
DenseTable(ids) == [ids |-> ids, valid |-> {p \in DOMAIN ids : ids[p] # <<>>}]

\* topk_str_to_arrays: the one position of a probe always is.
ProbeTable(ids) == [ids |-> ids, valid |-> {1}]

Table(i, ids) == IF i \in Dense THEN DenseTable(ids) ELSE ProbeTable(ids)

Answered == server # None /\ (server.kind = "dense" => item \in Dense)

Receive ==
    /\ epc = "asked" /\ Answered
    /\ answer' = Stored(server.config, Table(item, Answers[server.config][item]))
    /\ epc' = "open"
    /\ UNCHANGED <<server, label, todo, item, raw, done, result, deaths>>

\* Mutant: the error is caught, and the next item is asked for.
MutantAskFails ==
    /\ epc = "asked" /\ ~Answered
    /\ epc' = "next" /\ item' = None
    /\ UNCHANGED <<server, label, todo, answer, raw, done, result, deaths>>

\* No server answers, or with an error: urlopen raises, and nothing catches it.
AskFails ==
    /\ epc = "asked" /\ ~Answered
    /\ epc' = "idle" /\ todo' = {} /\ item' = None /\ label' = None
    /\ UNCHANGED <<server, answer, raw, done, result, deaths>>

\* np.savez_compressed writes under the file's own name.
OpenFile ==
    /\ epc = "open" /\ epc' = "saving"
    /\ raw' = [raw EXCEPT ![OutDir(label.config)][item] = Torn]
    /\ UNCHANGED <<server, label, todo, item, answer, done, result, deaths>>

Save ==
    /\ epc = "saving" /\ epc' = "next"
    /\ raw' = [raw EXCEPT ![OutDir(label.config)][item] = answer]
    /\ item' = None /\ answer' = None
    /\ UNCHANGED <<server, label, todo, done, result, deaths>>

Done ==
    /\ epc = "next" /\ todo = {}
    /\ epc' = "idle" /\ done' = done \cup {label} /\ label' = None
    /\ UNCHANGED <<server, todo, item, answer, raw, result, deaths>>

\* The evaluation is killed, and run again later.
EvalDies ==
    /\ epc # "idle" /\ deaths < MaxDeaths
    /\ epc' = "idle" /\ deaths' = deaths + 1
    /\ todo' = {} /\ item' = None /\ answer' = None /\ label' = None
    /\ UNCHANGED <<server, raw, done, result>>

-----------------------------------------------------------------------------
(* compare.py.                                                             *)

Ids(t, p) == {t.ids[p][j] : j \in DOMAIN t.ids[p]}
First(t, p) == IF p \in DOMAIN t.ids /\ t.ids[p] # <<>> THEN Head(t.ids[p]) ELSE -1

\* The tokens the KL is summed over
Support(a, b, p) == Ids(a, p) \cap Ids(b, p)

\* metrics(): the positions of both, those that agree, and the support of each
Metrics(a, b) ==
    LET valid == a.valid \cap b.valid
    IN  [n |-> Cardinality(valid),
         top1 |-> {p \in valid : First(a, p) = First(b, p)},
         support |-> [p \in valid |-> Support(a, b, p)]]

\* --base, --other
BaseRaw(i) == raw[OutDir(Base)][i]
OtherRaw(i) == raw[OutDir(Other)][i]

Paired == {i \in Items : Absent \notin {BaseRaw(i), OtherRaw(i)}}

\* np.load of a torn file raises: no result.
Compare ==
    /\ Paired # {}
    /\ result' = IF \E i \in Paired : Torn \in {BaseRaw(i), OtherRaw(i)} THEN None
                 ELSE [i \in Paired |->
                         [base |-> BaseRaw(i).by, other |-> OtherRaw(i).by,
                          m |-> Metrics(BaseRaw(i).table, OtherRaw(i).table)]]
    /\ UNCHANGED <<server, label, epc, todo, item, answer, raw, done, deaths>>

EvalStep ==
    \/ ServerDies \/ StartEval \/ Receive \/ AskFails \/ OpenFile \/ Save \/ Done \/ EvalDies
    \/ Compare
    \/ \E i \in Items : Skip(i) \/ Ask(i)

EvalInit ==
    /\ server = None /\ label = None /\ epc = "idle" /\ todo = {} /\ item = None
    /\ answer = None /\ raw = [c \in Configs |-> [i \in Items |-> Absent]]
    /\ done = {} /\ result = None /\ deaths = 0

-----------------------------------------------------------------------------
(* What the comparison rests on.                                           *)

\* What is compared as the answers of two configurations was answered by servers of these,
\* however often servers were exchanged and evaluations resumed.
ComparedAreTheConfigs ==
    result # None => \A i \in DOMAIN result : result[i].base = Base /\ result[i].other = Other

\* An evaluation that prints "done" has a file for every item it was asked for, also if earlier
\* ones were interrupted.  The file may be half of one, of an evaluation that died while it
\* stored: it is passed over, and compare.py fails on it.
DoneMeansStored ==
    \A l \in done : \A i \in Items : Kind(i) \in l.kinds => raw[l.config][i] # Absent
==============================================================================

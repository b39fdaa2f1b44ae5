------------------------------- MODULE Deploy -------------------------------
(***************************************************************************)
(* Two programs that launch a server, wait until it answers, measure it    *)
(* and take it down, on a host with one port 8000:                         *)
(*   "feasible"  kv_pool_sizing.py --feasible (cmd_feasible and its        *)
(*               helpers): up to MAX_ATTEMPTS deployments of one profile;  *)
(*   "sweep"     the drivers n_sweep.sh and n_sweep2.sh: stop, launch,     *)
(*               wait (wait_server.sh) and benchmark, once per value of n. *)
(* Neither asks who it is that answers on the port or whose memory it      *)
(* measures; what makes that right is the order of their steps.            *)
(***************************************************************************)
EXTENDS Integers, FiniteSets

CONSTANTS
    NumForeign,   \* engines neither program has launched
    MaxRounds,    \* MAX_ATTEMPTS, and the length of N_LIST
    MaxPolls,     \* READY_TIMEOUT_S // POLL_SECONDS, and the 900 s of a wait
    NonKv, Pool,  \* GiB per GPU of the profile's engine: without its pool, its pool
    Target,       \* GiB of safe_pool(target_len)
    Gpu           \* --gpu-gib

\* Engines are numbered: those of the rounds 1, 2, ..., foreign ones -1, -2, ...
Launched == 1..MaxRounds
Foreign == (-NumForeign)..(-1)
Engines == Launched \cup Foreign
Nobody == 0
Unknown == -1      \* a figure that was not taken, an exit code not yet given

ASSUME DeployAssumption ==
    /\ MaxRounds \in Nat \ {0} /\ MaxPolls \in Nat \ {0}
    /\ NonKv \in Nat /\ Pool \in Nat /\ Target \in Nat /\ Gpu \in Nat
    /\ NumForeign \in Nat

VARIABLES
    client,    \* "feasible" or "sweep"
    alone,     \* foreign engines do not start, and those that run are on port 8000
    stopWorks, \* stop_server.sh does not give up (exit 1)
    owner,     \* the engine that answers on port 8000 when the program is started
    engine,    \* [Engines -> "absent", "loading", "ready", "dying", "gone"]
    listener,  \* the engine that answers on port 8000, or Nobody
    python,    \* a foreign Python program with a multiprocessing resource tracker runs
    log,       \* the lines of the log the program reads: who wrote which
    staging,   \* the engines whose files are in /dev/shm
    pc, round, polls,
    reason,    \* the engine whose log line ended the wait, or Nobody
    used,      \* GiB that _gpu_used_gib has returned, or Unknown
    benched,   \* the engine decode_profile.py has measured, or Nobody
    exit       \* the exit code, or Unknown

setting == <<client, alone, stopWorks, owner>>
host == <<engine, listener, python>>
deployVars == <<setting, host, log, staging, pc, round, polls, reason, used, benched, exit>>

Alive(e) == engine[e] \in {"loading", "ready"}

\* _OOM_RE, _TRANSIENT_RE of the tool; ERR_RE of wait_server.sh
Fatal == {"oom", "transient"}

DeployInit ==
    /\ client \in {"feasible", "sweep"} /\ alone \in BOOLEAN /\ stopWorks \in BOOLEAN
    /\ engine \in [Engines -> {"absent", "loading", "ready"}]
    /\ \A e \in Launched : engine[e] = "absent"
    /\ listener \in {Nobody} \cup {e \in Engines : engine[e] = "ready"}
    /\ alone => \A f \in Foreign : Alive(f) => listener = f
    /\ owner = listener /\ python \in BOOLEAN
    /\ log = {} /\ reason = Nobody
    /\ staging \in SUBSET Foreign
    /\ pc = "start" /\ round = 0 /\ polls = 0
    /\ used = Unknown /\ benched = Nobody /\ exit = Unknown

(***************************************************************************)
(* The engines.  One takes minutes to load, so that what was killed before *)
(* is gone by then; it answers if nobody else does, and fails otherwise.   *)
(* A failure writes one of the patterns, or a line nobody looks for.       *)
(***************************************************************************)
Ready(e) ==
    /\ engine[e] = "loading"
    /\ \A d \in Engines : engine[d] # "dying"
    /\ engine' = [engine EXCEPT ![e] = "ready"]
    /\ staging' = staging \cup {e}
    /\ \/ listener = Nobody /\ listener' = e
       \/ e \in Foreign /\ UNCHANGED listener         \* on another port
    /\ UNCHANGED <<setting, python, log, pc, round, polls, reason, used, benched, exit>>

\* ... a loading one, or a ready one that dies under its client
Fail(e, line) ==
    /\ Alive(e)
    /\ engine' = [engine EXCEPT ![e] = "gone"]
    /\ listener' = IF listener = e THEN Nobody ELSE listener
    /\ staging' \in {staging, staging \cup {e}}
    /\ log' = IF e = round THEN log \cup {<<e, line>>} ELSE log
    /\ UNCHANGED <<setting, python, pc, round, polls, reason, used, benched, exit>>

Reap(e) ==
    /\ engine[e] = "dying"
    /\ engine' = [engine EXCEPT ![e] = "gone"]
    /\ UNCHANGED <<setting, listener, python, log, staging, pc, round, polls, reason, used, benched, exit>>

ForeignStarts(f) ==
    /\ ~alone /\ engine[f] = "absent"
    /\ engine' = [engine EXCEPT ![f] = "loading"]
    /\ UNCHANGED <<setting, listener, python, log, staging, pc, round, polls, reason, used, benched, exit>>

\* an engine that became healthy is left to a later clean-up
MutantKill(es) ==
    /\ engine' = [e \in Engines |->
                    IF e \in es /\ engine[e] = "loading" THEN "dying" ELSE engine[e]]
    /\ UNCHANGED listener

\* SIGKILL for a set of engines: what is killed does not answer any more
Kill(es) ==
    /\ engine' = [e \in Engines |-> IF e \in es /\ Alive(e) THEN "dying" ELSE engine[e]]
    /\ listener' = IF listener \in es THEN Nobody ELSE listener

(***************************************************************************)
(* kv_pool_sizing.py --feasible                                            *)
(***************************************************************************)
Goto(label) == pc' = label
Finish(code) == Goto("done") /\ exit' = code
Raise == Goto("raised") /\ exit' = 1

Verdict(gib) == IF gib + Target <= Gpu THEN 0 ELSE 1

\* no length defined; or the figure comes from --non-kv-gib or from --log, whose
\* first "Model loading took" line, if any, is read
NoDeployment ==
    /\ client = "feasible" /\ pc = "start"
    /\ \/ Finish(2)
       \/ \E gib \in 0..Gpu : Finish(Verdict(gib))
       \/ Raise
    /\ UNCHANGED <<setting, host, log, staging, round, polls, reason, used, benched>>

MutantPortFree == TRUE                      \* the port is not looked at
PortFree == listener = Nobody

CheckPort ==
    /\ client = "feasible" /\ pc = "start"
    /\ IF PortFree THEN Goto("attempt") /\ UNCHANGED exit ELSE Finish(2)
    /\ UNCHANGED <<setting, host, log, staging, round, polls, reason, used, benched>>

MutantOpenLog == log                        \* the log is opened for appending
OpenLog == {}        \* open(..., "w"), and "> $L": nothing of an earlier run is left
MutantNextPoll == polls                     \* the poll waits without counting
NextPoll == polls + 1

\* the top of the loop: _clean_shm, the log, Popen
Attempt ==
    /\ client = "feasible" /\ pc = "attempt" /\ round < MaxRounds
    /\ round' = round + 1
    /\ staging' = {}
    /\ log' = OpenLog
    /\ engine' = [engine EXCEPT ![round + 1] = "loading"]
    /\ polls' = 0 /\ reason' = Nobody
    /\ Goto("poll")
    /\ UNCHANGED <<setting, listener, python, used, benched, exit>>

Hit == {e \in Engines : \E line \in Fatal : <<e, line>> \in log}

\* one turn of the poll: _healthy, then the patterns, then the next turn
Poll ==
    /\ client = "feasible" /\ pc = "poll"
    /\ IF listener # Nobody THEN Goto("measure") /\ UNCHANGED <<polls, reason>>
       ELSE IF Hit # {} THEN Goto("retry") /\ reason' \in Hit /\ UNCHANGED polls
       ELSE IF NextPoll = MaxPolls THEN Goto("retry") /\ UNCHANGED <<polls, reason>>
       ELSE polls' = NextPoll /\ UNCHANGED <<pc, reason>>
    /\ UNCHANGED <<setting, host, log, staging, round, used, benched, exit>>

\* GiB in use on the fuller GPU; engines are alike
InUse == (NonKv + Pool) * Cardinality({e \in Engines : engine[e] \in {"loading", "ready", "dying"}})

\* _gpu_used_gib: nvidia-smi prints numbers; or nothing, which counts as 0.0; or
\* it is missing, hangs or prints something else, and nothing catches that
Measure ==
    /\ client = "feasible" /\ pc = "measure"
    /\ \/ used' \in {InUse, 0} /\ Goto("teardown") /\ UNCHANGED exit
       \/ Raise /\ UNCHANGED used
    /\ UNCHANGED <<setting, host, log, staging, round, polls, reason, benched>>

\* _teardown: SIGKILL for the group of the launcher, for every process whose command
\* line looks like vLLM's, and for every resource tracker, whosever it is ...
Teardown ==
    /\ client = "feasible" /\ pc \in {"retry", "teardown"}
    /\ Kill(Engines)
    /\ python' = FALSE
    /\ Goto("clean")
    /\ UNCHANGED <<setting, log, staging, round, polls, reason, used, benched, exit>>

\* ... and three seconds later every file in /dev/shm; then the verdict, if there was
\* a figure, or the next attempt
CleanShm ==
    /\ client = "feasible" /\ pc = "clean"
    /\ staging' = {}
    /\ IF used # Unknown THEN Finish(Verdict(used - Pool))
       ELSE IF round < MaxRounds THEN Goto("attempt") /\ UNCHANGED exit
       ELSE Finish(1)
    /\ UNCHANGED <<setting, host, log, round, polls, reason, used, benched>>

(***************************************************************************)
(* n_sweep.sh, n_sweep2.sh and wait_server.sh                              *)
(***************************************************************************)

MutantStopTarget == {listener} \ {Nobody}     \* no search by command line
\* stop_server.sh finds the listener, or else the first command line that names
\* the port (a foreign one may name another); when it exits with 0 the instance
\* and its staging file are gone
StopTarget ==
    IF listener # Nobody THEN {listener}
    ELSE {e \in Engines : engine[e] = "loading"}

Stop ==
    /\ client = "sweep" /\ pc = "start" /\ round < MaxRounds
    /\ \/ \E e \in StopTarget :
            /\ engine' = [engine EXCEPT ![e] = "gone"]
            /\ listener' = IF listener = e THEN Nobody ELSE listener
            /\ staging' = staging \ {e}
       \/ /\ StopTarget \cap (Launched \cup {listener}) = {} \/ ~stopWorks
          /\ UNCHANGED <<engine, listener, staging>>
    /\ Goto("launch")
    /\ UNCHANGED <<setting, python, log, round, polls, reason, used, benched, exit>>

Launch ==
    /\ client = "sweep" /\ pc = "launch"
    /\ round' = round + 1
    /\ log' = OpenLog
    /\ engine' = [engine EXCEPT ![round + 1] = "loading"]
    /\ polls' = 0 /\ reason' = Nobody
    /\ Goto("wait")
    /\ UNCHANGED <<setting, listener, python, staging, used, benched, exit>>

\* one turn of wait_server.sh; the sweep ignores its exit code
Wait ==
    /\ client = "sweep" /\ pc = "wait"
    /\ IF polls = MaxPolls THEN Goto("bench") /\ UNCHANGED <<polls, reason>>
       ELSE IF Hit # {} THEN Goto("bench") /\ reason' \in Hit /\ UNCHANGED polls
       ELSE IF listener # Nobody THEN Goto("bench") /\ UNCHANGED <<polls, reason>>
       ELSE polls' = NextPoll /\ UNCHANGED <<pc, reason>>
    /\ UNCHANGED <<setting, host, log, staging, round, used, benched, exit>>

\* whoever answers is measured; nobody's answer is an error in the results file
Bench ==
    /\ client = "sweep" /\ pc = "bench"
    /\ benched' = listener
    /\ IF round < MaxRounds THEN Goto("start") /\ UNCHANGED exit ELSE Finish(0)
    /\ UNCHANGED <<setting, host, log, staging, round, polls, reason, used>>

Client ==
    \/ NoDeployment \/ CheckPort \/ Attempt \/ Poll \/ Measure \/ Teardown \/ CleanShm
    \/ Stop \/ Launch \/ Wait \/ Bench

Host ==
    \/ \E e \in Engines : Ready(e) \/ Reap(e)
    \/ \E e \in Engines, line \in Fatal \cup {"other"} : Fail(e, line)
    \/ \E f \in Foreign : ForeignStarts(f)

DeployNext == Client \/ Host

\* the programs are scheduled; their polls are counted
DeploySpec == DeployInit /\ [][DeployNext]_deployVars /\ WF_deployVars(Client)

(***************************************************************************)
(* What the programs promise.  Some of it holds only on a host of their    *)
(* own (alone, stopWorks), and says so.                                    *)
(***************************************************************************)

\* No engine of an earlier attempt, however slowly it loads or dies, and nobody
\* else's, is in the figure of a verdict: it is that of the attempt's own engine, or
\* zero, when nvidia-smi printed nothing or the engine had died meanwhile.  Zero is a
\* wrong "fits", so only "does not fit" is always right (_deploy_and_measure).
VerdictIsOwn ==
    (alone /\ client = "feasible" /\ pc = "done" /\ used # Unknown) =>
        /\ used \in {NonKv + Pool, 0}
        /\ exit = 1 => Verdict(NonKv) = 1

\* The pattern kills of _teardown meet whoever is there, but never the server that
\* had port 8000 when the tool was started; and nobody's Python program is killed
\* by a call that launches nothing (_port_free, l.496-500).
PortOwnerSpared ==
    [][client = "feasible" =>
         /\ owner # Nobody /\ Alive(owner) => engine'[owner] # "dying"
         /\ python /\ ~python' => round > 0]_deployVars

\* An attempt is given up for a line its own engine has written, never for one
\* that an earlier attempt left in the log (FEASIBLE_LOG, $L of the sweep).
FailureIsTheAttemptsOwn == reason # Nobody => reason = round

\* When the tool has given its verdict it has killed every engine it has launched and
\* removed their files from /dev/shm; when it ends by an exception instead, which no
\* tear-down follows, what it leaves is the engine of the last attempt at most.
NothingLeftRunning ==
    client = "feasible" =>
        /\ pc = "done" => staging \cap Launched = {} /\ \A e \in Launched : ~Alive(e)
        /\ pc = "raised" => \A e \in Launched \ {round} : ~Alive(e) /\ e \notin staging

\* What the sweep writes below "n=..." was measured on the engine of that n,
\* although it ignores the exit codes of the stop and of the wait.
SweepMeasuresItsRound ==
    [][(alone /\ stopWorks /\ benched' # benched) => benched' \in {round, Nobody}]_deployVars

\* The tool and the sweep end, whatever the engines do.
ClientEnds == <>(pc \in {"done", "raised"})
=============================================================================

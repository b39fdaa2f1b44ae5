------------------------------ MODULE ServerStop ------------------------------
(***************************************************************************)
(* scripts/tools/stop_server.sh: one invocation of the stop script against *)
(* one vLLM instance, on a host where other processes live.                *)
(*                                                                         *)
(* The script finds the instance by its port, lists the process group of   *)
(* the pid it found ONCE, decides from that list whether the group may be  *)
(* signalled as a whole, and then escalates TERM to the leader, TERM to    *)
(* the rest, KILL, polling the listed pids in between.  Everything else on *)
(* the host (the server's own shutdown, crashes, forks, a supervisor that  *)
(* restarts the service) interleaves with its steps.                       *)
(***************************************************************************)
EXTENDS Integers, FiniteSets

CONSTANTS
  Leader,        \* the api_server process of the instance
  Core,          \* EngineCore and one worker per rank
  Late,          \* pids the instance may still fork (helpers, workers)
  Others,        \* processes of other vLLM instances
  Replacement,   \* api_server pids a supervisor (systemd Restart=) may start
  Bystanders,    \* processes of no instance: launching shell, tail on its log, ...
  Self,          \* the stop script itself
  Tree,          \* [Core -> {Leader} \cup Core], who spawned whom
  MayShareGroup, \* processes that may have been started in the leader's group
  Patterned,     \* processes whose command line passes the patterns of l.178-181
  Marked,        \* those whose command line holds the marker of l.153
  OnDefaultPort, \* other instances' leaders on the port .env names
  InitPid,       \* pid 1, to which orphans are handed
  GraceSeconds,  \* the 10 of l.271 (scaled down for TLC)
  KillSeconds,   \* the 5 of l.275 and l.279
  Timeouts       \* values of --timeout to explore

Instance == {Leader} \cup Core \cup Late
Proc     == Instance \cup Others \cup Replacement \cup Bystanders \cup {Self}
Signals  == {"TERM", "KILL"}

ASSUME ProcessesAssumption ==
  /\ Leader \notin Core \cup Late
  /\ Core \cap Late = {}
  /\ Instance \cap (Others \cup Replacement \cup Bystanders \cup {Self}) = {}
  /\ Others \cap (Replacement \cup Bystanders \cup {Self}) = {}
  /\ Replacement \cap (Bystanders \cup {Self}) = {}
  /\ Self \notin Bystanders
  /\ InitPid \notin Proc

\* Both tests look for a string anywhere in a command line, so the shell that was
\* given the launch command, or a tail on a log named after it, may pass them too.
ASSUME CommandLinesAssumption ==
  /\ {Leader} \cup Others \cup Replacement \subseteq Marked
  /\ Marked \cup Core \subseteq Patterned
  /\ OnDefaultPort \subseteq Others
  /\ MayShareGroup \subseteq Others \cup Bystanders \cup {Self}
  /\ Tree \in [Core -> {Leader} \cup Core]
  /\ \A p \in Core : Tree[p] # p

ASSUME SecondsAssumption ==
  /\ GraceSeconds \in Nat
  /\ KillSeconds \in Nat
  /\ Timeouts \subseteq Nat

VARIABLES
  alive,      \* pids that have a /proc entry
  parent,     \* ppid of every process
  pgid,       \* process group, named by one of its processes
  sent,       \* signals the script has sent to each process
  staging,    \* /dev/shm/vllm_offload_<engine id>.mmap exists
  pc,         \* where the script is
  opts,       \* the command line: request, force, clean, timeout
  pid,        \* $PID
  members,    \* MEMBERS, the group as listed by l.163
  groupSafe,  \* group_safe
  targets,    \* pids the running signal_tree got from descendants
  stage,      \* last rung of the escalation that was sent
  polls,      \* iterations of wait_gone that are left
  exit        \* why the script ended ("running" until it does)

world  == <<alive, parent, pgid, staging>>
script == <<pc, opts, pid, members, groupSafe, targets, stage, polls, exit>>
vars   == <<world, sent, script>>

Options == [request : {"port", "pid"}, force : BOOLEAN, clean : BOOLEAN,
            timeout : Timeouts]

PCs == {"locate", "verify", "list", "first", "wait", "polite", "tree",
        "result", "port", "clean", "remove", "done"}

Exits == {"running", "nothing", "aborted", "leftBehind", "portBusy", "stopped"}

\* Every variable has its type, and no wait is longer than one the code names.
TypeOK ==
  /\ alive \subseteq Proc
  /\ parent \in [Proc -> Proc \cup {InitPid}]
  /\ pgid \in [Proc -> Proc]
  /\ sent \in [Proc -> SUBSET Signals]
  /\ staging \in BOOLEAN
  /\ pc \in PCs
  /\ opts \in Options
  /\ pid \in Proc
  /\ members \subseteq Proc
  /\ groupSafe \in BOOLEAN
  /\ targets \subseteq Proc
  /\ stage \in {"none", "leaderTerm", "restTerm", "kill"}
  /\ polls \in Int
  /\ \/ polls <= GraceSeconds \/ polls <= KillSeconds
     \/ polls <= opts.timeout - GraceSeconds
  /\ exit \in Exits

-----------------------------------------------------------------------------
(* The process table.                                                      *)

\* Pids are not reused; a process that has not been started is its own parent.
Unborn(p) == parent[p] = p

Children(p) == {q \in alive : parent[q] = p}

\* descendants(): everything reachable from p through live parent links, that
\* is, what every set closed under Children that holds p's children contains.
Descendants(p) ==
  {q \in alive : \A S \in SUBSET alive :
     (Children(p) \subseteq S /\ \A r \in S : Children(r) \subseteq S) => q \in S}

\* ps filtered by group.  (pkill by pattern, as l.4-7 warn, would be the mutant.)
MutantGroup(p) == alive \cap Patterned
Group(p) == {q \in alive : pgid[q] = pgid[p]}

\* The processes of the instance p is a part of.
InstanceOf(p) == IF p \in {Leader} \cup Core THEN Instance ELSE {p}

\* The processes that map the staging file: the engine's, and a restarted one's.
Mappers == alive \cap (Core \cup Replacement)

\* Listeners on the port l.291 looks at: the instance's own when it was asked
\* for by port, but the port .env names when it was asked for by --pid.
PortHolders ==
  alive \cap (IF opts.request = "port" THEN {Leader} \cup Replacement
                                       ELSE OnDefaultPort)

\* alive_members(): the listed pids that still have a /proc entry.
MutantAliveMembers == alive \cap {pid}
AliveMembers == members \cap alive

\* group_safe: the script is not in the group S, and every command line in S
\* passes the patterns.  (The mutant forgets the second half.)
MutantGroupIsSafe(S) == Self \notin S
GroupIsSafe(S) == Self \notin S /\ S \subseteq Patterned

Send(S, sig) ==
  sent' = [p \in Proc |-> IF p \in S \cap alive THEN sent[p] \cup {sig} ELSE sent[p]]

-----------------------------------------------------------------------------
(* What the rest of the host does.                                         *)

\* A process ends.  The instance's processes may end at any time: told to by the
\* api_server, by a signal, or in a crash.  Others end only when signalled.
Exit(p) ==
  /\ p \in alive \ {Self}
  /\ p \in Others \cup Replacement => sent[p] # {}
  /\ alive' = alive \ {p}
  /\ parent' = [q \in Proc |-> IF q \in alive /\ p \in {q, parent[q]}
                               THEN InitPid ELSE parent[q]]
  /\ UNCHANGED <<pgid, staging, sent, script>>

\* A process of the instance that has not been killed forks a helper.  (Forks and
\* restarts that come after the script's end are of no interest: a bound.)
Fork(p, c) ==
  /\ pc # "done"
  /\ p \in alive \cap Instance
  /\ "KILL" \notin sent[p]
  /\ c \in Late
  /\ Unborn(c)
  /\ alive' = alive \cup {c}
  /\ parent' = [parent EXCEPT ![c] = p]
  /\ pgid' = [pgid EXCEPT ![c] = pgid[p]]
  /\ UNCHANGED <<staging, sent, script>>

\* systemd (Restart=always) starts the service again once its main pid is gone.
Restart(r) ==
  /\ pc # "done"
  /\ r \in Replacement
  /\ Unborn(r)
  /\ alive \cap ({Leader} \cup Replacement) = {}
  /\ alive' = alive \cup {r}
  /\ parent' = [parent EXCEPT ![r] = InitPid]
  /\ staging' = TRUE
  /\ UNCHANGED <<pgid, sent, script>>

Host ==
  \/ \E p \in Proc : Exit(p)
  \/ \E p \in Instance, c \in Late : Fork(p, c)
  \/ \E r \in Replacement : Restart(r)

-----------------------------------------------------------------------------
(* The script, l.129 to l.322.                                             *)

Goto(label) == pc' = label /\ UNCHANGED exit

Finish(why) == pc' = "done" /\ exit' = why

\* The pids l.130-145 may come up with: the port's holder (by socket, else by
\* command line), or whatever pid the caller gave.
Candidates == IF opts.request = "port" THEN {Leader} \cup Replacement
                                       ELSE {Leader} \cup Core \cup Bystanders

\* l.130-150.  A port nobody serves, or a given pid that is gone, ends it here.
Locate ==
  /\ pc = "locate"
  /\ \/ \E p \in Candidates \cap alive : pid' = p /\ Goto("verify")
     \/ /\ IF opts.request = "port" THEN Candidates \cap alive = {}
                                    ELSE Candidates \ alive # {}
        /\ Finish("nothing")
        /\ UNCHANGED pid
  /\ UNCHANGED <<world, sent, opts, members, groupSafe, targets, stage, polls>>

\* l.152-158.  The pid must look like an api_server; if it died since it was found,
\* reading its command line or its group fails and `set -e` ends the script.
Verify ==
  /\ pc = "verify"
  /\ IF pid \in alive \cap Marked
       THEN Goto("list")
       ELSE Finish("aborted")
  /\ UNCHANGED <<world, sent, opts, pid, members, groupSafe, targets, stage, polls>>

\* l.163-187.  The group is listed once; members is never refreshed.
List ==
  /\ pc = "list"
  /\ members' = Group(pid)
  /\ groupSafe' = GroupIsSafe(Group(pid))
  /\ Goto("first")
  /\ UNCHANGED <<world, sent, opts, pid, targets, stage, polls>>

\* l.263-270.  SIGTERM to the leader alone, unless --force.
FirstSignal ==
  /\ pc = "first"
  /\ IF opts.force
       THEN Goto("polite") /\ UNCHANGED <<sent, stage, polls>>
       ELSE /\ Send({pid}, "TERM")
            /\ stage' = "leaderTerm"
            /\ polls' = GraceSeconds
            /\ Goto("wait")
  /\ UNCHANGED <<world, opts, pid, members, groupSafe, targets>>

\* The rung polite() climbs next: TERM to the rest, then KILL; --force starts with KILL.
NextStage == IF opts.force \/ stage = "restTerm" THEN "kill" ELSE "restTerm"

SignalOf(st) == IF st = "kill" THEN "KILL" ELSE "TERM"

\* How long wait_gone waits after a rung: what is left of --timeout after TERM.
SecondsAfter(st) ==
  IF st = "restTerm" /\ opts.timeout > KillSeconds
    THEN opts.timeout - GraceSeconds
    ELSE KillSeconds

\* The rung has been sent: wait for the members, except after --force (l.263-265).
Climbed ==
  /\ stage' = NextStage
  /\ polls' = SecondsAfter(NextStage)
  /\ Goto(IF opts.force THEN "result" ELSE "wait")

\* polite() on a safe group: one signal to the whole group.  (The mutant's goes to
\* the leader alone.)
MutantPoliteGroup ==
  /\ pc = "polite" /\ groupSafe
  /\ Send({pid}, SignalOf(NextStage))
  /\ Climbed
  /\ UNCHANGED <<world, opts, pid, members, groupSafe, targets>>

PoliteGroup ==
  /\ pc = "polite" /\ groupSafe
  /\ Send(Group(pid), SignalOf(NextStage))
  /\ Climbed
  /\ UNCHANGED <<world, opts, pid, members, groupSafe, targets>>

\* polite() otherwise, first half: signal_tree lists the leader's descendants.
PoliteScan ==
  /\ pc = "polite" /\ ~groupSafe
  /\ targets' = Descendants(pid)
  /\ Goto("tree")
  /\ UNCHANGED <<world, sent, opts, pid, members, groupSafe, stage, polls>>

\* ... second half: it signals those pids, and the leader last.
PoliteTree ==
  /\ pc = "tree"
  /\ Send(targets \cup {pid}, SignalOf(NextStage))
  /\ targets' = {}
  /\ Climbed
  /\ UNCHANGED <<world, opts, pid, members, groupSafe>>

\* One iteration of wait_gone: done if no member is left, else sleep a second.
\* (The mutant's loop counts nothing.)
MutantPoll ==
  /\ pc = "wait" /\ polls > 0
  /\ IF AliveMembers = {} THEN Goto("result") ELSE Goto("wait")
  /\ UNCHANGED <<world, sent, opts, pid, members, groupSafe, targets, stage, polls>>

Poll ==
  /\ pc = "wait" /\ polls > 0
  /\ IF AliveMembers = {} THEN Goto("result") /\ UNCHANGED polls
                          ELSE Goto("wait") /\ polls' = polls - 1
  /\ UNCHANGED <<world, sent, opts, pid, members, groupSafe, targets, stage>>

\* wait_gone ran out (`seq` of a number below 1 is empty): climb, or give up.
WaitOver ==
  /\ pc = "wait" /\ polls <= 0
  /\ Goto(IF stage = "kill" THEN "result" ELSE "polite")
  /\ UNCHANGED <<world, sent, opts, pid, members, groupSafe, targets, stage, polls>>

\* l.285-289.  (The mutant warns and carries on.)
MutantCheckResult ==
  /\ pc = "result"
  /\ Goto("port")
  /\ UNCHANGED <<world, sent, opts, pid, members, groupSafe, targets, stage, polls>>

CheckResult ==
  /\ pc = "result"
  /\ IF AliveMembers # {} THEN Finish("leftBehind") ELSE Goto("port")
  /\ UNCHANGED <<world, sent, opts, pid, members, groupSafe, targets, stage, polls>>

\* l.291-294.
CheckPort ==
  /\ pc = "port"
  /\ \/ PortHolders # {} /\ Finish("portBusy")
     \/ PortHolders = {} /\ opts.clean /\ Goto("clean")
     \/ PortHolders = {} /\ ~opts.clean /\ Finish("stopped")
  /\ UNCHANGED <<world, sent, opts, pid, members, groupSafe, targets, stage, polls>>

\* l.306-318 through vllm_clean_shm_staging: look at the mappings first ...
CleanCheck ==
  /\ pc = "clean"
  /\ IF staging /\ Mappers = {} THEN Goto("remove") ELSE Finish("stopped")
  /\ UNCHANGED <<world, sent, opts, pid, members, groupSafe, targets, stage, polls>>

\* ... then remove the file.
CleanRemove ==
  /\ pc = "remove"
  /\ staging' = FALSE
  /\ Finish("stopped")
  /\ UNCHANGED <<alive, parent, pgid, sent, opts, pid, members, groupSafe,
                 targets, stage, polls>>

Script ==
  \/ Locate \/ Verify \/ List \/ FirstSignal
  \/ PoliteGroup \/ PoliteScan \/ PoliteTree
  \/ Poll \/ WaitOver
  \/ CheckResult \/ CheckPort \/ CleanCheck \/ CleanRemove

-----------------------------------------------------------------------------
\* One running instance; some of MayShareGroup were started in its group.
Init ==
  /\ alive = {Leader, Self} \cup Core \cup Others \cup Bystanders
  /\ parent = [p \in Proc |-> IF p \in Core THEN Tree[p]
                            ELSE IF p \in Late \cup Replacement THEN p
                            ELSE InitPid]
  /\ \E shared \in SUBSET MayShareGroup :
       pgid = [p \in Proc |-> IF p \in Core \cup shared THEN Leader ELSE p]
  /\ sent = [p \in Proc |-> {}]
  /\ staging = TRUE
  /\ pc = "locate"
  /\ opts \in Options
  /\ pid = Self
  /\ members = {}
  /\ groupSafe = TRUE
  /\ targets = {}
  /\ stage = "none"
  /\ polls = 0
  /\ exit = "running"

Next == Script \/ Host

\* The script always gets to run, and SIGKILL cannot be ignored.  Nothing else
\* is promised: a server may ignore SIGTERM for ever.
Spec ==
  /\ Init /\ [][Next]_vars
  /\ WF_vars(Script)
  /\ \A p \in Proc : WF_vars("KILL" \in sent[p] /\ Exit(p))

-----------------------------------------------------------------------------
(* Properties.                                                             *)

\* The script never signals itself, nor a process whose command line passes no
\* pattern, in whatever group that was started; and a process of no instance is
\* signalled only as the pid the caller gave, or with a group that was listed, holds
\* no script, and passes the patterns to the last process (l.172-187).
StrangersSpared ==
  /\ sent[Self] = {}
  /\ \A p \in Bystanders : sent[p] # {} =>
        /\ p \in Patterned
        /\ p # pid => pgid[p] = pgid[pid] /\ Self \notin members /\ members \subseteq Patterned

\* A signal only reaches another instance's process if it was listed in the
\* target's own process group: instances with groups of their own are left alone.
OtherGroupsUntouched ==
  \A p \in Others : sent[p] # {} => pgid[p] = pgid[pid]

\* Together: whatever exits, forks or is restarted between the listing and the signals,
\* only the target, what it spawned, and what passes the patterns in its process
\* group, is ever signalled.
OnlyTargetGroupSignalled == StrangersSpared /\ OtherGroupsUntouched

\* When the script claims success (exit 0), no process it listed is left, even
\* though the server could have died, forked or been restarted meanwhile.
StoppedMeansListedGone ==
  exit = "stopped" => members \cap alive = {} /\ pid \notin alive

\* If a safe group was left behind (exit 1), the whole instance, including what
\* it forked after the listing, has been sent SIGKILL.
LeftBehindWasKilled ==
  exit = "leftBehind" /\ groupSafe =>
     \A p \in InstanceOf(pid) \cap alive : "KILL" \in sent[p]

\* The staging file is only ever removed once every listed process is gone.
StagingOutlivesInstance ==
  [][staging /\ ~staging' => members \cap alive = {} /\ pid \notin alive]_vars

\* SIGKILL is never the script's first word unless --force was given, and comes
\* only after the leader was asked, and the grace period was spent.
KillOnlyAfterTerm ==
  [][\A p \in Proc : "KILL" \in sent'[p] \ sent[p] /\ ~opts.force
        => stage = "restTerm" /\ polls <= 0]_vars

\* The script always ends: no wait is unbounded, whatever the server ignores.
ScriptEnds == <>(pc = "done")

(* What the documentation says, and the code does not do.                  *)

\* README.md:209: stopping touches only the instance's own process tree, and
\* never kills another instance by mistake.
OtherInstancesUntouched == \A p \in Others : sent[p] = {}

=============================================================================

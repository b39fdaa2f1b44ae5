--------------------------- MODULE ServerStopProofs ---------------------------
(***************************************************************************)
(* The safety properties of ServerStop, for any host: any number of        *)
(* workers, helpers, bystanders and other instances, any process tree, any *)
(* timeout.                                                                *)
(***************************************************************************)
EXTENDS ServerStop, TLAPS

USE ProcessesAssumption, CommandLinesAssumption, SecondsAssumption

\* The processes that are no part of the instance or of its restarts.
Foreign == Others \cup Bystanders \cup {Self}

\* The pids the script may have been led to.
Target == {Leader} \cup Core \cup Replacement \cup Bystanders

\* The states in which $PID has been verified to look like an api_server.
Verified == pc \in PCs \ {"locate", "verify", "done"}

\* The states after the group was listed.
Listed == pc \in PCs \ {"locate", "verify", "list", "done"}

\* A process that runs, or that the script has looked at, is not unborn: pids are
\* not reused, so what the script saw dead stays dead.
NoReuse ==
  /\ \A p \in alive \cup members \cup {pid} : parent[p] # p
  /\ pid \in Replacement \cup Instance \cup Bystanders \cup {Self}

\* Foreign processes hang below init, so no descendant of the leader is foreign.
ForeignApart ==
  /\ \A p \in Foreign : parent[p] = InitPid
  /\ targets \cap Foreign = {}

\* Whom the script may signal, at each point of it.
Aim ==
  /\ pc \in {"locate", "verify", "list", "first"} =>
        /\ \A p \in Proc : sent[p] = {}
        /\ exit = "running"
        /\ stage = "none"
  /\ pc \in {"locate", "verify"} => members = {}
  /\ pc = "verify" => pid \in Target
  /\ Verified => pid \in Target \cap Marked
  /\ exit \in {"stopped", "leftBehind", "portBusy"} => pid \in Target \cap Marked
  /\ Listed /\ groupSafe =>
        /\ members \subseteq Patterned \ {Self}
        /\ \A p \in Bystanders \cup {Self} :
              p \in alive /\ pgid[p] = pgid[pid] => p \in members

\* All of the instance is in the leader's group.
OneGroup == \A p \in {Leader} \cup Core \cup (Instance \cap alive) : pgid[p] = Leader

\* How far the escalation has come, at each point of the script.
Escalation ==
  /\ pc \in {"wait", "polite", "tree", "result"} /\ ~opts.force =>
        stage \in {"leaderTerm", "restTerm", "kill"}
  /\ pc \in {"polite", "tree"} /\ ~opts.force =>
        stage \in {"leaderTerm", "restTerm"} /\ polls <= 0
  /\ pc = "tree" => ~groupSafe
  /\ exit = "leftBehind" => stage = "kill"
  /\ pc = "result" => stage = "kill" \/ members \cap alive = {}
  /\ stage = "kill" /\ groupSafe /\ pid \in Target =>
        \A p \in InstanceOf(pid) \cap alive : "KILL" \in sent[p]

\* What the exits and the steps towards them know.
Verdict ==
  /\ Listed => pid \in members \/ pid \notin alive
  /\ pc \in {"port", "clean", "remove"} \/ exit = "stopped" =>
        members \cap alive = {} /\ pid \notin alive
  /\ exit # "running" => pc = "done"

IInv ==
  /\ TypeOK
  /\ NoReuse
  /\ ForeignApart
  /\ Aim
  /\ OneGroup
  /\ Escalation
  /\ Verdict
  /\ StrangersSpared
  /\ OtherGroupsUntouched

-----------------------------------------------------------------------------
(* Lemmas about the actions.                                               *)

\* The script never touches the process table.
LEMMA ScriptFrame == Script => UNCHANGED <<alive, parent, pgid>>
  BY DEF Script, Locate, Verify, List, FirstSignal, PoliteGroup, PoliteScan,
         PoliteTree, Poll, WaitOver, CheckResult, CheckPort, CleanCheck,
         CleanRemove, world

\* The host never touches the script's variables, nor what it has sent.
LEMMA HostFrame ==
  Host => /\ UNCHANGED <<sent, pc, opts, pid, members, groupSafe>>
          /\ UNCHANGED <<targets, stage, polls, exit>>
  BY DEF Host, Exit, Fork, Restart, script

\* A process that runs after a step of the host ran before it or was unborn, and
\* nobody's group changes but that of a new helper.
LEMMA HostBirths ==
  ASSUME TypeOK, NoReuse, Host
  PROVE  /\ \A p \in Proc : p \in alive' => p \in alive \/ Unborn(p)
         /\ \A p \in Proc : Unborn(p)' => Unborn(p)
         /\ \A p \in Proc : pgid'[p] # pgid[p] => p \in Late /\ Unborn(p)
         /\ \A p \in Foreign : p \in alive' => p \in alive
<1>1. ASSUME NEW p \in Proc, Exit(p)
      PROVE  /\ \A q \in Proc : q \in alive' => q \in alive \/ Unborn(q)
             /\ \A q \in Proc : Unborn(q)' => Unborn(q)
             /\ \A q \in Proc : pgid'[q] # pgid[q] => q \in Late /\ Unborn(q)
             /\ \A q \in Foreign : q \in alive' => q \in alive
  BY <1>1 DEF Exit, Unborn, TypeOK, Foreign, Proc, Instance
<1>2. ASSUME NEW p \in Instance, NEW c \in Late, Fork(p, c)
      PROVE  /\ \A q \in Proc : q \in alive' => q \in alive \/ Unborn(q)
             /\ \A q \in Proc : Unborn(q)' => Unborn(q)
             /\ \A q \in Proc : pgid'[q] # pgid[q] => q \in Late /\ Unborn(q)
             /\ \A q \in Foreign : q \in alive' => q \in alive
  BY <1>2 DEF Fork, Unborn, TypeOK, NoReuse, Foreign, Proc, Instance
<1>3. ASSUME NEW r \in Replacement, Restart(r)
      PROVE  /\ \A q \in Proc : q \in alive' => q \in alive \/ Unborn(q)
             /\ \A q \in Proc : Unborn(q)' => Unborn(q)
             /\ \A q \in Proc : pgid'[q] # pgid[q] => q \in Late /\ Unborn(q)
             /\ \A q \in Foreign : q \in alive' => q \in alive
  BY <1>3 DEF Restart, Unborn, TypeOK, Foreign, Proc, Instance
<1>4. QED
  BY <1>1, <1>2, <1>3 DEF Host

\* The descendants of a process of the instance hold no foreign process: what is
\* not foreign is closed under Children.
LEMMA DescendantsOwn ==
  ASSUME TypeOK, ForeignApart
  PROVE  Descendants(pid) \cap Foreign = {}
<1> DEFINE S == alive \ Foreign
<1>1. \A p \in Proc : Children(p) \subseteq S
  BY DEF Children, ForeignApart, TypeOK, Foreign, Proc
<1>2. S \in SUBSET alive
  OBVIOUS
<1>3. Children(pid) \subseteq S /\ \A r \in S : Children(r) \subseteq S
  BY <1>1 DEF TypeOK
<1>4. \A q \in Descendants(pid) : q \in S
  BY <1>2, <1>3 DEF Descendants
<1>5. QED
  BY <1>4

-----------------------------------------------------------------------------
(* Type correctness.                                                       *)

LEMMA InitType == Init => TypeOK
<1> SUFFICES ASSUME Init PROVE TypeOK
  OBVIOUS
<1>1. alive \subseteq Proc
  BY DEF Init, Proc, Instance
<1>2. parent \in [Proc -> Proc \cup {InitPid}]
  BY DEF Init, Proc, Instance
<1>3. pgid \in [Proc -> Proc]
  BY DEF Init, Proc, Instance
<1>4. sent \in [Proc -> SUBSET Signals] /\ pid \in Proc
  BY DEF Init, Proc
<1>5. QED
  BY <1>1, <1>2, <1>3, <1>4 DEF Init, TypeOK, PCs, Exits, Options

LEMMA TypeStep == TypeOK /\ [Next]_vars => TypeOK'
<1> SUFFICES ASSUME TypeOK, [Next]_vars PROVE TypeOK'
  OBVIOUS
<1>1. CASE Host
  <2>1. alive' \subseteq Proc /\ parent' \in [Proc -> Proc \cup {InitPid}]
        /\ pgid' \in [Proc -> Proc] /\ staging' \in BOOLEAN
    <3>1. ASSUME NEW p \in Proc, Exit(p)
          PROVE  alive' \subseteq Proc /\ parent' \in [Proc -> Proc \cup {InitPid}]
                 /\ pgid' \in [Proc -> Proc] /\ staging' \in BOOLEAN
      BY <3>1 DEF TypeOK, Exit
    <3>2. ASSUME NEW p \in Instance, NEW c \in Late, Fork(p, c)
          PROVE  alive' \subseteq Proc /\ parent' \in [Proc -> Proc \cup {InitPid}]
                 /\ pgid' \in [Proc -> Proc] /\ staging' \in BOOLEAN
      BY <3>2 DEF TypeOK, Fork, Proc, Instance
    <3>3. ASSUME NEW r \in Replacement, Restart(r)
          PROVE  alive' \subseteq Proc /\ parent' \in [Proc -> Proc \cup {InitPid}]
                 /\ pgid' \in [Proc -> Proc] /\ staging' \in BOOLEAN
      BY <3>3 DEF TypeOK, Restart, Proc
    <3>4. QED
      BY <1>1, <3>1, <3>2, <3>3 DEF Host
  <2>2. QED
    BY <1>1, <2>1, HostFrame DEF TypeOK
<1>2. CASE Script
  <2>1. alive' \subseteq Proc /\ parent' \in [Proc -> Proc \cup {InitPid}]
        /\ pgid' \in [Proc -> Proc]
    BY <1>2, ScriptFrame DEF TypeOK
  <2>2. ASSUME NEW T, NEW sig \in Signals, Send(T, sig)
        PROVE  sent' \in [Proc -> SUBSET Signals]
    BY <2>2 DEF Send, TypeOK
  <2>3. sent' \in [Proc -> SUBSET Signals]
    BY <1>2, <2>2 DEF Script, Locate, Verify, List, FirstSignal, PoliteGroup,
       PoliteScan, PoliteTree, Poll, WaitOver, CheckResult, CheckPort, CleanCheck,
       CleanRemove, TypeOK, Signals, SignalOf
  <2>4. opts' = opts /\ staging' \in BOOLEAN
    BY <1>2 DEF Script, Locate, Verify, List, FirstSignal, PoliteGroup,
       PoliteScan, PoliteTree, Poll, WaitOver, CheckResult, CheckPort, CleanCheck,
       CleanRemove, TypeOK, world
  <2>5. pc' \in PCs /\ exit' \in Exits
    BY <1>2 DEF Script, Locate, Verify, List, FirstSignal, PoliteGroup,
       PoliteScan, PoliteTree, Poll, WaitOver, CheckResult, CheckPort, CleanCheck,
       CleanRemove, TypeOK, Goto, Finish, Climbed, PCs, Exits
  <2>6. pid' \in Proc /\ members' \subseteq Proc /\ targets' \subseteq Proc
    BY <1>2 DEF Script, Locate, Verify, List, FirstSignal, PoliteGroup,
       PoliteScan, PoliteTree, Poll, WaitOver, CheckResult, CheckPort, CleanCheck,
       CleanRemove, TypeOK, Group, Descendants
  <2>7. groupSafe' \in BOOLEAN
    BY <1>2 DEF Script, Locate, Verify, List, FirstSignal, PoliteGroup,
       PoliteScan, PoliteTree, Poll, WaitOver, CheckResult, CheckPort, CleanCheck,
       CleanRemove, TypeOK, GroupIsSafe
  <2>8. /\ stage' \in {"none", "leaderTerm", "restTerm", "kill"}
        /\ polls' \in Int
        /\ \/ polls' <= GraceSeconds \/ polls' <= KillSeconds
           \/ polls' <= opts.timeout - GraceSeconds
    <3>1. CASE FirstSignal
      BY <3>1 DEF FirstSignal, TypeOK
    <3>2. CASE PoliteGroup \/ PoliteTree
      <4>1. opts.timeout \in Nat
        BY DEF TypeOK, Options
      <4>2. Climbed
        BY <3>2 DEF PoliteGroup, PoliteTree
      <4>3. QED
        BY <4>1, <4>2 DEF Climbed, NextStage, SecondsAfter, TypeOK
    <3>3. CASE Poll
      <4>1. stage' = stage /\ (polls' = polls \/ polls' = polls - 1)
        BY <3>3 DEF Poll
      <4>2. opts.timeout \in Nat
        BY DEF TypeOK, Options
      <4>3. QED
        BY <4>1, <4>2 DEF TypeOK
    <3>4. CASE ~(FirstSignal \/ PoliteGroup \/ PoliteTree \/ Poll)
      <4>1. stage' = stage /\ polls' = polls
        BY <1>2, <3>4 DEF Script, Locate, Verify, List, PoliteScan, WaitOver,
           CheckResult, CheckPort, CleanCheck, CleanRemove
      <4>2. QED
        BY <4>1 DEF TypeOK
    <3>5. QED
      BY <3>1, <3>2, <3>3, <3>4
  <2>9. QED
    BY <2>1, <2>3, <2>4, <2>5, <2>6, <2>7, <2>8 DEF TypeOK
<1>3. CASE UNCHANGED vars
  BY <1>3 DEF TypeOK, vars, world, script
<1>4. QED
  BY <1>1, <1>2, <1>3 DEF Next

\* Every variable of the script and of the host keeps its type, and no wait the
\* script starts is longer than the limits of l.271-279.
THEOREM TypeCorrect == Spec => []TypeOK
<1>1. Init => TypeOK
  BY InitType
<1>2. TypeOK /\ [Next]_vars => TypeOK'
  BY TypeStep
<1>3. QED
  BY <1>1, <1>2, PTL DEF Spec

-----------------------------------------------------------------------------
(* The inductive invariant.                                                *)

LEMMA InitInv == Init => IInv
<1> SUFFICES ASSUME Init PROVE IInv
  OBVIOUS
<1>1. TypeOK
  BY InitType
<1>2. NoReuse
  BY DEF Init, NoReuse, Proc, Instance
<1>3. ForeignApart
  BY DEF Init, ForeignApart, Foreign, Proc, Instance
<1>4. Aim
  BY DEF Init, Aim, Verified, Listed, PCs
<1>5. OneGroup
  BY DEF Init, OneGroup, Proc, Instance
<1>6. Escalation
  BY DEF Init, Escalation
<1>7. Verdict
  BY DEF Init, Verdict, Listed
<1>8. StrangersSpared /\ OtherGroupsUntouched
  BY DEF Init, StrangersSpared, OtherGroupsUntouched, Proc
<1>9. QED
  BY <1>1, <1>2, <1>3, <1>4, <1>5, <1>6, <1>7, <1>8 DEF IInv

LEMMA NoReuseStep == IInv /\ [Next]_vars => NoReuse'
<1> SUFFICES ASSUME IInv, [Next]_vars PROVE NoReuse'
  OBVIOUS
<1> USE DEF IInv
<1>1. CASE Host
  <2>1. \A p \in alive' : parent'[p] # p
    <3>1. ASSUME NEW p \in Proc, Exit(p) PROVE \A q \in alive' : parent'[q] # q
      BY <3>1 DEF Exit, NoReuse, TypeOK
    <3>2. ASSUME NEW p \in Instance, NEW c \in Late, Fork(p, c)
          PROVE  \A q \in alive' : parent'[q] # q
      BY <3>2 DEF Fork, NoReuse, TypeOK, Unborn, Proc, Instance
    <3>3. ASSUME NEW r \in Replacement, Restart(r)
          PROVE  \A q \in alive' : parent'[q] # q
      BY <3>3 DEF Restart, NoReuse, TypeOK, Proc
    <3>4. QED
      BY <1>1, <3>1, <3>2, <3>3 DEF Host
  <2>2. \A p \in members \cup {pid} : parent'[p] # p
    BY <1>1, HostBirths DEF NoReuse, Unborn, TypeOK
  <2>3. QED
    BY <1>1, <2>1, <2>2, HostFrame DEF NoReuse
<1>2. CASE Script
  <2>1. pid' \in {pid} \cup (alive \cap Candidates)
    BY <1>2 DEF Script, Locate, Verify, List, FirstSignal, PoliteGroup, PoliteScan,
       PoliteTree, Poll, WaitOver, CheckResult, CheckPort, CleanCheck, CleanRemove
  <2>2. members' \subseteq members \cup alive
    BY <1>2 DEF Script, Locate, Verify, List, FirstSignal, PoliteGroup, PoliteScan,
       PoliteTree, Poll, WaitOver, CheckResult, CheckPort, CleanCheck, CleanRemove,
       Group
  <2>3. pid' \in Replacement \cup Instance \cup Bystanders \cup {Self}
    BY <2>1 DEF NoReuse, Candidates, Instance
  <2>4. QED
    BY <1>2, <2>1, <2>2, <2>3, ScriptFrame DEF NoReuse
<1>3. CASE UNCHANGED vars
  BY <1>3 DEF NoReuse, vars, world, script
<1>4. QED
  BY <1>1, <1>2, <1>3 DEF Next

LEMMA ForeignApartStep == IInv /\ [Next]_vars => ForeignApart'
<1> SUFFICES ASSUME IInv, [Next]_vars PROVE ForeignApart'
  OBVIOUS
<1> USE DEF IInv
<1>1. CASE Host
  <2>1. \A q \in Foreign : parent'[q] = InitPid
    <3>1. ASSUME NEW p \in Proc, Exit(p)
          PROVE  \A q \in Foreign : parent'[q] = InitPid
      BY <3>1 DEF Exit, ForeignApart, TypeOK, Foreign, Proc
    <3>2. ASSUME NEW p \in Instance, NEW c \in Late, Fork(p, c)
          PROVE  \A q \in Foreign : parent'[q] = InitPid
      BY <3>2 DEF Fork, ForeignApart, TypeOK, Foreign, Proc, Instance
    <3>3. ASSUME NEW r \in Replacement, Restart(r)
          PROVE  \A q \in Foreign : parent'[q] = InitPid
      BY <3>3 DEF Restart, ForeignApart, TypeOK, Foreign, Proc
    <3>4. QED
      BY <1>1, <3>1, <3>2, <3>3 DEF Host
  <2>2. QED
    BY <1>1, <2>1, HostFrame DEF ForeignApart
<1>2. CASE Script
  <2>1. targets' = targets \/ targets' = {} \/ targets' = Descendants(pid)
    BY <1>2 DEF Script, Locate, Verify, List, FirstSignal, PoliteGroup, PoliteScan,
       PoliteTree, Poll, WaitOver, CheckResult, CheckPort, CleanCheck, CleanRemove
  <2>2. QED
    BY <1>2, <2>1, ScriptFrame, DescendantsOwn DEF ForeignApart
<1>3. CASE UNCHANGED vars
  BY <1>3 DEF ForeignApart, vars, world, script
<1>4. QED
  BY <1>1, <1>2, <1>3 DEF Next

LEMMA OneGroupStep == IInv /\ [Next]_vars => OneGroup'
<1> SUFFICES ASSUME IInv, [Next]_vars PROVE OneGroup'
  OBVIOUS
<1> USE DEF IInv
<1>1. CASE Host
  <2>1. ASSUME NEW p \in Proc, Exit(p) PROVE OneGroup'
    BY <2>1 DEF Exit, OneGroup
  <2>2. ASSUME NEW p \in Instance, NEW c \in Late, Fork(p, c) PROVE OneGroup'
    BY <2>2 DEF Fork, OneGroup, TypeOK, Proc, Instance
  <2>3. ASSUME NEW r \in Replacement, Restart(r) PROVE OneGroup'
    BY <2>3 DEF Restart, OneGroup, Instance
  <2>4. QED
    BY <1>1, <2>1, <2>2, <2>3 DEF Host
<1>2. CASE Script
  BY <1>2, ScriptFrame DEF OneGroup
<1>3. CASE UNCHANGED vars
  BY <1>3 DEF OneGroup, vars, world
<1>4. QED
  BY <1>1, <1>2, <1>3 DEF Next

LEMMA AimStep == IInv /\ [Next]_vars => Aim'
<1> SUFFICES ASSUME IInv, [Next]_vars PROVE Aim'
  OBVIOUS
<1> USE DEF IInv
<1>1. CASE Host
  <2>1. Listed /\ groupSafe =>
          \A p \in Bystanders \cup {Self} :
             p \in alive' /\ pgid'[p] = pgid'[pid] => p \in members
    <3> SUFFICES ASSUME Listed, groupSafe, NEW p \in Bystanders \cup {Self},
                        p \in alive', pgid'[p] = pgid'[pid]
                 PROVE  p \in members
      OBVIOUS
    <3>1. p \in Proc /\ p \in Foreign /\ p \notin Late
      BY DEF Proc, Foreign, Instance
    <3>2. p \in alive /\ pgid'[p] = pgid[p]
      BY <1>1, <3>1, HostBirths
    <3>3. pid \in Target
      BY DEF Aim, Listed, Verified
    <3>4. pid \in Proc /\ pid \notin Late
      BY <3>3 DEF Target, Proc, Instance
    <3>5. pgid'[pid] = pgid[pid]
      BY <1>1, <3>4, HostBirths
    <3>6. QED
      BY <3>2, <3>5 DEF Aim
  <2>2. QED
    BY <1>1, <2>1, HostFrame DEF Aim, Listed, Verified
<1>2. CASE Locate
  <2>1. pc' = "verify" => pid' \in Target
    BY <1>2 DEF Locate, Finish, Candidates, Target
  <2>2. QED
    BY <1>2, <2>1 DEF Locate, Goto, Finish, Aim, Verified, Listed, world, PCs
<1>3. CASE Verify
  BY <1>3 DEF Verify, Goto, Finish, Aim, Verified, Listed, world, PCs
<1>4. CASE List
  <2>1. groupSafe' =>
          /\ members' \subseteq Patterned \ {Self}
          /\ \A p \in Bystanders \cup {Self} :
                p \in alive /\ pgid[p] = pgid[pid] => p \in members'
    BY <1>4 DEF List, GroupIsSafe, Group
  <2>2. QED
    BY <1>4, <2>1 DEF List, Goto, Aim, Verified, Listed, world, PCs
<1>5. CASE FirstSignal
  BY <1>5 DEF FirstSignal, Goto, Aim, Verified, Listed, world, PCs
<1>6. CASE PoliteGroup \/ PoliteScan \/ PoliteTree
  BY <1>6 DEF PoliteGroup, PoliteScan, PoliteTree, Climbed, Goto, Aim, Verified,
     Listed, world, PCs
<1>7. CASE Poll \/ WaitOver \/ CheckResult \/ CheckPort
  BY <1>7 DEF Poll, WaitOver, CheckResult, CheckPort, Goto, Finish, Aim, Verified,
     Listed, world, PCs
<1>8. CASE CleanCheck \/ CleanRemove
  BY <1>8 DEF CleanCheck, CleanRemove, Goto, Finish, Aim, Verified, Listed, world, PCs
<1>9. CASE UNCHANGED vars
  BY <1>9 DEF Aim, Verified, Listed, vars, world, script
<1>10. QED
  BY <1>1, <1>2, <1>3, <1>4, <1>5, <1>6, <1>7, <1>8, <1>9 DEF Next, Script

\* SIGKILL to a safe group reaches all that is left of the instance.
LEMMA GroupKill ==
  ASSUME IInv, PoliteGroup, pid \in Target, SignalOf(NextStage) = "KILL"
  PROVE  \A p \in InstanceOf(pid) \cap alive : "KILL" \in sent'[p]
<1> SUFFICES ASSUME NEW p \in InstanceOf(pid) \cap alive PROVE "KILL" \in sent'[p]
  OBVIOUS
<1>1. p \in Proc
  BY DEF IInv, TypeOK
<1>2. p \in Group(pid)
  BY DEF IInv, OneGroup, InstanceOf, Group, Instance
<1>3. QED
  BY <1>1, <1>2 DEF PoliteGroup, Send

LEMMA EscalationStep == IInv /\ [Next]_vars => Escalation'
<1> SUFFICES ASSUME IInv, [Next]_vars PROVE Escalation'
  OBVIOUS
<1> USE DEF IInv
<1>1. CASE Host
  <2>1. members \cap alive = {} => members \cap alive' = {}
    BY <1>1, HostBirths DEF NoReuse, Unborn, TypeOK
  <2>2. stage = "kill" /\ groupSafe /\ pid \in Target =>
          \A p \in InstanceOf(pid) \cap alive' : "KILL" \in sent[p]
    <3> SUFFICES ASSUME stage = "kill", groupSafe, pid \in Target
                 PROVE  \A p \in InstanceOf(pid) \cap alive' : "KILL" \in sent[p]
      OBVIOUS
    <3>0. \A p \in InstanceOf(pid) \cap alive : "KILL" \in sent[p]
      BY DEF Escalation
    <3>1. ASSUME NEW p \in Proc, Exit(p)
          PROVE  \A q \in InstanceOf(pid) \cap alive' : "KILL" \in sent[q]
      BY <3>0, <3>1 DEF Exit
    <3>2. ASSUME NEW p \in Instance, NEW c \in Late, Fork(p, c)
          PROVE  \A q \in InstanceOf(pid) \cap alive' : "KILL" \in sent[q]
      <4>1. pid \notin {Leader} \cup Core
        BY <3>0, <3>2 DEF Fork, InstanceOf
      <4>2. pid # c
        BY DEF Instance, Target
      <4>3. QED
        BY <3>0, <3>2, <4>1, <4>2 DEF Fork, InstanceOf
    <3>3. ASSUME NEW r \in Replacement, Restart(r)
          PROVE  \A q \in InstanceOf(pid) \cap alive' : "KILL" \in sent[q]
      <4>1. r # pid
        BY <3>3 DEF Restart, Unborn, NoReuse
      <4>2. r \notin InstanceOf(pid)
        BY <4>1 DEF InstanceOf, Instance
      <4>3. QED
        BY <3>0, <3>3, <4>2 DEF Restart
    <3>4. QED
      BY <1>1, <3>1, <3>2, <3>3 DEF Host
  <2>3. QED
    BY <1>1, <2>1, <2>2, HostFrame DEF Escalation
<1>2. CASE Locate \/ Verify \/ List
  <2>1. stage = "none" /\ stage' = stage /\ exit' # "leftBehind" /\ pc' \notin
          {"wait", "polite", "tree", "result"}
    BY <1>2 DEF Locate, Verify, List, Goto, Finish, Aim
  <2>2. QED
    BY <2>1 DEF Escalation
<1>3. CASE FirstSignal
  BY <1>3 DEF FirstSignal, Goto, Escalation, Aim, world
<1>4. CASE PoliteGroup
  <2>1. pid \in Target
    BY <1>4 DEF PoliteGroup, Aim, Verified, PCs
  <2>2. stage' = "kill" => \A p \in InstanceOf(pid) \cap alive : "KILL" \in sent'[p]
    BY <1>4, <2>1, GroupKill DEF PoliteGroup, Climbed, SignalOf
  <2>3. QED
    BY <1>4, <2>2 DEF PoliteGroup, Climbed, Goto, NextStage, Escalation, world,
       InstanceOf, Verdict
<1>5. CASE PoliteScan
  BY <1>5 DEF PoliteScan, Goto, Escalation, world
<1>6. CASE PoliteTree
  <2>1. \A p \in Proc : sent[p] \subseteq sent'[p]
    BY <1>6 DEF PoliteTree, Send, TypeOK
  <2>2. QED
    BY <1>6, <2>1 DEF PoliteTree, Climbed, Goto, NextStage, Escalation, world,
       InstanceOf, Verdict, TypeOK
<1>7. CASE Poll \/ WaitOver
  BY <1>7 DEF Poll, WaitOver, AliveMembers, Goto, Escalation, world, TypeOK
<1>8. CASE CheckResult \/ CheckPort
  BY <1>8 DEF CheckResult, CheckPort, AliveMembers, Goto, Finish, Escalation, world
<1>9. CASE CleanCheck \/ CleanRemove
  BY <1>9 DEF CleanCheck, CleanRemove, Goto, Finish, Escalation, world
<1>10. CASE UNCHANGED vars
  BY <1>10 DEF Escalation, vars, world, script
<1>11. QED
  BY <1>1, <1>2, <1>3, <1>4, <1>5, <1>6, <1>7, <1>8, <1>9, <1>10 DEF Next, Script

LEMMA VerdictStep == IInv /\ [Next]_vars => Verdict'
<1> SUFFICES ASSUME IInv, [Next]_vars PROVE Verdict'
  OBVIOUS
<1> USE DEF IInv
<1>1. CASE Host
  <2>1. \A p \in members \cup {pid} : p \in alive' => p \in alive
    BY <1>1, HostBirths DEF NoReuse, Unborn, TypeOK
  <2>2. QED
    BY <1>1, <2>1, HostFrame DEF Verdict, Listed
<1>2. CASE Locate \/ Verify
  BY <1>2 DEF Locate, Verify, Goto, Finish, Verdict, Listed, PCs
<1>3. CASE List
  BY <1>3 DEF List, Group, Goto, Verdict, Listed, PCs, world, TypeOK
<1>4. CASE FirstSignal \/ PoliteGroup \/ PoliteScan \/ PoliteTree
  BY <1>4 DEF FirstSignal, PoliteGroup, PoliteScan, PoliteTree, Climbed, Goto,
     Verdict, Listed, PCs, world
<1>5. CASE Poll \/ WaitOver
  BY <1>5 DEF Poll, WaitOver, Goto, Verdict, Listed, PCs, world
<1>6. CASE CheckResult
  BY <1>6 DEF CheckResult, AliveMembers, Goto, Finish, Verdict, Listed, PCs, world
<1>7. CASE CheckPort \/ CleanCheck \/ CleanRemove
  BY <1>7 DEF CheckPort, CleanCheck, CleanRemove, Goto, Finish, Verdict, Listed, PCs,
     world
<1>8. CASE UNCHANGED vars
  BY <1>8 DEF Verdict, Listed, vars, world, script
<1>9. QED
  BY <1>1, <1>2, <1>3, <1>4, <1>5, <1>6, <1>7, <1>8 DEF Next, Script

\* A step that signals a foreign process signals the target itself, or a safe group
\* the process is in, and was in when the group was listed.
LEMMA SignalsAimed ==
  ASSUME IInv, [Next]_vars, NEW p \in Foreign, sent'[p] # sent[p]
  PROVE  /\ Verified /\ pc # "list" /\ pid' = pid /\ pgid' = pgid /\ members' = members
         /\ \/ p = pid
            \/ PoliteGroup /\ pgid[p] = pgid[pid]
<1> USE DEF IInv
<1>1. p \in Proc
  BY DEF Foreign, Proc
<1>2. FirstSignal \/ PoliteTree \/ PoliteGroup
  BY HostFrame DEF Next, Script, Locate, Verify, List, PoliteScan, Poll,
     WaitOver, CheckResult, CheckPort, CleanCheck, CleanRemove, vars
<1>3. Verified /\ pc # "list" /\ pid' = pid /\ pgid' = pgid /\ members' = members
  BY <1>2 DEF FirstSignal, PoliteTree, PoliteGroup, Verified, PCs, world
<1>4. CASE FirstSignal
  BY <1>1, <1>3, <1>4 DEF FirstSignal, Send, TypeOK
<1>5. CASE PoliteTree
  BY <1>1, <1>3, <1>5 DEF PoliteTree, Send, TypeOK, ForeignApart
<1>6. CASE PoliteGroup
  BY <1>1, <1>3, <1>6 DEF PoliteGroup, Send, Group, TypeOK
<1>7. QED
  BY <1>2, <1>4, <1>5, <1>6

\* A process keeps the group it was listed in, and $PID keeps its own, once the
\* first signal was sent.
LEMMA GroupsKept ==
  ASSUME IInv, [Next]_vars, NEW p \in Foreign,
         pc \notin {"locate", "verify", "list", "first"}
  PROVE  pid' = pid /\ members' = members /\ pgid'[p] = pgid[p] /\ pgid'[pid] = pgid[pid]
<1> USE DEF IInv
<1>1. p \in Proc /\ p \notin Late
  BY DEF Foreign, Proc, Instance
<1>2. pid' = pid /\ members' = members
  BY HostFrame DEF Next, Script, Locate, Verify, List, FirstSignal, PoliteGroup,
     PoliteScan, PoliteTree, Poll, WaitOver, CheckResult, CheckPort, CleanCheck,
     CleanRemove, vars, script
<1>3. CASE Host
  <2>1. pgid'[p] = pgid[p]
    BY <1>1, <1>3, HostBirths
  <2>2. pid \in Proc /\ ~Unborn(pid)
    BY DEF NoReuse, Unborn, TypeOK
  <2>3. QED
    BY <1>2, <1>3, <2>1, <2>2, HostBirths
<1>4. CASE ~Host
  BY <1>2, <1>4, ScriptFrame DEF Next, vars, world
<1>5. QED
  BY <1>3, <1>4

LEMMA StrangersStep == IInv /\ [Next]_vars => StrangersSpared'
<1> SUFFICES ASSUME IInv, [Next]_vars PROVE StrangersSpared'
  OBVIOUS
<1> USE DEF IInv
<1>1. \A p \in Bystanders \cup {Self} : p \in Foreign /\ p \in Proc
  BY DEF Foreign, Proc
<1>2. ASSUME NEW p \in Bystanders \cup {Self}, sent'[p] # sent[p]
      PROVE  /\ p \in Patterned /\ p # Self
             /\ p # pid => pgid[p] = pgid[pid] /\ Self \notin members /\ members \subseteq Patterned
  <2>1. Verified /\ pc # "list" /\ (p = pid \/ (PoliteGroup /\ pgid[p] = pgid[pid]))
    BY <1>1, <1>2, SignalsAimed
  <2>2. CASE p = pid
    <3>1. p \in Target \cap Marked
      BY <2>1, <2>2 DEF Aim
    <3>2. QED
      BY <2>2, <3>1 DEF Target, Instance
  <2>3. CASE p # pid
    <3>1. PoliteGroup /\ p \in alive
      BY <1>1, <1>2, <2>1, <2>3 DEF PoliteGroup, Send, TypeOK, Group
    <3>2. members \subseteq Patterned \ {Self} /\ p \in members
      BY <2>1, <2>3, <3>1 DEF PoliteGroup, Aim, Listed, PCs
    <3>3. QED
      BY <2>1, <2>3, <3>2
  <2>4. QED
    BY <2>2, <2>3
<1>3. sent'[Self] = {}
  BY <1>1, <1>2 DEF StrangersSpared
<1>4. ASSUME NEW p \in Bystanders, sent'[p] # {}
      PROVE  /\ p \in Patterned
             /\ p # pid' => pgid'[p] = pgid'[pid'] /\ Self \notin members' /\ members' \subseteq Patterned
  <2>1. CASE sent'[p] # sent[p]
    <3>1. pid' = pid /\ pgid' = pgid /\ members' = members
      BY <1>1, <2>1, SignalsAimed
    <3>2. QED
      BY <1>2, <2>1, <3>1
  <2>2. CASE sent'[p] = sent[p]
    <3>1. pc \notin {"locate", "verify", "list", "first"}
      BY <1>1, <1>4, <2>2 DEF Aim
    <3>2. pid' = pid /\ members' = members /\ pgid'[p] = pgid[p] /\ pgid'[pid] = pgid[pid]
      BY <1>1, <3>1, GroupsKept
    <3>3. QED
      BY <1>4, <2>2, <3>2 DEF StrangersSpared
  <2>3. QED
    BY <2>1, <2>2
<1>5. QED
  BY <1>3, <1>4 DEF StrangersSpared

LEMMA OtherGroupsStep == IInv /\ [Next]_vars => OtherGroupsUntouched'
<1> SUFFICES ASSUME IInv, [Next]_vars, NEW p \in Others, sent'[p] # {}
             PROVE  pgid'[p] = pgid'[pid']
  BY DEF OtherGroupsUntouched
<1> USE DEF IInv
<1>1. p \in Foreign /\ p \in Proc
  BY DEF Foreign, Proc
<1>2. CASE sent'[p] # sent[p]
  BY <1>1, <1>2, SignalsAimed
<1>3. CASE sent'[p] = sent[p]
  <2>1. pgid[p] = pgid[pid] /\ pc \notin {"locate", "verify", "list", "first"}
    BY <1>1, <1>3 DEF OtherGroupsUntouched, Aim
  <2>2. QED
    BY <1>1, <2>1, GroupsKept
<1>4. QED
  BY <1>2, <1>3

LEMMA InvStep == IInv /\ [Next]_vars => IInv'
<1> SUFFICES ASSUME IInv, [Next]_vars PROVE IInv'
  OBVIOUS
<1>1. TypeOK'
  BY TypeStep DEF IInv
<1>2. NoReuse' /\ ForeignApart' /\ Aim' /\ OneGroup' /\ Escalation' /\ Verdict'
  BY NoReuseStep, ForeignApartStep, AimStep, OneGroupStep, EscalationStep, VerdictStep
<1>3. StrangersSpared' /\ OtherGroupsUntouched'
  BY StrangersStep, OtherGroupsStep
<1>4. QED
  BY <1>1, <1>2, <1>3 DEF IInv

LEMMA Invariance == Spec => []IInv
<1>1. Init => IInv
  BY InitInv
<1>2. IInv /\ [Next]_vars => IInv'
  BY InvStep
<1>3. QED
  BY <1>1, <1>2, PTL DEF Spec

-----------------------------------------------------------------------------
(* The theorems.                                                           *)

\* Whatever group the server was started in, and whatever command lines the host's
\* processes have, the stop script never signals itself, nor a process whose command
\* line passes none of its patterns (l.172-187, l.210-237).
THEOREM StrangersAreSpared == Spec => []StrangersSpared
<1>1. IInv => StrangersSpared
  BY DEF IInv
<1>2. QED
  BY <1>1, Invariance, PTL

\* Another instance is signalled only if it shares the target's process group.
THEOREM OnlyOwnGroupSignalled == Spec => []OtherGroupsUntouched
<1>1. IInv => OtherGroupsUntouched
  BY DEF IInv
<1>2. QED
  BY <1>1, Invariance, PTL

\* Only the target, what it spawned, and what passes the patterns in its process
\* group, is ever signalled.
THEOREM OnlyTargetGroup == Spec => []OnlyTargetGroupSignalled
<1>1. IInv => OnlyTargetGroupSignalled
  BY DEF IInv, OnlyTargetGroupSignalled
<1>2. QED
  BY <1>1, Invariance, PTL

\* Exit 0 is only reached with every listed process gone.
THEOREM StoppedIsGone == Spec => []StoppedMeansListedGone
<1>1. IInv => StoppedMeansListedGone
  BY DEF IInv, Verdict, StoppedMeansListedGone
<1>2. QED
  BY <1>1, Invariance, PTL

\* A safe group that is left behind was sent SIGKILL, to the last late fork.
THEOREM LeftBehindIsKilled == Spec => []LeftBehindWasKilled
<1>1. IInv => LeftBehindWasKilled
  BY DEF IInv, Aim, Escalation, LeftBehindWasKilled
<1>2. QED
  BY <1>1, Invariance, PTL

\* SIGKILL follows SIGTERM and the whole grace period, except with --force.
THEOREM TermBeforeKill == Spec => KillOnlyAfterTerm
<1>1. ASSUME IInv, [Next]_vars, NEW p \in Proc, "KILL" \in sent'[p] \ sent[p], ~opts.force
      PROVE  stage = "restTerm" /\ polls <= 0
  <2>1. ~FirstSignal
    BY <1>1 DEF FirstSignal, Send, IInv, TypeOK
  <2>2. PoliteGroup \/ PoliteTree
    BY <1>1, <2>1, HostFrame DEF Next, Script, Locate, Verify, List, PoliteScan, Poll,
       WaitOver, CheckResult, CheckPort, CleanCheck, CleanRemove, vars
  <2>3. SignalOf(NextStage) = "KILL"
    BY <1>1, <2>2 DEF PoliteGroup, PoliteTree, Send, IInv, TypeOK
  <2>4. QED
    BY <1>1, <2>2, <2>3 DEF PoliteGroup, PoliteTree, SignalOf, NextStage, IInv, Escalation
<1>2. IInv /\ [Next]_vars =>
        [\A p \in Proc : "KILL" \in sent'[p] \ sent[p] /\ ~opts.force
           => stage = "restTerm" /\ polls <= 0]_vars
  BY <1>1
<1>3. QED
  BY <1>2, Invariance, PTL DEF Spec, KillOnlyAfterTerm

\* Whatever happens on the host, the staging file outlives the listed processes.
THEOREM StagingRemovedLast == Spec => StagingOutlivesInstance
<1>1. ASSUME IInv, [Next]_vars, staging, ~staging'
      PROVE  members \cap alive = {} /\ pid \notin alive
  <2>1. CleanRemove
    BY <1>1 DEF Next, Host, Exit, Fork, Restart, Script, Locate, Verify, List,
       FirstSignal, PoliteGroup, PoliteScan, PoliteTree, Poll, WaitOver, CheckResult,
       CheckPort, CleanCheck, vars, world
  <2>2. QED
    BY <1>1, <2>1 DEF CleanRemove, IInv, Verdict
<1>2. IInv /\ [Next]_vars =>
        [staging /\ ~staging' => members \cap alive = {} /\ pid \notin alive]_vars
  BY <1>1
<1>3. QED
  BY <1>2, Invariance, PTL DEF Spec, StagingOutlivesInstance
=============================================================================

--------------------------------- MODULE Panel ---------------------------------
(***************************************************************************)
(* The life of the browser panel, scripts/tools/monitor_kv_offload_web.py: *)
(* --start, the foreground mode, --stop and the pidfile that connects them *)
(* (l.86-241 and main, l.1198-1248).                                       *)
(*                                                                         *)
(* All commands concern one serving port.  A panel process is named by its *)
(* pid; once it is gone the kernel may give the pid to a stranger.         *)
(***************************************************************************)
EXTENDS Integers, FiniteSets

CONSTANTS
  Panels,      \* panel processes, each with its own pid
  Background,  \* those forked by --start; the others run in the foreground
  Stops,       \* invocations of --stop
  ParentPolls, \* what fits into the parent's 10 seconds (l.225)
  StopPolls,   \* the 50 of l.178
  Overlap,     \* may a panel be starting while a --stop runs?
  NoFile,      \* there is no pidfile
  Empty        \* the pidfile has been truncated and not yet written

ASSUME PanelAssumption ==
  /\ Background \subseteq Panels
  /\ ParentPolls \in Nat /\ StopPolls \in Nat
  /\ Overlap \in BOOLEAN
  /\ NoFile \notin Panels /\ Empty \notin Panels /\ NoFile # Empty

VARIABLES
  pc,       \* where each panel process is
  asked,    \* panels whose SIGTERM handler has asked serve_forever to stop
  pidfile,  \* what panel-<port>.pid holds
  parent,   \* the --start parent of each background panel
  tries,    \* its polls so far
  reported, \* the pid it printed
  spc,      \* where each --stop is
  spid,     \* the pid it read
  waited,   \* its polls so far
  code,     \* its exit code, or -1
  hit       \* strangers that received SIGTERM

panelVars  == <<pc, asked>>
parentVars == <<parent, tries, reported>>
stopVars   == <<spc, spid, waited, code>>
vars == <<panelVars, pidfile, parentVars, stopVars, hit>>

Publishing == {"bind", "truncate", "write"}
Handling   == {"sample", "serve"}
Published  == {"handlers"} \cup Handling
Bound      == {"truncate", "write", "cleanup", "exit"} \cup Published
PCs        == {"unborn", "gone", "stranger"} \cup Publishing \cup Bound
StopPCs    == {"idle", "read", "alive", "ours", "kill", "wait", "remove", "stale",
               "done"}

\* Every variable has its type; no wait exceeds its bound, and two panels never
\* listen on the port at once.
TypeOK ==
  /\ pc \in [Panels -> PCs]
  /\ asked \subseteq Panels
  /\ pidfile \in Panels \cup {NoFile, Empty}
  /\ parent \in [Background -> {"none", "waiting", "started", "failed"}]
  /\ tries \in [Background -> 0..ParentPolls]
  /\ reported \in [Background -> Panels \cup {NoFile}]
  /\ spc \in [Stops -> StopPCs]
  /\ spid \in [Stops -> Panels \cup {NoFile}]
  /\ waited \in [Stops -> 0..StopPolls]
  /\ code \in [Stops -> {-1, 0, 1, 2}]
  /\ hit \subseteq Panels
  /\ \A p, q \in Panels : pc[p] \in Bound /\ pc[q] \in Bound => p = q

\* _pid_alive: the pid is somebody's.
Alive(p) == pc[p] \notin {"unborn", "gone"}

\* _pid_is_ours: that somebody is this script on this port.
\* (The mutant trusts the pidfile.)
MutantIsOurs(p) == Alive(p)
IsOurs(p) == pc[p] \in Publishing \cup Bound

-----------------------------------------------------------------------------
(* A panel process.                                                        *)

Move(p, from, to) == pc[p] = from /\ pc' = [pc EXCEPT ![p] = to]

\* main() is entered, in the foreground or in the child that --start forked.
Start(p) ==
  /\ Overlap \/ \A s \in Stops : spc[s] \in {"idle", "done"}
  /\ Move(p, "unborn", "bind")
  /\ parent' = IF p \in Background THEN [parent EXCEPT ![p] = "waiting"] ELSE parent
  /\ UNCHANGED <<asked, pidfile, tries, reported, stopVars, hit>>

\* l.1206-1212: bind before publishing; a clash ends the process with the pidfile
\* left alone.  (The mutant lets the clash run through main's finally.)
PortTaken == \E q \in Panels : pc[q] \in Bound

MutantBind(p) ==
  /\ Move(p, "bind", IF PortTaken THEN "cleanup" ELSE "truncate")
  /\ UNCHANGED <<asked, pidfile, parentVars, stopVars, hit>>

Bind(p) ==
  /\ Move(p, "bind", IF PortTaken THEN "gone" ELSE "truncate")
  /\ UNCHANGED <<asked, pidfile, parentVars, stopVars, hit>>

\* l.1218: open(pidfile, "w") ...
Truncate(p) ==
  /\ Move(p, "truncate", "write")
  /\ pidfile' = Empty
  /\ UNCHANGED <<asked, parentVars, stopVars, hit>>

\* ... and the pid is written when the file is closed.
Write(p) ==
  /\ Move(p, "write", "handlers")
  /\ pidfile' = p
  /\ UNCHANGED <<asked, parentVars, stopVars, hit>>

\* l.1221-1227.
Handlers(p) ==
  /\ Move(p, "handlers", "sample")
  /\ UNCHANGED <<asked, pidfile, parentVars, stopVars, hit>>

\* l.1236: the first sample, which may also raise.
Sample(p) ==
  /\ \/ Move(p, "sample", "serve")
     \/ Move(p, "sample", "cleanup")
  /\ UNCHANGED <<asked, pidfile, parentVars, stopVars, hit>>

\* l.1237: serve_forever returns once shutdown() was asked for, before or after it
\* was entered.  (The mutant's handler calls shutdown() itself, and waits for ever
\* for the loop it interrupted; l.1222-1223 warn of that.)
MutantServe(p) ==
  /\ pc[p] = "serve" /\ p \in asked
  /\ UNCHANGED vars

Serve(p) ==
  /\ Move(p, "serve", "cleanup") /\ p \in asked
  /\ UNCHANGED <<asked, pidfile, parentVars, stopVars, hit>>

\* l.1240-1247: the pidfile is removed, whatever it holds ...
Cleanup(p) ==
  /\ Move(p, "cleanup", "exit")
  /\ pidfile' = NoFile
  /\ UNCHANGED <<asked, parentVars, stopVars, hit>>

\* ... but the port is only freed when the process is gone.
Exit(p) ==
  /\ Move(p, "exit", "gone")
  /\ UNCHANGED <<asked, pidfile, parentVars, stopVars, hit>>

\* SIGKILL, out of memory, a reboot.
Crash(p) ==
  /\ IsOurs(p)
  /\ pc' = [pc EXCEPT ![p] = "gone"]
  /\ UNCHANGED <<asked, pidfile, parentVars, stopVars, hit>>

\* A stranger is given the pid; not within the instant between a --stop's look at
\* the command line and its kill.
Recycle(p) ==
  /\ \A s \in Stops : spc[s] = "kill" => spid[s] # p
  /\ Move(p, "gone", "stranger")
  /\ UNCHANGED <<asked, pidfile, parentVars, stopVars, hit>>

Panel(p) == \/ Bind(p) \/ Truncate(p) \/ Write(p) \/ Handlers(p) \/ Sample(p)
            \/ Serve(p) \/ Cleanup(p) \/ Exit(p)

-----------------------------------------------------------------------------
(* The parent of --start, l.224-233.                                       *)

\* It prints the first live pid it finds in the pidfile.
ParentSees(p) ==
  /\ parent[p] = "waiting" /\ tries[p] < ParentPolls
  /\ pidfile \in Panels /\ Alive(pidfile)
  /\ parent' = [parent EXCEPT ![p] = "started"]
  /\ reported' = [reported EXCEPT ![p] = pidfile]
  /\ UNCHANGED <<panelVars, pidfile, tries, stopVars, hit>>

ParentWaits(p) ==
  /\ parent[p] = "waiting" /\ tries[p] < ParentPolls
  /\ pidfile \in Panels => ~Alive(pidfile)
  /\ tries' = [tries EXCEPT ![p] = @ + 1]
  /\ UNCHANGED <<panelVars, pidfile, parent, reported, stopVars, hit>>

ParentGivesUp(p) ==
  /\ parent[p] = "waiting" /\ tries[p] = ParentPolls
  /\ parent' = [parent EXCEPT ![p] = "failed"]
  /\ UNCHANGED <<panelVars, pidfile, tries, reported, stopVars, hit>>

Parent(p) == ParentSees(p) \/ ParentWaits(p) \/ ParentGivesUp(p)

-----------------------------------------------------------------------------
(* stop_panel, l.152-188.                                                  *)

StopGoto(s, from, to) == spc[s] = from /\ spc' = [spc EXCEPT ![s] = to]

Return(s, from, c) == StopGoto(s, from, "done") /\ code' = [code EXCEPT ![s] = c]

StopStart(s) ==
  /\ Overlap \/ \A p \in Panels : pc[p] \notin Publishing
  /\ StopGoto(s, "idle", "read")
  /\ UNCHANGED <<panelVars, pidfile, parentVars, spid, waited, code, hit>>

\* l.158-162.
ReadPid(s) ==
  /\ \/ /\ pidfile \in Panels
        /\ spid' = [spid EXCEPT ![s] = pidfile]
        /\ StopGoto(s, "read", "alive")
        /\ UNCHANGED code
     \/ /\ pidfile \notin Panels
        /\ Return(s, "read", 2)
        /\ UNCHANGED spid
  /\ UNCHANGED <<panelVars, pidfile, parentVars, waited, hit>>

\* l.163.
CheckAlive(s) ==
  /\ spc[s] = "alive"
  /\ StopGoto(s, "alive", IF Alive(spid[s]) THEN "ours" ELSE "stale")
  /\ UNCHANGED <<panelVars, pidfile, parentVars, spid, waited, code, hit>>

\* l.165-169: whatever the pidfile holds by now is removed.
RemoveStale(s) ==
  /\ Return(s, "stale", 2)
  /\ pidfile' = NoFile
  /\ UNCHANGED <<panelVars, parentVars, spid, waited, hit>>

\* l.170-172.
CheckOurs(s) ==
  /\ spc[s] = "ours"
  /\ \/ IsOurs(spid[s]) /\ StopGoto(s, "ours", "kill") /\ UNCHANGED code
     \/ ~IsOurs(spid[s]) /\ Return(s, "ours", 1)
  /\ UNCHANGED <<panelVars, pidfile, parentVars, spid, waited, hit>>

\* l.174-177.  Without its handler a panel dies on the spot; with it, it is asked to
\* stop serving; a process that is gone is ignored.
Kill(s) ==
  LET p == spid[s] IN
  /\ StopGoto(s, "kill", "wait")
  /\ pc' = [pc EXCEPT ![p] = IF @ \in Publishing \cup {"handlers"} THEN "gone" ELSE @]
  /\ asked' = IF pc[p] \in Handling THEN asked \cup {p} ELSE asked
  /\ hit' = IF pc[p] = "stranger" THEN hit \cup {p} ELSE hit
  /\ UNCHANGED <<pidfile, parentVars, spid, waited, code>>

\* l.178-188.  (The mutant reports success when its patience ends.)
MutantStopWait(s) ==
  /\ spc[s] = "wait"
  /\ \/ /\ waited[s] < StopPolls /\ ~Alive(spid[s])
        /\ StopGoto(s, "wait", "remove") /\ UNCHANGED <<waited, code>>
     \/ /\ waited[s] < StopPolls /\ Alive(spid[s])
        /\ StopGoto(s, "wait", "wait")
        /\ waited' = [waited EXCEPT ![s] = @ + 1]
        /\ UNCHANGED code
     \/ waited[s] = StopPolls /\ Return(s, "wait", 0) /\ UNCHANGED waited
  /\ UNCHANGED <<panelVars, pidfile, parentVars, spid, hit>>

StopWait(s) ==
  /\ spc[s] = "wait"
  /\ \/ /\ waited[s] < StopPolls /\ ~Alive(spid[s])
        /\ StopGoto(s, "wait", "remove") /\ UNCHANGED <<waited, code>>
     \/ /\ waited[s] < StopPolls /\ Alive(spid[s])
        /\ StopGoto(s, "wait", "wait")
        /\ waited' = [waited EXCEPT ![s] = @ + 1]
        /\ UNCHANGED code
     \/ waited[s] = StopPolls /\ Return(s, "wait", 1) /\ UNCHANGED waited
  /\ UNCHANGED <<panelVars, pidfile, parentVars, spid, hit>>

\* l.180-185.
Remove(s) ==
  /\ Return(s, "remove", 0)
  /\ pidfile' = NoFile
  /\ UNCHANGED <<panelVars, parentVars, spid, waited, hit>>

Stop(s) == \/ ReadPid(s) \/ CheckAlive(s) \/ RemoveStale(s) \/ CheckOurs(s)
           \/ Kill(s) \/ StopWait(s) \/ Remove(s)

-----------------------------------------------------------------------------
Init ==
  /\ pc = [p \in Panels |-> "unborn"]
  /\ asked = {} /\ hit = {}
  /\ pidfile = NoFile
  /\ parent = [p \in Background |-> "none"]
  /\ tries = [p \in Background |-> 0]
  /\ reported = [p \in Background |-> NoFile]
  /\ spc = [s \in Stops |-> "idle"]
  /\ spid = [s \in Stops |-> NoFile]
  /\ waited = [s \in Stops |-> 0]
  /\ code = [s \in Stops |-> -1]

Next ==
  \/ \E p \in Panels : Start(p) \/ Panel(p) \/ Crash(p) \/ Recycle(p)
  \/ \E p \in Background : Parent(p)
  \/ \E s \in Stops : StopStart(s) \/ Stop(s)

\* Every process gets to run.  A sample ends: each of its reads has a timeout or is
\* local (monitor_kv_offload.py:213,224).
Spec ==
  /\ Init /\ [][Next]_vars
  /\ \A p \in Panels : WF_vars(Panel(p))
  /\ \A p \in Background : WF_vars(Parent(p))
  /\ \A s \in Stops : WF_vars(Stop(s))

-----------------------------------------------------------------------------
(* Properties.                                                             *)

\* A stale pidfile never gets a stranger killed that was given the panel's pid.
StrangersNotSignalled == hit = {}

\* A panel that serves can be stopped: the pidfile names it, also after earlier
\* crashes, clashes over the port (l.1206-1207) and stops.
ServingIsStoppable == \A p \in Panels : pc[p] \in Published => pidfile = p

\* Exit code 0: the panel that was told to stop is gone.
StopZeroMeansGone ==
  \A s \in Stops : code[s] = 0 => ~IsOurs(spid[s])

\* Exit code 2, "was not running": no panel was serving.
StopTwoMeansNone ==
  [][\A s \in Stops : code[s] = -1 /\ code'[s] = 2 =>
       \A p \in Panels : pc[p] \notin Published]_vars

\* A panel that was told to stop goes away, also when the signal arrives during the
\* first sample, before serve_forever has been entered.
AskedPanelEnds == \A p \in Panels : (p \in asked) ~> ~IsOurs(p)

\* The commands keep what PortSlot promises: the port is held by whoever has bound it, and
\* a panel is up between publishing itself and leaving serve_forever.
Slot == INSTANCE PortSlot WITH
  Nobody <- NoFile,
  holder <- IF PortTaken THEN CHOOSE p \in Panels : pc[p] \in Bound ELSE NoFile,
  up <- \E p \in Panels : pc[p] \in Published,
  ended <- {p \in Panels : pc[p] \in {"gone", "stranger"}},
  found <- spid,
  answer <- code

\* One panel at a time, exit codes that tell the truth about the panel found and the port,
\* and an answer of every --stop that has found one.
KeepsSlot == Slot!Spec
=============================================================================

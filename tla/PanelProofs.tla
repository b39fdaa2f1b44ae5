------------------------------ MODULE PanelProofs ------------------------------
(***************************************************************************)
(* The safety of the panel's pidfile protocol, for any number of panels    *)
(* and --stop commands and any patience, when no panel is being started    *)
(* while a --stop runs.                                                    *)
(***************************************************************************)
EXTENDS Panel, TLAPS

Dead(p) == pc[p] \in {"gone", "stranger"}

Types ==
  /\ pc \in [Panels -> PCs]
  /\ pidfile \in Panels \cup {NoFile, Empty}
  /\ spc \in [Stops -> StopPCs]
  /\ spid \in [Stops -> Panels \cup {NoFile}]
  /\ code \in [Stops -> {-1, 0, 1, 2}]

OnePerPort ==
  \A p, q \in Panels : pc[p] \in Bound /\ pc[q] \in Bound => p = q

Running == StopPCs \ {"idle", "done"}
Holding == Running \ {"read"}

\* Nothing is being started while a --stop runs.
Apart ==
  (\E s \in Stops : spc[s] \in Running) => \A p \in Panels : pc[p] \notin Publishing

\* A --stop past its read holds the pid of a panel that was started, and that is the
\* one that serves, if one does.
StopAim(s) ==
  /\ spc[s] \in Holding =>
       /\ spid[s] \in Panels
       /\ \A p \in Panels : pc[p] \in Published => spid[s] = p
  /\ spid[s] \in Panels => pc[spid[s]] # "unborn"
  /\ spc[s] = "kill" => pc[spid[s]] # "stranger"
  /\ spc[s] \in {"remove", "stale"} => Dead(spid[s])
  /\ code[s] # -1 => spc[s] = "done"
  /\ code[s] = 0 => spid[s] \in Panels /\ Dead(spid[s])

IInv ==
  /\ Types
  /\ OnePerPort
  /\ Apart
  /\ \A s \in Stops : StopAim(s)
  /\ pidfile \in Panels => pc[pidfile] # "unborn"
  /\ ServingIsStoppable
  /\ StrangersNotSignalled

-----------------------------------------------------------------------------
(* Steps of panels.                                                        *)

\* A panel process that moves on keeps the invariant, whatever it does to the
\* pidfile, if what serves afterwards is what the pidfile names.
LEMMA PanelMoves ==
  ASSUME IInv, NEW p \in Panels, NEW to \in PCs \ {"unborn"},
         pc' = [pc EXCEPT ![p] = to], UNCHANGED <<stopVars, hit>>,
         to \in Bound => pc[p] \in Bound \/ ~PortTaken,
         to \in Publishing => pc[p] \in Publishing \/ \A s \in Stops : spc[s] \notin Running,
         to \in Published => pc[p] \in Published \cup Publishing,
         to = "stranger" => \A s \in Stops : spc[s] = "kill" => spid[s] # p,
         Dead(p) => to \in {"gone", "stranger"},
         pidfile' \in {pidfile, NoFile, Empty, p},
         \A q \in Panels : pc'[q] \in Published => pidfile' = q
  PROVE  IInv'
<1>1. pc'[p] = to /\ \A q \in Panels \ {p} : pc'[q] = pc[q]
  BY DEF IInv, Types
<1>2. Types'
  BY DEF IInv, Types, stopVars
<1>3. OnePerPort'
  BY <1>1 DEF IInv, OnePerPort, PortTaken
<1>4. Apart'
  BY <1>1 DEF IInv, Apart, stopVars
<1>5. ASSUME NEW s \in Stops PROVE StopAim(s)'
  <2>1. StopAim(s) /\ spc' = spc /\ spid' = spid /\ code' = code
    BY DEF IInv, stopVars
  <2>2. spc[s] \in Holding =>
          spid[s] \in Panels /\ \A q \in Panels : pc'[q] \in Published => spid[s] = q
    <3>1. spc[s] \in Holding => pc[p] \notin Publishing
      BY DEF IInv, Apart, Holding
    <3>2. QED
      BY <1>1, <2>1, <3>1 DEF StopAim
  <2>3. spid[s] \in Panels => pc'[spid[s]] # "unborn"
    BY <1>1, <2>1 DEF StopAim
  <2>4. spc[s] = "kill" => pc'[spid[s]] # "stranger"
    BY <1>1, <2>1 DEF StopAim, Holding, Running, StopPCs
  <2>5. spid[s] \in Panels /\ Dead(spid[s]) => Dead(spid[s])'
    BY <1>1, <2>1 DEF Dead
  <2>6. spc[s] \in {"remove", "stale"} => spc[s] \in Holding
    BY DEF Holding, Running, StopPCs
  <2>7. QED
    BY <2>1, <2>2, <2>3, <2>4, <2>5, <2>6 DEF StopAim
<1>6. (pidfile \in Panels => pc[pidfile] # "unborn")'
  BY <1>1, PanelAssumption DEF IInv
<1>7. ServingIsStoppable' /\ StrangersNotSignalled'
  BY DEF IInv, ServingIsStoppable, StrangersNotSignalled
<1>8. QED
  BY <1>2, <1>3, <1>4, <1>5, <1>6, <1>7 DEF IInv

LEMMA PanelSteps ==
  ASSUME IInv, ~Overlap, NEW p \in Panels,
         Start(p) \/ Panel(p) \/ Crash(p) \/ Recycle(p)
  PROVE  IInv'
<1> USE DEF Move, PCs, Bound, Publishing, Published, Handling, Dead
<1>1. \A q \in Panels : pc[q] \in Published => pidfile = q
  BY DEF IInv, ServingIsStoppable
<1>2. \A q \in Panels \ {p} : pc[p] \in Bound => pc[q] \notin Bound
  BY DEF IInv, OnePerPort
<1>3. \A f \in PCs : pc' = [pc EXCEPT ![p] = f] =>
        pc'[p] = f /\ \A q \in Panels \ {p} : pc'[q] = pc[q]
  BY DEF IInv, Types
<1>4. CASE Start(p)
  <2>1. pc' = [pc EXCEPT ![p] = "bind"] /\ pc[p] = "unborn" /\ pidfile' = pidfile
    BY <1>4 DEF Start
  <2>2. \A s \in Stops : spc[s] \notin Running
    BY <1>4 DEF Start, Running
  <2>3. \A q \in Panels : pc'[q] \in Published => pidfile' = q
    BY <1>1, <1>3, <2>1
  <2>4. QED
    BY <1>4, <2>1, <2>2, <2>3, PanelMoves DEF Start
<1>5. CASE Bind(p)
  <2>1. PICK to \in {"gone", "truncate"} :
          /\ pc' = [pc EXCEPT ![p] = to] /\ pc[p] = "bind" /\ pidfile' = pidfile
          /\ to = "truncate" => ~PortTaken
    BY <1>5 DEF Bind
  <2>2. \A q \in Panels : pc'[q] \in Published => pidfile' = q
    BY <1>1, <1>3, <2>1
  <2>3. QED
    BY <1>5, <2>1, <2>2, PanelMoves DEF Bind
<1>6. CASE Truncate(p)
  <2>1. pc' = [pc EXCEPT ![p] = "write"] /\ pc[p] = "truncate" /\ pidfile' = Empty
    BY <1>6 DEF Truncate
  <2>2. \A q \in Panels : pc'[q] \in Published => pidfile' = q
    BY <1>2, <1>3, <2>1
  <2>3. QED
    BY <1>6, <2>1, <2>2, PanelMoves DEF Truncate
<1>7. CASE Write(p)
  <2>1. pc' = [pc EXCEPT ![p] = "handlers"] /\ pc[p] = "write" /\ pidfile' = p
    BY <1>7 DEF Write
  <2>2. \A q \in Panels : pc'[q] \in Published => pidfile' = q
    BY <1>2, <1>3, <2>1
  <2>3. QED
    BY <1>7, <2>1, <2>2, PanelMoves DEF Write
<1>8. CASE Handlers(p)
  <2>1. pc' = [pc EXCEPT ![p] = "sample"] /\ pc[p] = "handlers" /\ pidfile' = pidfile
    BY <1>8 DEF Handlers
  <2>2. \A q \in Panels : pc'[q] \in Published => pidfile' = q
    BY <1>1, <1>3, <2>1
  <2>3. QED
    BY <1>8, <2>1, <2>2, PanelMoves DEF Handlers
<1>9. CASE Sample(p)
  <2>1. PICK to \in {"serve", "cleanup"} :
          pc' = [pc EXCEPT ![p] = to] /\ pc[p] = "sample" /\ pidfile' = pidfile
    BY <1>9 DEF Sample
  <2>2. \A q \in Panels : pc'[q] \in Published => pidfile' = q
    BY <1>1, <1>3, <2>1
  <2>3. QED
    BY <1>9, <2>1, <2>2, PanelMoves DEF Sample
<1>10. CASE Serve(p)
  <2>1. pc' = [pc EXCEPT ![p] = "cleanup"] /\ pc[p] = "serve" /\ pidfile' = pidfile
    BY <1>10 DEF Serve
  <2>2. \A q \in Panels : pc'[q] \in Published => pidfile' = q
    BY <1>1, <1>3, <2>1
  <2>3. QED
    BY <1>10, <2>1, <2>2, PanelMoves DEF Serve
<1>11. CASE Cleanup(p)
  <2>1. pc' = [pc EXCEPT ![p] = "exit"] /\ pc[p] = "cleanup" /\ pidfile' = NoFile
    BY <1>11 DEF Cleanup
  <2>2. \A q \in Panels : pc'[q] \in Published => pidfile' = q
    BY <1>2, <1>3, <2>1
  <2>3. QED
    BY <1>11, <2>1, <2>2, PanelMoves DEF Cleanup
<1>12. CASE Exit(p) \/ Crash(p)
  <2>1. pc' = [pc EXCEPT ![p] = "gone"] /\ pidfile' = pidfile /\ UNCHANGED <<stopVars, hit>>
    BY <1>12 DEF Exit, Crash
  <2>2. \A q \in Panels : pc'[q] \in Published => pidfile' = q
    BY <1>1, <1>3, <2>1
  <2>3. QED
    BY <2>1, <2>2, PanelMoves
<1>13. CASE Recycle(p)
  <2>1. pc' = [pc EXCEPT ![p] = "stranger"] /\ pidfile' = pidfile
    BY <1>13 DEF Recycle
  <2>2. \A q \in Panels : pc'[q] \in Published => pidfile' = q
    BY <1>1, <1>3, <2>1
  <2>3. QED
    BY <1>13, <2>1, <2>2, PanelMoves DEF Recycle
<1>14. QED
  BY <1>4, <1>5, <1>6, <1>7, <1>8, <1>9, <1>10, <1>11, <1>12, <1>13 DEF Panel

-----------------------------------------------------------------------------
(* Steps of --stop.                                                        *)

\* A --stop that moves on without a signal keeps the invariant if it aims well
\* afterwards and removes the pidfile only when nobody serves.
LEMMA StopMoves ==
  ASSUME IInv, NEW s \in Stops, NEW to \in StopPCs,
         spc' = [spc EXCEPT ![s] = to],
         spid' \in [Stops -> Panels \cup {NoFile}],
         code' \in [Stops -> {-1, 0, 1, 2}],
         \A t \in Stops \ {s} : spid'[t] = spid[t] /\ code'[t] = code[t],
         UNCHANGED <<pc, hit>>,
         to \in Running =>
           spc[s] \in Running \/ \A p \in Panels : pc[p] \notin Publishing,
         StopAim(s)',
         pidfile' = pidfile \/
           (pidfile' = NoFile /\ \A p \in Panels : pc[p] \notin Published)
  PROVE  IInv'
<1>1. spc'[s] = to /\ \A t \in Stops \ {s} : spc'[t] = spc[t]
  BY DEF IInv, Types
<1>2. Types'
  BY DEF IInv, Types
<1>3. OnePerPort' /\ StrangersNotSignalled'
  BY DEF IInv, OnePerPort, StrangersNotSignalled
<1>4. Apart'
  BY <1>1 DEF IInv, Apart
<1>5. ASSUME NEW t \in Stops PROVE StopAim(t)'
  BY <1>1 DEF IInv, StopAim, Dead
<1>6. ServingIsStoppable' /\ (pidfile \in Panels => pc[pidfile] # "unborn")'
  BY PanelAssumption DEF IInv, ServingIsStoppable
<1>7. QED
  BY <1>2, <1>3, <1>4, <1>5, <1>6 DEF IInv

LEMMA StopSteps ==
  ASSUME IInv, ~Overlap, NEW s \in Stops, StopStart(s) \/ Stop(s)
  PROVE  IInv'
<1> USE DEF StopGoto, Return, StopPCs, Running, Holding
<1>1. StopAim(s) /\ Types
  BY DEF IInv
<1>2. CASE StopStart(s)
  <2>1. StopAim(s)'
    BY <1>1, <1>2 DEF StopStart, Types, StopAim, panelVars, Dead
  <2>2. QED
    BY <1>1, <1>2, <2>1, StopMoves DEF StopStart, panelVars, Types
<1>3. CASE ReadPid(s)
  <2>1. StopAim(s)'
    BY <1>1, <1>3, PanelAssumption DEF ReadPid, Types, StopAim, panelVars, Dead, IInv,
       ServingIsStoppable
  <2>2. QED
    BY <1>1, <1>3, <2>1, StopMoves DEF ReadPid, panelVars, Types
<1>4. CASE CheckAlive(s)
  <2>1. StopAim(s)'
    BY <1>1, <1>4 DEF CheckAlive, Types, StopAim, panelVars, Dead, Alive
  <2>2. QED
    BY <1>1, <1>4, <2>1, StopMoves DEF CheckAlive, panelVars, Types
<1>5. ASSUME spc[s] \in {"stale", "remove"} PROVE \A p \in Panels : pc[p] \notin Published
  BY <1>1, <1>5 DEF StopAim, Dead, Published, Handling
<1>6. CASE RemoveStale(s)
  <2>1. StopAim(s)'
    BY <1>1, <1>6 DEF RemoveStale, Types, StopAim, panelVars, Dead
  <2>2. QED
    BY <1>1, <1>5, <1>6, <2>1, StopMoves DEF RemoveStale, panelVars, Types
<1>7. CASE CheckOurs(s)
  <2>1. StopAim(s)'
    BY <1>1, <1>7 DEF CheckOurs, Types, StopAim, panelVars, Dead, IsOurs, Publishing,
       Bound, Published, Handling
  <2>2. QED
    BY <1>1, <1>7, <2>1, StopMoves DEF CheckOurs, panelVars, Types
<1>8. CASE Kill(s)
  <2> DEFINE p == spid[s]
  <2>1. p \in Panels /\ pc[p] \notin {"stranger", "unborn"} /\ spc[s] = "kill"
    BY <1>1, <1>8 DEF Kill, StopAim
  <2>2. pc[p] \notin Publishing
    BY <2>1 DEF IInv, Apart
  <2>3. hit' = hit /\ pidfile' = pidfile /\ spid' = spid /\ code' = code
        /\ spc' = [spc EXCEPT ![s] = "wait"]
    BY <1>8, <2>1 DEF Kill
  <2>4. /\ pc' \in [Panels -> PCs]
        /\ \A q \in Panels : pc'[q] = pc[q] \/ (q = p /\ pc'[q] = "gone")
    BY <1>1, <1>8, <2>1 DEF Kill, Types, PCs
  <2>5. \A q \in Panels : /\ pc'[q] \in Bound => pc[q] \in Bound
                          /\ pc'[q] \in Published => pc[q] \in Published
                          /\ pc'[q] \in Publishing => pc[q] \in Publishing
                          /\ pc'[q] = "stranger" => pc[q] = "stranger"
                          /\ pc'[q] = "unborn" => pc[q] = "unborn"
                          /\ Dead(q) => Dead(q)'
    BY <2>4 DEF Bound, Published, Publishing, Handling, Dead
  <2>6. Types'
    BY <1>1, <2>3, <2>4 DEF Types
  <2>7. OnePerPort' /\ StrangersNotSignalled' /\ ServingIsStoppable'
        /\ (pidfile \in Panels => pc[pidfile] # "unborn")'
    BY <2>3, <2>5 DEF IInv, OnePerPort, StrangersNotSignalled, ServingIsStoppable
  <2>8. Apart'
    BY <1>1, <2>1, <2>3, <2>5 DEF IInv, Apart, Types
  <2>9. ASSUME NEW t \in Stops PROVE StopAim(t)'
    <3>1. StopAim(t)
      BY DEF IInv
    <3>2. spc'[t] = spc[t] \/ (t = s /\ spc'[t] = "wait")
      BY <1>1, <2>3 DEF Types
    <3>3. QED
      BY <2>1, <2>3, <2>5, <3>1, <3>2 DEF StopAim
  <2>10. QED
    BY <2>6, <2>7, <2>8, <2>9 DEF IInv
<1>9. CASE StopWait(s)
  <2>1. StopAim(s)'
    BY <1>1, <1>9 DEF StopWait, Types, StopAim, panelVars, Dead, Alive
  <2>2. QED
    BY <1>1, <1>9, <2>1, StopMoves DEF StopWait, panelVars, Types
<1>10. CASE Remove(s)
  <2>1. StopAim(s)'
    BY <1>1, <1>10 DEF Remove, Types, StopAim, panelVars, Dead
  <2>2. QED
    BY <1>1, <1>5, <1>10, <2>1, StopMoves DEF Remove, panelVars, Types
<1>11. QED
  BY <1>2, <1>3, <1>4, <1>6, <1>7, <1>8, <1>9, <1>10 DEF Stop

-----------------------------------------------------------------------------
(* The properties.                                                         *)

LEMMA OtherSteps ==
  ASSUME IInv, UNCHANGED <<pc, pidfile, stopVars, hit>> PROVE IInv'
<1>1. Types' /\ OnePerPort' /\ Apart'
  BY DEF IInv, Types, OnePerPort, Apart, stopVars
<1>2. (\A s \in Stops : StopAim(s))'
  BY DEF IInv, StopAim, Dead, stopVars
<1>3. QED
  BY <1>1, <1>2 DEF IInv, ServingIsStoppable, StrangersNotSignalled

LEMMA InitInv == Init => IInv
  BY PanelAssumption DEF Init, IInv, Types, OnePerPort, Apart, StopAim, PCs, StopPCs, Bound,
     Publishing, Published, Handling, Holding, Running, ServingIsStoppable,
     StrangersNotSignalled

\* With no panel being started while a --stop runs, the invariant holds.
THEOREM Invariance == ASSUME ~Overlap PROVE Spec => []IInv
<1>1. ASSUME IInv, [Next]_vars PROVE IInv'
  <2>1. ASSUME NEW p \in Background, Parent(p) PROVE IInv'
    BY <1>1, <2>1, OtherSteps DEF Parent, ParentSees, ParentWaits, ParentGivesUp, panelVars
  <2>2. CASE UNCHANGED vars
    BY <1>1, <2>2, OtherSteps DEF vars, panelVars
  <2>3. QED
    BY <1>1, <2>1, <2>2, PanelSteps, StopSteps DEF Next
<1>2. QED
  BY <1>1, InitInv, PTL DEF Spec

\* No stranger is signalled.
THEOREM StrangersSafe == ASSUME ~Overlap PROVE Spec => []StrangersNotSignalled
<1>1. IInv => StrangersNotSignalled
  BY DEF IInv
<1>2. QED
  BY <1>1, Invariance, PTL

\* What serves can be stopped.
THEOREM ServingStoppable == ASSUME ~Overlap PROVE Spec => []ServingIsStoppable
<1>1. IInv => ServingIsStoppable
  BY DEF IInv
<1>2. QED
  BY <1>1, Invariance, PTL

\* Exit code 0 means gone.
THEOREM StopZeroGone == ASSUME ~Overlap PROVE Spec => []StopZeroMeansGone
<1>1. IInv => StopZeroMeansGone
  BY DEF IInv, StopAim, StopZeroMeansGone, IsOurs, Dead, Publishing, Bound, Published,
     Handling
<1>2. QED
  BY <1>1, Invariance, PTL

\* Exit code 2 means that nothing was serving.
THEOREM StopTwoNone == ASSUME ~Overlap PROVE Spec => StopTwoMeansNone
<1>1. ASSUME IInv, [Next]_vars, NEW s \in Stops, code[s] = -1, code'[s] = 2
      PROVE  \A p \in Panels : pc[p] \notin Published
  <2>1. PICK t \in Stops : ReadPid(t) \/ CheckAlive(t) \/ RemoveStale(t) \/ CheckOurs(t)
                           \/ Kill(t) \/ StopWait(t) \/ Remove(t)
    BY <1>1 DEF Next, vars, stopVars, Start, Panel, Bind, Truncate, Write, Handlers, Sample,
       Serve, Cleanup, Exit, Crash, Recycle, Parent, ParentSees, ParentWaits,
       ParentGivesUp, StopStart, Stop
  <2>2. t = s /\ (ReadPid(s) \/ RemoveStale(s))
    BY <1>1, <2>1 DEF ReadPid, CheckAlive, RemoveStale, CheckOurs, Kill, StopWait, Remove,
       Return, StopGoto, IInv, Types
  <2>3. CASE ReadPid(s)
    <3>1. pidfile \notin Panels
      BY <1>1, <2>3 DEF ReadPid
    <3>2. QED
      BY <1>1, <3>1 DEF IInv, ServingIsStoppable
  <2>4. CASE RemoveStale(s)
    <3>1. spc[s] = "stale" /\ StopAim(s)
      BY <1>1, <2>4 DEF RemoveStale, Return, StopGoto, IInv
    <3>2. QED
      BY <3>1 DEF StopAim, Dead, Published, Handling, Holding, Running, StopPCs
  <2>5. QED
    BY <2>2, <2>3, <2>4
<1>2. IInv /\ [Next]_vars =>
        [\A s \in Stops : code[s] = -1 /\ code'[s] = 2 =>
           \A p \in Panels : pc[p] \notin Published]_vars
  BY <1>1
<1>3. QED
  BY <1>2, Invariance, PTL DEF Spec, StopTwoMeansNone

-----------------------------------------------------------------------------
(* The panel's commands implement PortSlot: every step of a panel, of a    *)
(* --start parent and of a --stop is a step of the abstract slot or leaves *)
(* it as it is, for any number of panels and commands.                     *)

-----------------------------------------------------------------------------
(* Types.                                                                  *)

\* A --stop past its read knows which panel it is about, and before it does not.
Aimed ==
  \A s \in Stops : /\ spc[s] \in Holding => spid[s] \in Panels
                   /\ spc[s] \in {"idle", "read"} => spid[s] = NoFile

TypeInv == TypeOK /\ Aimed

LEMMA TypeOfPanelSteps ==
  ASSUME TypeInv, NEW p \in Panels, Start(p) \/ Panel(p) \/ Crash(p) \/ Recycle(p)
  PROVE  TypeInv'
<1>1. /\ pc' \in [Panels -> PCs]
      /\ \A q \in Panels : q # p => pc'[q] = pc[q]
      /\ pc'[p] \in Bound => pc[p] \in Bound \/ ~PortTaken
  BY DEF TypeInv, TypeOK, Start, Panel, Bind, Truncate, Write, Handlers, Sample, Serve,
     Cleanup, Exit, Crash, Recycle, Move, PCs, Bound, Published, Publishing, Handling
<1>2. /\ asked' = asked /\ hit' = hit /\ UNCHANGED stopVars
      /\ tries' = tries /\ reported' = reported
      /\ pidfile' \in {pidfile, Empty, p, NoFile}
  BY DEF Start, Panel, Bind, Truncate, Write, Handlers, Sample, Serve, Cleanup, Exit, Crash,
     Recycle, parentVars
<1>3. parent' \in [Background -> {"none", "waiting", "started", "failed"}]
  BY DEF TypeInv, TypeOK, Start, Panel, Bind, Truncate, Write, Handlers, Sample, Serve,
     Cleanup, Exit, Crash, Recycle, parentVars
<1>4. (\A q, r \in Panels : pc[q] \in Bound /\ pc[r] \in Bound => q = r)'
  BY <1>1 DEF TypeInv, TypeOK, PortTaken
<1>5. Aimed'
  BY <1>2 DEF TypeInv, Aimed, stopVars
<1>6. TypeOK'
  BY <1>1, <1>2, <1>3, <1>4 DEF TypeInv, TypeOK, stopVars
<1>7. QED
  BY <1>5, <1>6 DEF TypeInv

LEMMA TypeOfParentSteps ==
  ASSUME TypeInv, NEW p \in Background, Parent(p)
  PROVE  TypeInv'
<1>1. pc' = pc /\ asked' = asked /\ hit' = hit /\ pidfile' = pidfile /\ UNCHANGED stopVars
  BY DEF Parent, ParentSees, ParentWaits, ParentGivesUp, panelVars
<1>2. parent' \in [Background -> {"none", "waiting", "started", "failed"}]
  BY DEF TypeInv, TypeOK, Parent, ParentSees, ParentWaits, ParentGivesUp
<1>3. reported' \in [Background -> Panels \cup {NoFile}]
  BY DEF TypeInv, TypeOK, Parent, ParentSees, ParentWaits, ParentGivesUp
<1>4. tries' \in [Background -> 0..ParentPolls]
  <2>1. tries' = tries \/ (tries[p] < ParentPolls /\ tries' = [tries EXCEPT ![p] = @ + 1])
    BY DEF Parent, ParentSees, ParentWaits, ParentGivesUp
  <2>2. QED
    BY <2>1, PanelAssumption DEF TypeInv, TypeOK
<1>5. QED
  BY <1>1, <1>2, <1>3, <1>4 DEF TypeInv, TypeOK, Aimed, stopVars

LEMMA TypeOfStopSteps ==
  ASSUME TypeInv, NEW s \in Stops, StopStart(s) \/ Stop(s)
  PROVE  TypeInv'
<1>1. UNCHANGED parentVars
  BY DEF StopStart, Stop, ReadPid, CheckAlive, RemoveStale, CheckOurs, Kill, StopWait, Remove
<1>2. /\ spc' \in [Stops -> StopPCs] /\ spid' \in [Stops -> Panels \cup {NoFile}]
      /\ code' \in [Stops -> {-1, 0, 1, 2}] /\ pidfile' \in Panels \cup {NoFile, Empty}
  BY DEF TypeInv, TypeOK, StopStart, Stop, ReadPid, CheckAlive, RemoveStale, CheckOurs, Kill,
     StopWait, Remove, StopGoto, Return, StopPCs
<1>3. waited' \in [Stops -> 0..StopPolls]
  <2>1. waited' = waited \/ (waited[s] < StopPolls /\ waited' = [waited EXCEPT ![s] = @ + 1])
    BY DEF StopStart, Stop, ReadPid, CheckAlive, RemoveStale, CheckOurs, Kill, StopWait,
       Remove
  <2>2. QED
    BY <2>1, PanelAssumption DEF TypeInv, TypeOK
<1>4. /\ pc' \in [Panels -> PCs] /\ asked' \subseteq Panels /\ hit' \subseteq Panels
      /\ \A q \in Panels : pc'[q] \in Bound => pc[q] \in Bound
  <2>1. CASE Kill(s)
    <3>1. spid[s] \in Panels
      BY <2>1 DEF Kill, StopGoto, TypeInv, Aimed, Holding, Running, StopPCs
    <3>2. QED
      BY <2>1, <3>1 DEF Kill, TypeInv, TypeOK, PCs, Bound, Published, Handling
  <2>2. CASE ~Kill(s)
    <3>1. pc' = pc /\ asked' = asked /\ hit' = hit
      BY <2>2 DEF StopStart, Stop, ReadPid, CheckAlive, RemoveStale, CheckOurs, StopWait,
         Remove, panelVars
    <3>2. QED
      BY <3>1 DEF TypeInv, TypeOK
  <2>3. QED
    BY <2>1, <2>2
<1>5. Aimed'
  <2>1. \A t \in Stops : t # s => spc'[t] = spc[t] /\ spid'[t] = spid[t]
    BY DEF TypeInv, TypeOK, StopStart, Stop, ReadPid, CheckAlive, RemoveStale, CheckOurs,
       Kill, StopWait, Remove, StopGoto, Return
  <2>2. /\ spc'[s] \in Holding => spid'[s] \in Panels
        /\ spc'[s] \in {"idle", "read"} => spid'[s] = NoFile
    BY DEF TypeInv, TypeOK, Aimed, StopStart, Stop, ReadPid, CheckAlive, RemoveStale,
       CheckOurs, Kill, StopWait, Remove, StopGoto, Return, Holding, Running, StopPCs
  <2>3. QED
    BY <2>1, <2>2 DEF TypeInv, Aimed
<1>6. TypeOK'
  BY <1>1, <1>2, <1>3, <1>4 DEF TypeInv, TypeOK, parentVars
<1>7. QED
  BY <1>5, <1>6 DEF TypeInv

LEMMA TypeInvariance == Spec => []TypeInv
<1>1. Init => TypeInv
  BY PanelAssumption DEF Init, TypeInv, TypeOK, Aimed, PCs, StopPCs, Bound, Publishing,
     Published, Handling, Holding, Running
<1>2. ASSUME TypeInv, [Next]_vars PROVE TypeInv'
  <2>1. CASE UNCHANGED vars
    BY <1>2, <2>1 DEF vars, panelVars, parentVars, stopVars, TypeInv, TypeOK, Aimed
  <2>2. QED
    BY <1>2, <2>1, TypeOfPanelSteps, TypeOfParentSteps, TypeOfStopSteps DEF Next
<1>3. QED
  BY <1>1, <1>2, PTL DEF Spec

\* Every variable has its type, no wait exceeds its bound, and two panels never listen on
\* the port at once, whether or not starts and stops overlap.
THEOREM TypeCorrect == Spec => []TypeOK
<1>1. TypeInv => TypeOK
  BY DEF TypeInv
<1>2. QED
  BY <1>1, TypeInvariance, PTL

-----------------------------------------------------------------------------
(* The refinement.                                                         *)

Holder == IF PortTaken THEN CHOOSE p \in Panels : pc[p] \in Bound ELSE NoFile
Up == \E p \in Panels : pc[p] \in Published
Ended == {p \in Panels : pc[p] \in {"gone", "stranger"}}

Strong == IInv /\ TypeInv

LEMMA HolderIsBound ==
  ASSUME IInv, NEW p \in Panels
  PROVE  Holder = p <=> pc[p] \in Bound
<1>1. CASE PortTaken
  <2>1. Holder \in Panels /\ pc[Holder] \in Bound
    BY <1>1 DEF Holder, PortTaken
  <2>2. QED
    BY <2>1 DEF IInv, OnePerPort
<1>2. CASE ~PortTaken
  BY <1>2, PanelAssumption DEF Holder, PortTaken
<1>3. QED
  BY <1>1, <1>2

LEMMA HolderIsSomebody == Holder \in Panels \cup {NoFile}
  BY DEF Holder, PortTaken

\* Two states with the same bound panels have the same holder.
LEMMA SameHolder ==
  ASSUME IInv, IInv', \A p \in Panels : pc'[p] \in Bound <=> pc[p] \in Bound
  PROVE  Holder' = Holder
<1>1. \A p \in Panels : Holder = p <=> pc[p] \in Bound
  BY HolderIsBound
<1>2. \A p \in Panels : Holder' = p <=> pc'[p] \in Bound
  <2>1. ASSUME NEW p \in Panels PROVE Holder' = p <=> pc'[p] \in Bound
    <3>1. CASE PortTaken'
      <4>1. Holder' \in Panels /\ pc'[Holder'] \in Bound
        BY <3>1 DEF Holder, PortTaken
      <4>2. QED
        BY <4>1 DEF IInv, OnePerPort
    <3>2. CASE ~PortTaken'
      BY <3>2, PanelAssumption DEF Holder, PortTaken
    <3>3. QED
      BY <3>1, <3>2
  <2>2. QED
    BY <2>1
<1>3. Holder \in Panels \cup {NoFile} /\ Holder' \in Panels \cup {NoFile}
  BY DEF Holder, PortTaken
<1>4. QED
  BY <1>1, <1>2, <1>3

\* The actions of PortSlot, spoken in the panel's terms.
LEMMA AbstractSteps ==
  /\ \A p \in Panels :
       Holder = NoFile /\ p \notin Ended /\ Holder' = p /\ Up' = Up /\ Ended' = Ended
         /\ spid' = spid /\ code' = code => Slot!Next
  /\ Holder # NoFile /\ ~Up /\ Up' = TRUE /\ Holder' = Holder /\ Ended' = Ended
       /\ spid' = spid /\ code' = code => Slot!Next
  /\ Up' = FALSE /\ Holder' = Holder /\ Ended' = Ended
       /\ spid' = spid /\ code' = code => Slot!Next
  /\ \A p \in Panels :
       Ended' = Ended \cup {p} /\ (Holder = p => Holder' = NoFile /\ Up' = FALSE)
         /\ (Holder # p => Holder' = Holder /\ Up' = Up)
         /\ spid' = spid /\ code' = code => Slot!Next
  /\ \A s \in Stops, p \in Panels :
       code[s] = -1 /\ spid[s] = NoFile /\ spid' = [spid EXCEPT ![s] = p]
         /\ Holder' = Holder /\ Up' = Up /\ Ended' = Ended /\ code' = code => Slot!Next
  /\ \A s \in Stops, c \in 0..2 :
       code[s] = -1 /\ (c = 0 => spid[s] \in Ended) /\ (c = 2 => ~Up)
         /\ code' = [code EXCEPT ![s] = c]
         /\ Holder' = Holder /\ Up' = Up /\ Ended' = Ended /\ spid' = spid => Slot!Next
  /\ Holder' = Holder /\ Up' = Up /\ Ended' = Ended /\ spid' = spid /\ code' = code
       => UNCHANGED Slot!slotVars
<1> USE DEF Holder, Up, Ended
<1>1. ASSUME NEW p \in Panels,
             Holder = NoFile /\ p \notin Ended /\ Holder' = p /\ Up' = Up /\ Ended' = Ended
               /\ spid' = spid /\ code' = code
      PROVE  Slot!Next
  BY <1>1 DEF Slot!Next, Slot!Take
<1>2. ASSUME Holder # NoFile /\ ~Up /\ Up' = TRUE /\ Holder' = Holder /\ Ended' = Ended
               /\ spid' = spid /\ code' = code
      PROVE  Slot!Next
  BY <1>2 DEF Slot!Next, Slot!Announce
<1>3. ASSUME Up' = FALSE /\ Holder' = Holder /\ Ended' = Ended
               /\ spid' = spid /\ code' = code
      PROVE  Slot!Next
  BY <1>3 DEF Slot!Next, Slot!Withdraw
<1>4. ASSUME NEW p \in Panels,
             Ended' = Ended \cup {p} /\ (Holder = p => Holder' = NoFile /\ Up' = FALSE)
               /\ (Holder # p => Holder' = Holder /\ Up' = Up)
               /\ spid' = spid /\ code' = code
      PROVE  Slot!Next
  BY <1>4 DEF Slot!Next, Slot!End
<1>5. ASSUME NEW s \in Stops, NEW p \in Panels,
             code[s] = -1 /\ spid[s] = NoFile /\ spid' = [spid EXCEPT ![s] = p]
               /\ Holder' = Holder /\ Up' = Up /\ Ended' = Ended /\ code' = code
      PROVE  Slot!Next
  BY <1>5 DEF Slot!Next, Slot!Find
<1>6. ASSUME NEW s \in Stops, NEW c \in 0..2,
             code[s] = -1 /\ (c = 0 => spid[s] \in Ended) /\ (c = 2 => ~Up)
               /\ code' = [code EXCEPT ![s] = c]
               /\ Holder' = Holder /\ Up' = Up /\ Ended' = Ended /\ spid' = spid
      PROVE  Slot!Next
  BY <1>6 DEF Slot!Next, Slot!Answer
<1>7. ASSUME Holder' = Holder /\ Up' = Up /\ Ended' = Ended /\ spid' = spid /\ code' = code
      PROVE  UNCHANGED Slot!slotVars
  BY <1>7 DEF Slot!slotVars
<1>8. QED
  BY <1>1, <1>2, <1>3, <1>4, <1>5, <1>6, <1>7

AbstractStep == [Slot!Next]_(Slot!slotVars)

\* A step that neither binds nor frees the port, announces nor withdraws a panel, nor ends
\* one, and leaves the commands alone, is none of the slot's.
LEMMA Stutters ==
  ASSUME IInv, IInv', spid' = spid, code' = code,
         \A q \in Panels : /\ pc'[q] \in Bound <=> pc[q] \in Bound
                           /\ pc'[q] \in Published <=> pc[q] \in Published
                           /\ pc'[q] \in {"gone", "stranger"} <=> pc[q] \in {"gone", "stranger"}
  PROVE  AbstractStep
<1>1. Holder' = Holder
  BY SameHolder
<1>2. Up' = Up /\ Ended' = Ended
  BY DEF Up, Ended
<1>3. QED
  BY <1>1, <1>2, AbstractSteps DEF AbstractStep

\* The end of a panel is the slot's End.
LEMMA Ends ==
  ASSUME IInv, IInv', NEW p \in Panels, pc' = [pc EXCEPT ![p] = "gone"],
         spid' = spid, code' = code
  PROVE  AbstractStep
<1>1. pc'[p] = "gone" /\ \A q \in Panels : q # p => pc'[q] = pc[q]
  BY DEF IInv, Types
<1>2. Ended' = Ended \cup {p}
  BY <1>1 DEF Ended
<1>3. CASE pc[p] \in Bound
  <2>1. Holder = p
    BY <1>3, HolderIsBound
  <2>2. \A q \in Panels : pc'[q] \notin Bound
    BY <1>1, <1>3 DEF IInv, OnePerPort, Bound, Published, Handling
  <2>3. Holder' = NoFile
    BY <2>2 DEF Holder, PortTaken
  <2>4. Up' = FALSE
    BY <2>2 DEF Up, Bound
  <2>5. QED
    BY <1>2, <2>1, <2>3, <2>4, AbstractSteps DEF AbstractStep
<1>4. CASE pc[p] \notin Bound
  <2>1. Holder' = Holder
    BY <1>1, <1>4, SameHolder DEF Bound, Published, Handling
  <2>2. Up' = Up
    BY <1>1, <1>4 DEF Up, Bound, Published, Handling
  <2>3. Holder # p
    BY <1>4, HolderIsBound
  <2>4. QED
    BY <1>2, <2>1, <2>2, <2>3, AbstractSteps DEF AbstractStep
<1>5. QED
  BY <1>3, <1>4

LEMMA PanelRefines ==
  ASSUME Strong, Strong', NEW p \in Panels, Start(p) \/ Panel(p) \/ Crash(p) \/ Recycle(p)
  PROVE  AbstractStep
<1> USE DEF Strong, Move
<1>1. spid' = spid /\ code' = code
  BY DEF Start, Panel, Bind, Truncate, Write, Handlers, Sample, Serve, Cleanup, Exit, Crash,
     Recycle, stopVars
<1>2. \A f \in PCs : pc' = [pc EXCEPT ![p] = f] =>
        pc'[p] = f /\ \A q \in Panels : q # p => pc'[q] = pc[q]
  BY DEF IInv, Types
<1>3. CASE Exit(p) \/ Crash(p) \/ (Bind(p) /\ PortTaken)
  <2>1. pc' = [pc EXCEPT ![p] = "gone"]
    BY <1>3 DEF Exit, Crash, Bind
  <2>2. QED
    BY <1>1, <2>1, Ends
<1>4. CASE Bind(p) /\ ~PortTaken
  <2>1. pc[p] = "bind" /\ pc' = [pc EXCEPT ![p] = "truncate"]
    BY <1>4 DEF Bind
  <2>2. pc'[p] = "truncate" /\ \A q \in Panels : q # p => pc'[q] = pc[q]
    BY <1>2, <2>1 DEF PCs, Bound
  <2>3. Holder = NoFile
    BY <1>4 DEF Holder
  <2>4. PortTaken' /\ \A q \in Panels : pc'[q] \in Bound <=> q = p
    BY <1>4, <2>2 DEF PortTaken, Bound
  <2>5. Holder' = p
    BY <2>4 DEF Holder
  <2>6. Up' = Up /\ Ended' = Ended /\ p \notin Ended
    BY <2>1, <2>2 DEF Up, Ended, Published, Handling
  <2>7. QED
    BY <1>1, <2>3, <2>5, <2>6, AbstractSteps DEF AbstractStep
<1>5. CASE Write(p)
  <2>1. pc[p] = "write" /\ pc' = [pc EXCEPT ![p] = "handlers"]
    BY <1>5 DEF Write
  <2>2. pc'[p] = "handlers" /\ \A q \in Panels : q # p => pc'[q] = pc[q]
    BY <1>2, <2>1 DEF PCs, Bound, Published
  <2>3. pc[p] \in Bound /\ Holder = p
    BY <2>1, HolderIsBound DEF Bound
  <2>4. Holder' = Holder
    BY <2>1, <2>2, SameHolder DEF Bound, Published
  <2>5. ~Up
    BY <2>1, <2>3 DEF Up, IInv, OnePerPort, Bound, Published, Handling
  <2>6. Up' = TRUE
    BY <2>2 DEF Up, Published
  <2>7. Ended' = Ended
    BY <2>1, <2>2 DEF Ended
  <2>8. QED
    BY <1>1, <2>3, <2>4, <2>5, <2>6, <2>7, PanelAssumption, AbstractSteps DEF AbstractStep
<1>6. CASE pc[p] \in Handling /\ pc' = [pc EXCEPT ![p] = "cleanup"]
  <2>1. pc'[p] = "cleanup" /\ \A q \in Panels : q # p => pc'[q] = pc[q]
    BY <1>2, <1>6 DEF PCs, Bound
  <2>2. Holder' = Holder
    BY <1>6, <2>1, SameHolder DEF Bound, Published, Handling
  <2>3. Up' = FALSE
    BY <1>6, <2>1 DEF Up, IInv, OnePerPort, Bound, Published, Handling
  <2>4. Ended' = Ended
    BY <1>6, <2>1 DEF Ended, Handling
  <2>5. QED
    BY <1>1, <2>2, <2>3, <2>4, AbstractSteps DEF AbstractStep
<1>7. CASE Start(p) \/ Truncate(p) \/ Handlers(p) \/ Cleanup(p) \/ Recycle(p)
             \/ (pc[p] = "sample" /\ pc' = [pc EXCEPT ![p] = "serve"])
  <2>1. \A q \in Panels : /\ pc'[q] \in Bound <=> pc[q] \in Bound
                          /\ pc'[q] \in Published <=> pc[q] \in Published
                          /\ pc'[q] \in {"gone", "stranger"} <=> pc[q] \in {"gone", "stranger"}
    BY <1>2, <1>7 DEF Start, Truncate, Handlers, Cleanup, Recycle, PCs, Bound, Published,
       Publishing, Handling
  <2>2. QED
    BY <1>1, <2>1, Stutters
<1>8. Sample(p) \/ Serve(p) =>
        \/ pc[p] \in Handling /\ pc' = [pc EXCEPT ![p] = "cleanup"]
        \/ pc[p] = "sample" /\ pc' = [pc EXCEPT ![p] = "serve"]
  BY DEF Sample, Serve, Handling
<1>9. QED
  BY <1>3, <1>4, <1>5, <1>6, <1>7, <1>8 DEF Panel

LEMMA StopRefines ==
  ASSUME Strong, Strong', NEW s \in Stops, StopStart(s) \/ Stop(s)
  PROVE  AbstractStep
<1> USE DEF Strong, StopGoto, Return
<1>1. StopAim(s) /\ Aimed /\ Types
  BY DEF IInv, TypeInv
<1>2. spc[s] # "done" => code[s] = -1
  BY <1>1 DEF StopAim
<1>3. CASE Kill(s)
  <2>1. spid' = spid /\ code' = code /\ spid[s] \in Panels /\ pc[spid[s]] # "unborn"
    BY <1>1, <1>3 DEF Kill, StopAim, Holding, Running, StopPCs
  <2>2. pc' = [pc EXCEPT ![spid[s]] = "gone"] \/ pc' = pc
    BY <1>1, <1>3, <2>1 DEF Kill, Types
  <2>3. QED
    BY <2>1, <2>2, Ends, Stutters
<1>4. ASSUME pc' = pc PROVE Holder' = Holder /\ Up' = Up /\ Ended' = Ended
  BY <1>4, SameHolder DEF Up, Ended
<1>5. CASE ReadPid(s) /\ pidfile \in Panels
  <2>1. spc[s] = "read" /\ spid[s] = NoFile /\ spid' = [spid EXCEPT ![s] = pidfile]
        /\ code' = code /\ pc' = pc
    BY <1>1, <1>5 DEF ReadPid, Aimed, panelVars
  <2>2. QED
    BY <1>2, <1>4, <1>5, <2>1, AbstractSteps DEF AbstractStep
<1>6. ASSUME NEW c \in 0..2, code' = [code EXCEPT ![s] = c], spc[s] # "done",
             spid' = spid, pc' = pc, c = 0 => Dead(spid[s]) /\ spid[s] \in Panels, c = 2 => ~Up
      PROVE  AbstractStep
  BY <1>2, <1>4, <1>6, AbstractSteps DEF AbstractStep, Ended, Dead
<1>7. CASE ReadPid(s) /\ pidfile \notin Panels
  <2>1. ~Up
    BY <1>7 DEF Up, IInv, ServingIsStoppable
  <2>2. QED
    BY <1>6, <1>7, <2>1 DEF ReadPid, panelVars
<1>8. CASE RemoveStale(s)
  <2>1. ~Up
    BY <1>1, <1>8 DEF RemoveStale, Up, StopAim, Dead, Published, Handling, Holding, Running,
       StopPCs
  <2>2. QED
    BY <1>6, <1>8, <2>1 DEF RemoveStale, panelVars
<1>9. CASE Remove(s)
  <2>1. Dead(spid[s]) /\ spid[s] \in Panels
    BY <1>1, <1>9 DEF Remove, StopAim, Holding, Running, StopPCs
  <2>2. QED
    BY <1>6, <1>9, <2>1 DEF Remove, panelVars
<1>10. CASE CheckOurs(s) \/ StopWait(s)
  <2>1. pc' = pc /\ spid' = spid /\ spc[s] # "done"
        /\ (code' = code \/ code' = [code EXCEPT ![s] = 1])
    BY <1>10 DEF CheckOurs, StopWait, panelVars
  <2>2. QED
    BY <1>4, <1>6, <2>1, AbstractSteps DEF AbstractStep
<1>11. CASE StopStart(s) \/ CheckAlive(s)
  <2>1. pc' = pc /\ spid' = spid /\ code' = code
    BY <1>11 DEF StopStart, CheckAlive, panelVars
  <2>2. QED
    BY <1>4, <2>1, AbstractSteps DEF AbstractStep
<1>12. QED
  BY <1>3, <1>5, <1>7, <1>8, <1>9, <1>10, <1>11 DEF Stop

\* With no panel being started while a --stop runs, every behaviour of the panel's commands
\* is one of PortSlot: one holder of the port, and exit codes that are true of it.
THEOREM KeepsSlotSafety == ASSUME ~Overlap PROVE Spec => Slot!Safe
<1>1. Init => Slot!Init
  BY PanelAssumption DEF Init, Slot!Init, PortTaken, Bound, Published, Handling
<1>2. ASSUME Strong, Strong', [Next]_vars PROVE AbstractStep
  <2>1. ASSUME UNCHANGED <<pc, spid, code>> PROVE AbstractStep
    <3>1. Holder' = Holder /\ Up' = Up /\ Ended' = Ended
      BY <2>1 DEF Holder, PortTaken, Up, Ended
    <3>2. QED
      BY <2>1, <3>1, AbstractSteps DEF AbstractStep
  <2>2. ASSUME NEW p \in Background, Parent(p) PROVE AbstractStep
    BY <2>1, <2>2 DEF Parent, ParentSees, ParentWaits, ParentGivesUp, panelVars, stopVars
  <2>3. QED
    BY <1>2, <2>1, <2>2, PanelRefines, StopRefines DEF Next, vars, panelVars, stopVars
<1>3. Spec => [](IInv /\ TypeInv)
  BY Invariance, TypeInvariance, PTL
<1>4. IInv /\ TypeInv /\ (IInv /\ TypeInv)' /\ [Next]_vars => [Slot!Next]_(Slot!slotVars)
  BY <1>2 DEF Strong, AbstractStep
<1>5. QED
  BY <1>1, <1>3, <1>4, PTL DEF Spec, Slot!Safe
================================================================================

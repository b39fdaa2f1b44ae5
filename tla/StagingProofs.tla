----------------------------- MODULE StagingProofs -----------------------------
(***************************************************************************)
(* What scripts/tools/shm_staging.sh and offload_sizing.sh buy when two    *)
(* launches of one engine id never overlap: an engine starts on a region   *)
(* of its own, keeps its file until every rank has mapped it, finds the    *)
(* room its preflight promised, and leaves no page behind once it has been *)
(* stopped -- for any number of launches, profiles and ranks, and any      *)
(* sizes.                                                                  *)
(***************************************************************************)
EXTENDS Staging, FiniteSetTheorems, WellFoundedInduction, NaturalsInduction, TLAPS

\* At most one launch of an engine id has scripts or processes running.
Exclusive ==
  \A l, k \in Launches :
    l # k /\ EngineId[l] = EngineId[k] => Over(l) \/ Over(k)

\* Only a launch that got as far as its engine has processes, they opened a region
\* of that launch, and what is mapped is open.
OwnProcessesOf(l) ==
  \A r \in Ranks :
    /\ <<l, r>> \in mapped => opened[l][r] # None
    /\ opened[l][r] # None =>
         /\ pc[l] \in {"running", "dead", "noRoom"}
         /\ opened[l][r] \in {l} \X Ranks
         /\ \A s \in Ranks : opened[l][s] \in {None, opened[l][r]}

OwnProcesses == \A l \in Launches : OwnProcessesOf(l)

\* A file is named by the engine id of the launch that created its region.
NamedById ==
  \A id \in Ids : name[id] # None => RegionId(name[id]) = id

\* The launcher is past its clean-up.
Cleaned(l) ==
  \/ pc[l] \in {"shm", "ram", "verdict", "running"}
  \/ pc[l] = "wipe" /\ l \notin WipeFirst

\* From the clean-up until the first rank opens the region there is no file; from
\* then until the last rank has mapped it, the file names that region.
FileFollowsLaunch ==
  \A l \in Launches : Cleaned(l) =>
    /\ Processes(l) = {} => name[EngineId[l]] = None
    /\ \A r \in Ranks : opened[l][r] # None =>
         \/ name[EngineId[l]] = opened[l][r]
         \/ name[EngineId[l]] = None /\ AllMapped(l)

\* Once stopped, a launch's regions have no name.
StoppedUnnamed ==
  \A l \in Launches : pc[l] = "stopped" =>
    \A id \in Ids : name[id] # None => name[id][1] # l

Types ==
  /\ pc \in [Launches -> PCs]
  /\ name \in [Ids -> Regions \cup {None}]
  /\ opened \in [Launches -> [Ranks -> Regions \cup {None}]]
  /\ mapped \subseteq Launches \X Ranks

IInv ==
  /\ Types
  /\ Exclusive
  /\ OwnProcesses
  /\ NamedById
  /\ FileFollowsLaunch
  /\ StoppedUnnamed

-----------------------------------------------------------------------------
(* Lemmas.                                                                 *)

\* While a launch is not over, no other launch of its id is, and none but its own
\* ranks map the file.
LEMMA OnlyOne ==
  ASSUME IInv, NEW l \in Launches, ~Over(l) \/ Alone(l), ~Overlap
  PROVE  /\ \A k \in Launches \ {l} : EngineId[k] = EngineId[l] => Over(k)
         /\ MapsShow(EngineId[l]) => Processes(l) # {}
<1>1. \A k \in Launches \ {l} : EngineId[k] = EngineId[l] => Over(k)
  BY DEF IInv, Exclusive, Alone
<1>2. ASSUME MapsShow(EngineId[l]) PROVE Processes(l) # {}
  <2>0. PICK m \in mapped : EngineId[m[1]] = EngineId[l]
    BY <1>2 DEF MapsShow
  <2>1. PICK k \in Launches, r \in Ranks : <<k, r>> \in mapped /\ EngineId[k] = EngineId[l]
    <3>1. m \in Launches \X Ranks
      BY <2>0 DEF IInv, Types
    <3>2. m = <<m[1], m[2]>> /\ m[1] \in Launches /\ m[2] \in Ranks
      BY <3>1
    <3>3. QED
      BY <2>0, <3>2
  <2>2. r \in Processes(k)
    BY <2>1 DEF IInv, OwnProcesses, OwnProcessesOf, Processes
  <2>3. k = l
    BY <1>1, <2>1, <2>2 DEF Over
  <2>4. QED
    BY <2>2, <2>3
<1>3. QED
  BY <1>1, <1>2

\* A step of one launch's script, or the death of its engine, that moves nothing but
\* its program counter keeps the invariant if it starts alone, leaves no process
\* behind in a script, and passes the clean-up only when the file is gone.
LEMMA PcStep ==
  ASSUME IInv, NEW l \in Launches, NEW from \in PCs, NEW to \in PCs,
         Step(l, from, to), UNCHANGED <<name, opened, mapped>>,
         ~Overlap,
         ~Over(l) \/ Alone(l),
         Processes(l) = {} \/ to \in {"running", "dead", "noRoom"},
         Cleaned(l)' => Cleaned(l) \/ (Processes(l) = {} /\ name[EngineId[l]] = None),
         to = "stopped" => name[EngineId[l]] = None
  PROVE  IInv'
<1>1. pc' = [pc EXCEPT ![l] = to] /\ pc[l] = from
  BY DEF Step
<1>2. Types'
  BY <1>1 DEF IInv, Types
<1>3. \A k \in Launches \ {l} : (Over(k)' <=> Over(k)) /\ (Cleaned(k)' <=> Cleaned(k))
  BY <1>1 DEF IInv, Types, Over, Processes, Cleaned
<1>4. Exclusive'
  BY <1>3, OnlyOne DEF IInv, Exclusive
<1>5. OwnProcesses'
  <2>1. ASSUME NEW k \in Launches, NEW r \in Ranks, opened[k][r] # None
        PROVE  pc'[k] \in {"running", "dead", "noRoom"}
    <3>1. CASE k = l
      <4>1. to \in {"running", "dead", "noRoom"}
        BY <2>1, <3>1 DEF Processes
      <4>2. QED
        BY <1>1, <3>1, <4>1 DEF IInv, Types
    <3>2. CASE k # l
      BY <1>1, <2>1, <3>2 DEF IInv, Types, OwnProcesses, OwnProcessesOf
    <3>3. QED
      BY <3>1, <3>2
  <2>2. ASSUME NEW k \in Launches PROVE OwnProcessesOf(k)'
    <3>1. OwnProcessesOf(k)
      BY DEF IInv, OwnProcesses
    <3>2. QED
      BY <2>1, <3>1 DEF OwnProcessesOf
  <2>3. QED
    BY <2>2 DEF OwnProcesses
<1>6. NamedById'
  BY DEF IInv, NamedById, RegionId
<1>7. FileFollowsLaunch'
  <2>1. \A k \in Launches : Processes(k)' = Processes(k) /\ AllMapped(k)' = AllMapped(k)
    BY DEF Processes, AllMapped
  <2>2. ASSUME NEW k \in Launches, Cleaned(k)', k # l
        PROVE  /\ Processes(k)' = {} => name'[EngineId[k]] = None
               /\ \A r \in Ranks : opened'[k][r] # None =>
                    \/ name'[EngineId[k]] = opened'[k][r]
                    \/ name'[EngineId[k]] = None /\ AllMapped(k)'
    BY <1>3, <2>1, <2>2 DEF IInv, FileFollowsLaunch
  <2>3. ASSUME Cleaned(l)'
        PROVE  /\ Processes(l)' = {} => name'[EngineId[l]] = None
               /\ \A r \in Ranks : opened'[l][r] # None =>
                    \/ name'[EngineId[l]] = opened'[l][r]
                    \/ name'[EngineId[l]] = None /\ AllMapped(l)'
    <3>1. CASE Cleaned(l)
      BY <2>1, <3>1 DEF IInv, FileFollowsLaunch
    <3>2. CASE Processes(l) = {} /\ name[EngineId[l]] = None
      BY <3>2 DEF Processes
    <3>3. QED
      BY <2>3, <3>1, <3>2
  <2>4. QED
    BY <2>2, <2>3 DEF FileFollowsLaunch
<1>8. StoppedUnnamed'
  <2>1. ASSUME NEW id \in Ids, name[id] # None, name[id][1] = l, to = "stopped"
        PROVE  FALSE
    <3>1. name[id] \in Regions /\ RegionId(name[id]) = id
      BY <2>1 DEF IInv, Types, NamedById
    <3>2. id = EngineId[l]
      BY <2>1, <3>1, LaunchesAssumption DEF RegionId
    <3>3. QED
      BY <2>1, <3>2
  <2>2. QED
    BY <1>1, <2>1 DEF IInv, Types, StoppedUnnamed
<1>9. QED
  BY <1>2, <1>4, <1>5, <1>6, <1>7, <1>8 DEF IInv

\* Removing the file of one's own id, from a script without an engine.
LEMMA RemoveStep ==
  ASSUME IInv, NEW l \in Launches, NEW from \in {"remove", "stopRemove"},
         NEW to \in {"shm", "stopped"}, Step(l, from, to), Remove(l),
         UNCHANGED <<opened, mapped>>, ~Overlap
  PROVE  IInv'
<1>1. /\ pc' = [pc EXCEPT ![l] = to] /\ pc[l] = from
      /\ name' = [name EXCEPT ![EngineId[l]] = None]
      /\ to \in PCs
  BY DEF Step, Remove, PCs, Launching
<1>2. EngineId[l] \in Ids
  BY LaunchesAssumption
<1>3. ~Over(l) /\ Processes(l) = {}
  <2>1. ~Over(l)
    BY <1>1 DEF Over
  <2>2. \A r \in Ranks : opened[l][r] = None
    BY <1>1 DEF IInv, OwnProcesses, OwnProcessesOf
  <2>3. QED
    BY <2>1, <2>2 DEF Processes
<1>4. Types'
  BY <1>1, <1>2 DEF IInv, Types
<1>5. \A k \in Launches \ {l} : (Over(k)' <=> Over(k)) /\ (Cleaned(k)' <=> Cleaned(k))
  BY <1>1 DEF IInv, Types, Over, Processes, Cleaned
<1>6. Exclusive'
  BY <1>3, <1>5, OnlyOne DEF IInv, Exclusive
<1>7. OwnProcesses'
  <2>1. \A k \in Launches, r \in Ranks : opened[k][r] # None => pc'[k] = pc[k]
    BY <1>1, <1>3 DEF IInv, Types, Processes
  <2>2. QED
    <3>1. ASSUME NEW k \in Launches PROVE OwnProcessesOf(k)'
      <4>1. OwnProcessesOf(k) /\ UNCHANGED <<opened, mapped>>
        BY DEF IInv, OwnProcesses
      <4>2. \A r \in Ranks : opened[k][r] # None => pc'[k] = pc[k]
        BY <2>1
      <4>3. QED
        BY <4>1, <4>2 DEF OwnProcessesOf
    <3>2. QED
      BY <3>1 DEF OwnProcesses
<1>8. NamedById' /\ StoppedUnnamed'
  <2>1. \A id \in Ids : name'[id] # None => name'[id] = name[id] /\ id # EngineId[l]
    BY <1>1, <1>2 DEF IInv, Types
  <2>2. NamedById'
    BY <2>1 DEF IInv, NamedById, RegionId
  <2>3. ASSUME NEW id \in Ids, name'[id] # None PROVE name'[id][1] # l
    BY <2>1, <2>3, LaunchesAssumption DEF IInv, NamedById, RegionId
  <2>4. QED
    BY <1>1, <2>1, <2>2, <2>3 DEF IInv, Types, StoppedUnnamed
<1>9. FileFollowsLaunch'
  <2>1. \A k \in Launches : Processes(k)' = Processes(k) /\ AllMapped(k)' = AllMapped(k)
    BY DEF Processes, AllMapped
  <2>2. ASSUME NEW k \in Launches, Cleaned(k)', k # l
        PROVE  name'[EngineId[k]] = name[EngineId[k]]
    <3>1. Cleaned(k) /\ ~Over(k)
      BY <1>5, <2>2 DEF Cleaned, Over
    <3>2. EngineId[k] # EngineId[l]
      BY <1>3, <2>2, <3>1, OnlyOne
    <3>3. QED
      BY <1>1, <1>2, <3>2, LaunchesAssumption DEF IInv, Types
  <2>3. name'[EngineId[l]] = None
    BY <1>1, <1>2 DEF IInv, Types
  <2>4. ASSUME NEW k \in Launches, Cleaned(k)'
        PROVE  /\ Processes(k)' = {} => name'[EngineId[k]] = None
               /\ \A r \in Ranks : opened'[k][r] # None =>
                    \/ name'[EngineId[k]] = opened'[k][r]
                    \/ name'[EngineId[k]] = None /\ AllMapped(k)'
    <3>1. CASE k = l
      BY <1>3, <2>1, <2>3, <3>1 DEF Processes
    <3>2. CASE k # l
      BY <1>5, <2>1, <2>2, <2>4, <3>2 DEF IInv, FileFollowsLaunch
    <3>3. QED
      BY <3>1, <3>2
  <2>5. QED
    BY <2>4 DEF FileFollowsLaunch
<1>10. QED
  BY <1>4, <1>6, <1>7, <1>8, <1>9 DEF IInv

-----------------------------------------------------------------------------
(* The engine's steps on the region.                                       *)

LEMMA MapStep ==
  ASSUME IInv, NEW l \in Launches, NEW r \in Ranks, Map(l, r)
  PROVE  IInv'
<1>1. /\ mapped' = mapped \cup {<<l, r>>} /\ opened[l][r] # None
      /\ UNCHANGED <<pc, name, opened>>
  BY DEF Map
<1>2. Types' /\ NamedById' /\ StoppedUnnamed'
  BY <1>1 DEF IInv, Types, NamedById, StoppedUnnamed, RegionId
<1>3. Exclusive'
  BY <1>1 DEF IInv, Exclusive, Over, Processes
<1>4. OwnProcesses'
  BY <1>1 DEF IInv, OwnProcesses, OwnProcessesOf
<1>5. FileFollowsLaunch'
  BY <1>1 DEF IInv, FileFollowsLaunch, Cleaned, Processes, AllMapped
<1>6. QED
  BY <1>2, <1>3, <1>4, <1>5 DEF IInv

LEMMA UnlinkStep ==
  ASSUME IInv, NEW l \in Launches, Unlink(l), ~Overlap
  PROVE  IInv'
<1>1. /\ pc[l] = "running" /\ AllMapped(l) /\ UNCHANGED <<pc, opened, mapped>>
      /\ name' = [name EXCEPT ![EngineId[l]] = None]
  BY DEF Unlink
<1>2. EngineId[l] \in Ids /\ ~Over(l)
  BY <1>1, LaunchesAssumption DEF Over
<1>3. Types'
  BY <1>1, <1>2 DEF IInv, Types
<1>4. Exclusive' /\ OwnProcesses'
  BY <1>1 DEF IInv, Exclusive, OwnProcesses, OwnProcessesOf, Over, Processes
<1>5. \A id \in Ids : name'[id] # None => name'[id] = name[id]
  BY <1>1, <1>2 DEF IInv, Types
<1>6. NamedById' /\ StoppedUnnamed'
  BY <1>1, <1>5 DEF IInv, NamedById, StoppedUnnamed, RegionId
<1>7. ASSUME NEW k \in Launches, Cleaned(k), k # l
      PROVE  name'[EngineId[k]] = name[EngineId[k]]
  <2>1. ~Over(k)
    BY <1>7 DEF Cleaned, Over
  <2>2. EngineId[k] # EngineId[l]
    BY <1>2, <1>7, <2>1, OnlyOne
  <2>3. QED
    BY <1>1, <1>2, <2>2, LaunchesAssumption DEF IInv, Types
<1>8. name'[EngineId[l]] = None
  BY <1>1, <1>2 DEF IInv, Types
<1>9. FileFollowsLaunch'
  BY <1>1, <1>7, <1>8 DEF IInv, FileFollowsLaunch, Cleaned, Processes, AllMapped
<1>10. QED
  BY <1>3, <1>4, <1>6, <1>9 DEF IInv

LEMMA RankExitStep ==
  ASSUME IInv, NEW l \in Launches, NEW r \in Ranks, RankExit(l, r)
  PROVE  IInv'
<1>1. /\ pc[l] \in {"dead", "noRoom"} /\ UNCHANGED <<pc, name>>
      /\ opened' = [opened EXCEPT ![l][r] = None]
      /\ mapped' = mapped \ {<<l, r>>}
  BY DEF RankExit
<1>2. /\ opened'[l][r] = None
      /\ \A k \in Launches, s \in Ranks :
           <<k, s>> # <<l, r>> => opened'[k][s] = opened[k][s]
      /\ \A k \in Launches \ {l} : \A s \in Ranks : opened'[k][s] = opened[k][s]
  BY <1>1 DEF IInv, Types
<1>3. Types' /\ NamedById' /\ StoppedUnnamed'
  BY <1>1 DEF IInv, Types, NamedById, StoppedUnnamed, RegionId
<1>4. \A k \in Launches : Over(k) => Over(k)'
  BY <1>1, <1>2 DEF Over, Processes
<1>5. Exclusive'
  BY <1>4 DEF IInv, Exclusive
<1>6. OwnProcesses'
  <2>1. OwnProcessesOf(l)'
    BY <1>1, <1>2 DEF IInv, OwnProcesses, OwnProcessesOf
  <2>2. ASSUME NEW k \in Launches \ {l} PROVE OwnProcessesOf(k)'
    <3>1. OwnProcessesOf(k) /\ pc' = pc /\ mapped' \subseteq mapped
      BY <1>1 DEF IInv, OwnProcesses
    <3>2. opened'[k] = opened[k]
      BY <1>1 DEF IInv, Types
    <3>3. QED
      BY <3>1, <3>2 DEF OwnProcessesOf
  <2>3. QED
    BY <2>1, <2>2 DEF OwnProcesses
<1>7. FileFollowsLaunch'
  <2>1. ~Cleaned(l)
    BY <1>1 DEF Cleaned
  <2>2. \A k \in Launches \ {l} : Processes(k)' = Processes(k) /\ (AllMapped(k) => AllMapped(k)')
    BY <1>1, <1>2 DEF Processes, AllMapped
  <2>3. QED
    BY <1>1, <1>2, <2>1, <2>2 DEF IInv, FileFollowsLaunch, Cleaned
<1>8. QED
  BY <1>3, <1>5, <1>6, <1>7 DEF IInv

\* The first rank finds no file and creates the region, the others find the region.
LEMMA OpenStep ==
  ASSUME IInv, NEW l \in Launches, NEW r \in Ranks, Open(l, r), ~Overlap
  PROVE  IInv'
<1> DEFINE id == EngineId[l]
<1>1. pc[l] = "running" /\ opened[l][r] = None /\ mapped' = mapped /\ id \in Ids
  BY LaunchesAssumption DEF Open
<1>2. ~Over(l) /\ Cleaned(l) /\ ~AllMapped(l) /\ <<l, r>> \in Regions
  BY <1>1 DEF Over, Cleaned, AllMapped, Regions, IInv, OwnProcesses, OwnProcessesOf
<1>3. ASSUME NEW k \in Launches, ~Over(k), k # l PROVE EngineId[k] # id
  BY <1>2, <1>3, OnlyOne
<1>4. CASE name[id] # None /\ opened' = [opened EXCEPT ![l][r] = name[id]]
           /\ UNCHANGED <<pc, name>>
  <2>1. /\ opened'[l][r] = name[id]
        /\ \A k \in Launches, s \in Ranks :
             <<k, s>> # <<l, r>> => opened'[k][s] = opened[k][s]
    BY <1>4 DEF IInv, Types
  <2>2. PICK s \in Ranks : opened[l][s] # None /\ opened[l][s] = name[id]
    <3>1. PICK s \in Ranks : opened[l][s] # None
      BY <1>2, <1>4 DEF IInv, FileFollowsLaunch, Processes
    <3>2. QED
      BY <1>2, <1>4, <3>1 DEF IInv, FileFollowsLaunch
  <2>3. Types'
    BY <1>1, <1>4 DEF IInv, Types
  <2>4. Exclusive'
    <3>1. \A k \in Launches \ {l} : Over(k)' <=> Over(k)
      BY <1>4, <2>1 DEF Over, Processes
    <3>2. QED
      BY <1>2, <3>1 DEF IInv, Exclusive
  <2>5. OwnProcesses'
    <3>0. OwnProcessesOf(l)
      BY DEF IInv, OwnProcesses
    <3>1. opened'[l][r] \in {l} \X Ranks /\ opened'[l][r] # None
      BY <2>1, <2>2, <3>0 DEF OwnProcessesOf
    <3>2. \A q \in Ranks : opened'[l][q] \in {None, name[id]}
      <4>1. \A q \in Ranks : opened[l][q] \in {None, name[id]}
        BY <2>2, <3>0 DEF OwnProcessesOf
      <4>2. \A q \in Ranks : q # r => opened'[l][q] = opened[l][q]
        BY <2>1
      <4>3. QED
        BY <2>1, <4>1, <4>2
    <3>3. OwnProcessesOf(l)'
      <4>1. pc'[l] = "running" /\ mapped' = mapped
        BY <1>1, <1>4
      <4>2. \A q \in Ranks : <<l, q>> \in mapped => opened'[l][q] # None
        BY <2>1, <3>0, <3>1 DEF OwnProcessesOf
      <4>3. \A q \in Ranks : opened'[l][q] # None => opened'[l][q] = opened'[l][r]
        BY <2>1, <3>2
      <4>4. QED
        BY <2>1, <3>1, <3>2, <4>1, <4>2, <4>3 DEF OwnProcessesOf
    <3>4. ASSUME NEW k \in Launches \ {l} PROVE OwnProcessesOf(k)'
      <4>1. OwnProcessesOf(k) /\ pc' = pc /\ mapped' = mapped
        BY <1>1, <1>4 DEF IInv, OwnProcesses
      <4>2. opened'[k] = opened[k]
        BY <1>4 DEF IInv, Types
      <4>3. QED
        BY <4>1, <4>2 DEF OwnProcessesOf
    <3>5. QED
      BY <3>3, <3>4 DEF OwnProcesses
  <2>6. NamedById' /\ StoppedUnnamed'
    BY <1>4 DEF IInv, NamedById, StoppedUnnamed, RegionId
  <2>7. FileFollowsLaunch'
    <3>1. Processes(l)' # {}
      BY <1>4, <2>1 DEF Processes
    <3>2. \A q \in Ranks : opened'[l][q] # None => name'[id] = opened'[l][q]
      BY <1>1, <1>2, <1>4, <2>1 DEF IInv, FileFollowsLaunch
    <3>3. \A k \in Launches \ {l} : Processes(k)' = Processes(k) /\ AllMapped(k)' = AllMapped(k)
      BY <1>1, <2>1 DEF Processes, AllMapped
    <3>4. QED
      BY <1>4, <2>1, <3>1, <3>2, <3>3 DEF IInv, FileFollowsLaunch, Cleaned
  <2>8. QED
    BY <2>3, <2>4, <2>5, <2>6, <2>7 DEF IInv
<1>5. CASE name[id] = None /\ name' = [name EXCEPT ![id] = <<l, r>>]
           /\ opened' = [opened EXCEPT ![l][r] = <<l, r>>] /\ pc' = pc
  <2>1. /\ opened'[l][r] = <<l, r>>
        /\ \A k \in Launches, s \in Ranks :
             <<k, s>> # <<l, r>> => opened'[k][s] = opened[k][s]
        /\ name'[id] = <<l, r>>
        /\ \A i \in Ids \ {id} : name'[i] = name[i]
    BY <1>1, <1>5 DEF IInv, Types
  <2>2. \A s \in Ranks : opened[l][s] = None
    BY <1>1, <1>2, <1>5 DEF IInv, FileFollowsLaunch
  <2>3. Types'
    BY <1>1, <1>2, <1>5 DEF IInv, Types
  <2>4. Exclusive'
    <3>1. \A k \in Launches \ {l} : Over(k)' <=> Over(k)
      BY <1>5, <2>1 DEF Over, Processes
    <3>2. QED
      BY <1>2, <3>1 DEF IInv, Exclusive
  <2>5. OwnProcesses'
    <3>1. <<l, r>> \in {l} \X Ranks
      OBVIOUS
    <3>2. \A q \in Ranks : opened'[l][q] \in {None, <<l, r>>}
      BY <2>1, <2>2
    <3>3. OwnProcessesOf(l)'
      <4>1. \A q \in Ranks : <<l, q>> \notin mapped
        BY <2>2 DEF IInv, OwnProcesses, OwnProcessesOf
      <4>2. QED
        BY <1>1, <1>5, <3>1, <3>2, <4>1 DEF OwnProcessesOf
    <3>4. ASSUME NEW k \in Launches \ {l} PROVE OwnProcessesOf(k)'
      <4>1. OwnProcessesOf(k) /\ pc' = pc /\ mapped' = mapped
        BY <1>1, <1>5 DEF IInv, OwnProcesses
      <4>2. opened'[k] = opened[k]
        BY <1>5 DEF IInv, Types
      <4>3. QED
        BY <4>1, <4>2 DEF OwnProcessesOf
    <3>5. QED
      BY <3>3, <3>4 DEF OwnProcesses
  <2>6. NamedById'
    BY <2>1, LaunchesAssumption DEF IInv, NamedById, RegionId
  <2>7. StoppedUnnamed'
    BY <1>1, <1>5, <2>1 DEF IInv, StoppedUnnamed
  <2>8. FileFollowsLaunch'
    <3>1. Processes(l)' # {}
      BY <1>2, <2>1, LaunchesAssumption DEF Processes
    <3>2. \A s \in Ranks : opened'[l][s] # None => name'[id] = opened'[l][s]
      BY <2>1, <2>2
    <3>3. \A k \in Launches \ {l} : Processes(k)' = Processes(k) /\ AllMapped(k)' = AllMapped(k)
      BY <1>1, <2>1 DEF Processes, AllMapped
    <3>4. ASSUME NEW k \in Launches \ {l}, Cleaned(k)'
          PROVE  name'[EngineId[k]] = name[EngineId[k]] /\ Cleaned(k)
      <4>1. Cleaned(k) /\ ~Over(k)
        BY <1>5, <3>4 DEF Cleaned, Over
      <4>2. QED
        BY <1>3, <2>1, <4>1, LaunchesAssumption
    <3>5. ASSUME NEW k \in Launches \ {l}, Cleaned(k)'
          PROVE  /\ Processes(k)' = {} => name'[EngineId[k]] = None
                 /\ \A s \in Ranks : opened'[k][s] # None =>
                      \/ name'[EngineId[k]] = opened'[k][s]
                      \/ name'[EngineId[k]] = None /\ AllMapped(k)'
      BY <2>1, <3>3, <3>4, <3>5 DEF IInv, FileFollowsLaunch
    <3>6. QED
      BY <3>1, <3>2, <3>5 DEF FileFollowsLaunch
  <2>9. QED
    BY <2>3, <2>4, <2>5, <2>6, <2>7, <2>8 DEF IInv
<1>6. CASE pc' = [pc EXCEPT ![l] = "noRoom"] /\ UNCHANGED <<name, opened>>
  BY <1>1, <1>2, <1>6, PcStep DEF Step, PCs, Launching, Cleaned, IInv, Types
<1>7. QED
  BY <1>4, <1>5, <1>6 DEF Open

-----------------------------------------------------------------------------
(* The invariant.                                                          *)

LEMMA ScriptSteps ==
  ASSUME IInv, NEW l \in Launches, Launcher(l) \/ Stop(l) \/ StopRemove(l), ~Overlap
  PROVE  IInv'
<1>1. Processes(l) = {} \/ pc[l] \in {"running", "dead", "noRoom"}
  <2>1. \A r \in Processes(l) : pc[l] \in {"running", "dead", "noRoom"}
    BY DEF IInv, OwnProcesses, OwnProcessesOf, Processes
  <2>2. QED
    BY <2>1
<1>2. pc[l] \in PCs
  BY DEF IInv, Types
<1>3. CASE Start(l)
  <2>1. Processes(l) = {}
    BY <1>1, <1>3 DEF Start, Step
  <2>2. Afresh(l) \in PCs /\ ~Cleaned(l)' /\ Afresh(l) # "stopped"
    BY <1>3 DEF Start, Step, Afresh, PCs, Launching, Cleaned, IInv, Types
  <2>3. QED
    BY <1>3, <2>1, <2>2, PcStep DEF Start, PCs
<1>4. CASE Clean(l)
  <2>1. Processes(l) = {} /\ ~Over(l)
    BY <1>1, <1>4 DEF Clean, Look, Step, Over
  <2>2. ~MapsShow(EngineId[l])
    BY <2>1, OnlyOne
  <2>3. CASE name[EngineId[l]] = None
    BY <1>4, <2>1, <2>2, <2>3, PcStep DEF Clean, Look, PCs, Launching
  <2>4. CASE name[EngineId[l]] # None
    <3>1. Step(l, "clean", "remove")
      BY <1>4, <2>2, <2>4 DEF Clean, Look
    <3>2. ~Cleaned(l)'
      BY <3>1 DEF Step, Cleaned, IInv, Types
    <3>3. QED
      BY <1>4, <2>1, <3>1, <3>2, PcStep DEF Clean, PCs, Launching
  <2>5. QED
    BY <2>3, <2>4
<1>5. CASE CleanRemove(l)
  BY <1>5, RemoveStep DEF CleanRemove
<1>6. CASE CheckShm(l) \/ CheckRam(l) \/ Verdict(l)
  <2>1. Processes(l) = {} /\ ~Over(l) /\ Cleaned(l)
    BY <1>1, <1>6 DEF CheckShm, CheckRam, Verdict, Step, Over, Cleaned
  <2>2. PICK from \in PCs, to \in PCs : Step(l, from, to) /\ to # "stopped"
    BY <1>6 DEF CheckShm, CheckRam, Verdict, PCs, Launching, Launch
  <2>3. UNCHANGED <<name, opened, mapped>>
    BY <1>6 DEF CheckShm, CheckRam, Verdict
  <2>4. QED
    BY <2>1, <2>2, <2>3, PcStep
<1>7. CASE Wipe(l)
  <2>1. Processes(l) = {} /\ ~Over(l)
    BY <1>1, <1>7 DEF Wipe, Step, Over
  <2>2. Cleaned(l)' => Cleaned(l)
    BY <1>7 DEF Wipe, Step, Cleaned, IInv, Types
  <2>3. QED
    BY <1>7, <2>1, <2>2, PcStep DEF Wipe, PCs, Launching
<1>8. CASE Stop(l)
  <2>1. Processes(l) = {} /\ Alone(l)
    BY <1>8 DEF Stop
  <2>2. ~MapsShow(EngineId[l])
    BY <2>1, OnlyOne
  <2>3. ~Cleaned(l)'
    BY <1>8 DEF Stop, Look, Step, Cleaned, IInv, Types
  <2>4. CASE name[EngineId[l]] = None
    BY <1>8, <2>1, <2>3, <2>4, PcStep DEF Stop, Look, PCs
  <2>5. CASE name[EngineId[l]] # None
    BY <1>8, <2>1, <2>2, <2>3, <2>5, PcStep DEF Stop, Look, PCs
  <2>6. QED
    BY <2>4, <2>5
<1>9. CASE StopRemove(l)
  BY <1>9, RemoveStep DEF StopRemove
<1>10. QED
  BY <1>3, <1>4, <1>5, <1>6, <1>7, <1>8, <1>9 DEF Launcher

\* The invariant speaks of four variables only.
LEMMA StutterInv ==
  ASSUME IInv, UNCHANGED <<pc, name, opened, mapped>> PROVE IInv'
<1>1. Types' /\ NamedById' /\ StoppedUnnamed'
  BY DEF IInv, Types, NamedById, StoppedUnnamed, RegionId
<1>2. Exclusive' /\ OwnProcesses'
  BY DEF IInv, Exclusive, OwnProcesses, OwnProcessesOf, Over, Processes
<1>3. FileFollowsLaunch'
  BY DEF IInv, FileFollowsLaunch, Cleaned, Processes, AllMapped
<1>4. QED
  BY <1>1, <1>2, <1>3 DEF IInv

LEMMA EngineSteps ==
  ASSUME IInv, NEW l \in Launches, Engine(l), ~Overlap
  PROVE  IInv'
<1>1. ASSUME NEW r \in Ranks, Open(l, r) \/ Map(l, r) \/ RankExit(l, r) PROVE IInv'
  BY <1>1, OpenStep, MapStep, RankExitStep
<1>2. CASE Store(l)
  BY <1>2, StutterInv DEF Store
<1>3. CASE Unlink(l)
  BY <1>3, UnlinkStep
<1>4. CASE Die(l)
  <2>1. ~Over(l) /\ ~Cleaned(l)'
    BY <1>4 DEF Die, Step, Over, Cleaned, IInv, Types
  <2>2. QED
    BY <1>4, <2>1, PcStep DEF Die, PCs
<1>5. QED
  BY <1>1, <1>2, <1>3, <1>4 DEF Engine

LEMMA InitInv == Init => IInv
<1> SUFFICES ASSUME Init PROVE IInv
  OBVIOUS
<1>1. /\ \A l \in Launches : pc[l] = "idle"
      /\ \A l \in Launches, r \in Ranks : opened[l][r] = None
      /\ mapped = {}
      /\ \A id \in Ids : name[id] \in {None, <<id, Earlier>>}
  BY DEF Init
<1>2. Types
  BY DEF Init, Types, PCs, Regions
<1>3. Exclusive /\ OwnProcesses
  BY <1>1 DEF Exclusive, OwnProcesses, OwnProcessesOf, Over, Processes
<1>4. NamedById
  BY <1>1 DEF NamedById, RegionId
<1>5. FileFollowsLaunch /\ StoppedUnnamed
  BY <1>1 DEF FileFollowsLaunch, StoppedUnnamed, Cleaned
<1>6. QED
  BY <1>2, <1>3, <1>4, <1>5 DEF IInv


\* Launches of one engine id that never overlap keep the invariant.
THEOREM Invariance == ASSUME ~Overlap PROVE Spec => []IInv
<1>1. IInv /\ [Next]_vars => IInv'
  BY ScriptSteps, EngineSteps, StutterInv DEF Next, vars
<1>2. QED
  BY <1>1, InitInv, PTL DEF Spec

-----------------------------------------------------------------------------
(* The properties.                                                         *)

\* The ranks of an engine share one region, created by one of them.
THEOREM RegionsAreFresh == ASSUME ~Overlap PROVE Spec => []OneFreshRegion
<1>1. IInv => OneFreshRegion
  <2>1. ASSUME IInv, NEW l \in Launches, NEW r \in Ranks, NEW s \in Ranks,
               opened[l][r] # None
        PROVE  opened[l][r][1] = l /\ opened[l][s] \in {None, opened[l][r]}
    BY <2>1 DEF IInv, OwnProcesses, OwnProcessesOf
  <2>2. QED
    BY <2>1 DEF OneFreshRegion
<1>2. QED
  BY <1>1, Invariance, PTL

\* No clean-up takes the file from an engine that is still starting.
THEOREM StartupKeepsFile == ASSUME ~Overlap PROVE Spec => FileOutlivesStartup
<1>1. ASSUME IInv, [Next]_vars, NEW id \in Ids, name[id] # None, name'[id] = None,
             NEW l \in Launches, EngineId[l] = id, pc[l] = "running"
      PROVE  AllMapped(l)
  <2>1. ~Over(l)
    BY <1>1 DEF Over
  <2>2. PICK k \in Launches : Launcher(k) \/ Engine(k) \/ Stop(k) \/ StopRemove(k)
    BY <1>1 DEF Next, vars
  <2>3. CASE CleanRemove(k) \/ StopRemove(k)
    <3>1. pc[k] \in {"remove", "stopRemove"} /\ Remove(k)
      BY <2>3 DEF CleanRemove, StopRemove, Step
    <3>2. ~Over(k) /\ k # l
      BY <1>1, <3>1 DEF Over
    <3>3. EngineId[k] # id
      BY <1>1, <2>1, <3>2, OnlyOne
    <3>4. name'[id] = name[id]
      BY <1>1, <3>1, <3>3 DEF Remove, IInv, Types
    <3>5. QED
      BY <1>1, <3>4
  <2>4. CASE Unlink(k)
    <3>1. pc[k] = "running" /\ AllMapped(k) /\ Remove(k)
      BY <2>4 DEF Unlink, Remove
    <3>2. k = l \/ EngineId[k] # id
      <4>1. ~Over(k)
        BY <3>1 DEF Over
      <4>2. QED
        BY <1>1, <2>1, <4>1, OnlyOne
    <3>3. EngineId[k] # id => name'[id] = name[id]
      BY <3>1 DEF Remove, IInv, Types
    <3>4. QED
      BY <1>1, <3>1, <3>2, <3>3
  <2>5. ASSUME NEW r \in Ranks, Open(k, r) PROVE FALSE
    <3>1. \/ UNCHANGED name
          \/ name' = [name EXCEPT ![EngineId[k]] = <<k, r>>] /\ <<k, r>> \in Regions
      BY <2>5 DEF Open, Regions
    <3>2. QED
      BY <1>1, <3>1, LaunchesAssumption DEF IInv, Types
  <2>6. CASE UNCHANGED name
    BY <1>1, <2>6
  <2>7. QED
    BY <2>2, <2>3, <2>4, <2>5, <2>6 DEF Launcher, Engine, Start, Clean, CheckShm,
       CheckRam, Verdict, Wipe, Map, RankExit, Store, Die, Stop
<1>2. IInv /\ [Next]_vars =>
        [\A id \in Ids : name[id] # None /\ name'[id] = None =>
           \A l \in Launches : EngineId[l] = id /\ pc[l] = "running" => AllMapped(l)]_vars
  BY <1>1
<1>3. QED
  BY <1>2, Invariance, PTL DEF Spec, FileOutlivesStartup

\* A stop that ran its clean-up returns all tmpfs pages of the instance.
THEOREM StopFreesRegions == ASSUME ~Overlap PROVE Spec => []StopReturnsPages
<1>1. ASSUME IInv, NEW l \in Launches, pc[l] = "stopped", NEW g \in InUse
      PROVE  g[1] # l
  <2>1. CASE \E id \in Ids : name[id] = g
    BY <1>1, <2>1, LaunchesAssumption DEF IInv, StoppedUnnamed, InUse
  <2>2. ASSUME NEW k \in Launches, NEW r \in Ranks, opened[k][r] = g
        PROVE  g[1] # l
    <3>1. opened[k][r] # None
      BY <2>2, LaunchesAssumption DEF InUse
    <3>2. g \in {k} \X Ranks /\ pc[k] # "stopped"
      BY <1>1, <2>2, <3>1 DEF IInv, OwnProcesses, OwnProcessesOf
    <3>3. QED
      BY <1>1, <3>2
  <2>3. QED
    BY <2>1, <2>2 DEF InUse
<1>2. IInv => StopReturnsPages
  BY <1>1 DEF StopReturnsPages
<1>3. QED
  BY <1>2, Invariance, PTL

-----------------------------------------------------------------------------
(* Types, whether or not launches overlap.                                 *)

TypeInv == TypeOK /\ \A l \in Launches : pc[l] = "ram" => problems[l] \in 0..2

LEMMA FailedAtMost ==
  ASSUME NEW n \in Nat, NEW checks, DOMAIN checks = 1..n
  PROVE  Failed(checks) \in 0..n
<1> DEFINE bad == {c \in DOMAIN checks : ~checks[c]}
<1>1. IsFiniteSet(1..n) /\ Cardinality(1..n) = n
  BY FS_Interval
<1>2. bad \subseteq 1..n
  OBVIOUS
<1>3. IsFiniteSet(bad) /\ Cardinality(bad) <= n /\ Cardinality(bad) \in Nat
  BY <1>1, <1>2, FS_Subset, FS_CardinalityType
<1>4. QED
  BY <1>3 DEF Failed

LEMMA TypeOfScriptSteps ==
  ASSUME TypeInv, NEW l \in Launches, Launcher(l) \/ Stop(l) \/ StopRemove(l)
  PROVE  TypeInv'
<1>1. EngineId[l] \in Ids
  BY LaunchesAssumption
<1>2. opened' = opened /\ mapped' = mapped /\ squeezed' = squeezed
  BY DEF Launcher, Start, Clean, CleanRemove, CheckShm, CheckRam, Verdict, Wipe, Stop,
     StopRemove
<1>3. /\ pc' \in [Launches -> PCs] /\ name' \in [Ids -> Regions \cup {None}]
      /\ sessions' \subseteq Ids
      /\ \A k \in Launches : pc'[k] = "ram" => pc[k] = "ram" \/ (k = l /\ pc[k] = "shm")
  <2>1. PICK to \in PCs : pc' = [pc EXCEPT ![l] = to] /\ (to = "ram" => pc[l] = "shm")
    BY DEF PCs, Launching, Launcher, Start, Clean, CleanRemove, CheckShm, CheckRam, Verdict,
       Wipe, Stop, StopRemove, Step, Look, Launch, Afresh
  <2>2. name' = name \/ name' = [name EXCEPT ![EngineId[l]] = None]
    BY DEF Launcher, Start, Clean, CleanRemove, CheckShm, CheckRam, Verdict, Wipe, Stop,
       StopRemove, Remove
  <2>3. sessions' = sessions \/ sessions' = {}
    BY DEF Launcher, Start, Clean, CleanRemove, CheckShm, CheckRam, Verdict, Wipe, Stop,
       StopRemove
  <2>4. pc' \in [Launches -> PCs]
        /\ \A k \in Launches : pc'[k] = "ram" => pc[k] = "ram" \/ (k = l /\ pc[k] = "shm")
    <3>1. pc \in [Launches -> PCs]
      BY DEF TypeInv, TypeOK
    <3>2. pc' \in [Launches -> PCs]
      BY <2>1, <3>1
    <3>3. \A k \in Launches : pc'[k] = IF k = l THEN to ELSE pc[k]
      BY <2>1, <3>1
    <3>4. QED
      BY <2>1, <3>2, <3>3
  <2>5. name' \in [Ids -> Regions \cup {None}]
    BY <2>2 DEF TypeInv, TypeOK
  <2>6. QED
    BY <2>3, <2>4, <2>5 DEF TypeInv, TypeOK
<1>4. problems' \in [Launches -> 0..3]
      /\ \A k \in Launches : pc'[k] = "ram" => problems'[k] \in 0..2
  <2>1. CASE CheckShm(l)
    <3> DEFINE checks == <<ShmTotal >= Bytes[EngineId[l]], ShmFree >= Bytes[EngineId[l]]>>
    <3>1. Failed(checks) \in 0..2
      <4>1. DOMAIN checks = 1..2
        OBVIOUS
      <4>2. QED
        BY <4>1, FailedAtMost
    <3>2. problems' = [problems EXCEPT ![l] = Failed(checks)]
      BY <2>1 DEF CheckShm
    <3> HIDE DEF checks
    <3>3. QED
      BY <1>3, <3>1, <3>2 DEF TypeInv, TypeOK
  <2>2. CASE CheckRam(l)
    <3> DEFINE checks == <<MemAvailable >= Needed(l)>>
    <3>1. Failed(checks) \in 0..1
      <4>1. DOMAIN checks = 1..1
        OBVIOUS
      <4>2. QED
        BY <4>1, FailedAtMost
    <3>2. problems' = [problems EXCEPT ![l] = @ + Failed(checks)] /\ pc[l] = "ram"
          /\ pc' = [pc EXCEPT ![l] = "verdict"]
      BY <2>2 DEF CheckRam, Step
    <3> HIDE DEF checks
    <3>3. problems[l] + Failed(checks) \in 0..3
      BY <3>1, <3>2 DEF TypeInv
    <3>4. QED
      BY <3>2, <3>3 DEF TypeInv, TypeOK
  <2>3. CASE ~CheckShm(l) /\ ~CheckRam(l)
    <3>1. problems' = problems
      BY <2>3 DEF Launcher, Start, Clean, CleanRemove, Verdict, Wipe, Stop, StopRemove
    <3>2. \A k \in Launches : pc'[k] = "ram" => pc[k] = "ram"
      BY <2>3 DEF TypeInv, TypeOK, Launcher, Start, Clean, CleanRemove, Verdict, Wipe, Stop,
         StopRemove, Step, Look, Launch, Afresh
    <3>3. QED
      BY <3>1, <3>2 DEF TypeInv, TypeOK
  <2>4. QED
    BY <2>1, <2>2, <2>3
<1>5. QED
  BY <1>2, <1>3, <1>4 DEF TypeInv, TypeOK

LEMMA TypeOfEngineSteps ==
  ASSUME TypeInv, NEW l \in Launches, Engine(l)
  PROVE  TypeInv'
<1>1. EngineId[l] \in Ids
  BY LaunchesAssumption
<1>2. problems' = problems
  BY DEF Engine, Open, Map, RankExit, Store, Unlink, Die
<1>3. ASSUME NEW r \in Ranks, Open(l, r) PROVE TypeInv'
  <2>1. <<l, r>> \in Regions
    BY DEF Regions
  <2>2. pc' \in [Launches -> PCs] /\ \A k \in Launches : pc'[k] = "ram" => pc[k] = "ram"
    BY <1>3 DEF TypeInv, TypeOK, Open, PCs
  <2>3. opened' \in [Launches -> [Ranks -> Regions \cup {None}]]
        /\ name' \in [Ids -> Regions \cup {None}]
    <3>1. name[EngineId[l]] \in Regions \cup {None} /\ opened[l] \in [Ranks -> Regions \cup {None}]
      BY <1>1 DEF TypeInv, TypeOK
    <3>2. PICK g \in Regions \cup {None} : opened' \in {opened, [opened EXCEPT ![l][r] = g]}
      BY <1>3, <2>1, <3>1 DEF Open
    <3>3. name' \in {name, [name EXCEPT ![EngineId[l]] = <<l, r>>]}
      BY <1>3 DEF Open
    <3>4. name' \in [Ids -> Regions \cup {None}]
      BY <2>1, <3>3 DEF TypeInv, TypeOK
    <3>5. [opened[l] EXCEPT ![r] = g] \in [Ranks -> Regions \cup {None}]
      BY <3>1, <3>2
    <3>6. opened \in [Launches -> [Ranks -> Regions \cup {None}]]
      BY DEF TypeInv, TypeOK
    <3> DEFINE row == [opened[l] EXCEPT ![r] = g]
    <3>7. opened' = opened \/ opened' = [opened EXCEPT ![l] = row]
      BY <3>2
    <3> HIDE DEF row
    <3>8. opened' \in [Launches -> [Ranks -> Regions \cup {None}]]
      BY <3>5, <3>6, <3>7 DEF row
    <3>9. QED
      BY <3>4, <3>8
  <2>4. mapped' = mapped /\ sessions' = sessions /\ squeezed' \subseteq Launches
    BY <1>3 DEF TypeInv, TypeOK, Open
  <2>5. QED
    BY <1>2, <2>2, <2>3, <2>4 DEF TypeInv, TypeOK
<1>4. ASSUME NEW r \in Ranks, Map(l, r) \/ RankExit(l, r) PROVE TypeInv'
  BY <1>2, <1>4 DEF TypeInv, TypeOK, Map, RankExit
<1>5. CASE Store(l) \/ Unlink(l) \/ Die(l)
  BY <1>1, <1>2, <1>5 DEF TypeInv, TypeOK, Store, Unlink, Die, Step, PCs
<1>6. QED
  BY <1>3, <1>4, <1>5 DEF Engine

LEMMA TypeInvariance == Spec => []TypeInv
<1>1. Init => TypeInv
  <2>1. \A id \in Ids : <<id, Earlier>> \in Regions
    BY DEF Regions
  <2>2. QED
    BY <2>1 DEF Init, TypeInv, TypeOK, PCs
<1>2. TypeInv /\ [Next]_vars => TypeInv'
  <2>1. ASSUME TypeInv, UNCHANGED vars PROVE TypeInv'
    BY <2>1 DEF vars, TypeInv, TypeOK
  <2>2. QED
    BY <2>1, TypeOfScriptSteps, TypeOfEngineSteps DEF Next
<1>3. QED
  BY <1>1, <1>2, PTL DEF Spec

\* Every variable has its type; no preflight counts more than its three checks.
THEOREM TypeCorrect == Spec => []TypeOK
<1>1. TypeInv => TypeOK
  BY DEF TypeInv
<1>2. QED
  BY <1>1, TypeInvariance, PTL

-----------------------------------------------------------------------------
(* What Pages sums, regions of tmpfs, can be added up in any order.        *)

Size(g) == Bytes[RegionId(g)]

\* The step of the fold that Pages is.
Body(T, h) == [t \in SUBSET T |->
                 IF t = {} THEN 0
                 ELSE LET g == CHOOSE x \in t : TRUE IN Size(g) + h[t \ {g}]]

Folded(T) == CHOOSE h : h = Body(T, h)

LEMMA LeastNat ==
  ASSUME NEW S, S \subseteq Nat, S # {}
  PROVE  \E x \in S : \A y \in S : x <= y
<1> DEFINE R == OpToRel(<, Nat)
<1>1. IsWellFoundedOn(R, Nat)
  BY NatLessThanWellFounded
<1> HIDE DEF R
<1>2. PICK x \in S : \A y \in S : <<y, x>> \notin R
  BY <1>1, WFMin
<1>3. \A y \in S : ~(y < x)
  BY <1>2 DEF R, OpToRel
<1> QED  BY <1>3

LEMMA SizeType == \A g \in Regions : Size(g) \in Nat /\ RegionId(g) \in Ids
<1>1. ASSUME NEW g \in Regions PROVE RegionId(g) \in Ids
  <2>1. CASE g \in Launches \X Ranks
    BY <2>1, LaunchesAssumption DEF RegionId
  <2>2. CASE g \in Ids \X {Earlier}
    BY <2>2 DEF RegionId
  <2>3. QED
    BY <2>1, <2>2 DEF Regions
<1>2. QED
  BY <1>1, LaunchesAssumption DEF Size

LEMMA RegionsFinite == IsFiniteSet(Regions)
  BY LaunchesAssumption, FS_Product, FS_Singleton, FS_Union DEF Regions

\* Pages of fewer regions first: the fold's equation has a solution for the subsets of up
\* to n regions, for every n.
Solves(T, n, h) ==
  \A t \in SUBSET T : Cardinality(t) <= n =>
    h[t] = IF t = {} THEN 0
           ELSE LET g == CHOOSE x \in t : TRUE IN Size(g) + h[t \ {g}]

LEMMA Smaller ==
  ASSUME NEW T, IsFiniteSet(T), NEW g \in T
  PROVE  /\ IsFiniteSet(T \ {g}) /\ Cardinality(T) \in Nat /\ Cardinality(T \ {g}) \in Nat
         /\ Cardinality(T \ {g}) = Cardinality(T) - 1
  BY FS_RemoveElement, FS_CardinalityType

LEMMA SolvedUpTo ==
  ASSUME NEW T, IsFiniteSet(T), NEW n \in Nat
  PROVE  \E h : Solves(T, n, h)
<1> DEFINE bad == {m \in Nat : ~ \E h : Solves(T, m, h)}
<1>1. SUFFICES bad = {}
  OBVIOUS
<1>2. SUFFICES ASSUME bad # {} PROVE FALSE
  OBVIOUS
<1>3. PICK m \in bad : \A k \in bad : m <= k
  BY <1>2, LeastNat
<1>4. \A t \in SUBSET T : IsFiniteSet(t) /\ Cardinality(t) \in Nat
  BY FS_Subset, FS_CardinalityType
<1>5. m # 0
  <2>1. \A t \in SUBSET T : Cardinality(t) <= 0 => t = {}
    BY <1>4, FS_EmptySet
  <2>2. Solves(T, 0, [t \in SUBSET T |-> 0])
    BY <2>1 DEF Solves
  <2>3. QED
    BY <2>2
<1>6. m - 1 \in Nat /\ m - 1 \notin bad
  BY <1>3, <1>5
<1>7. PICK h : Solves(T, m - 1, h)
  BY <1>6
<1> DEFINE w == Body(T, h)
<1>8. \A t \in SUBSET T : Cardinality(t) <= m - 1 => w[t] = h[t]
  BY <1>7 DEF Solves, Body
<1>9. ASSUME NEW t \in SUBSET T, Cardinality(t) <= m
      PROVE  w[t] = IF t = {} THEN 0
                    ELSE LET g == CHOOSE x \in t : TRUE IN Size(g) + w[t \ {g}]
  <2>1. CASE t = {}
    BY <2>1 DEF Body
  <2>2. CASE t # {}
    <3> DEFINE g == CHOOSE x \in t : TRUE
    <3>1. g \in t
      BY <2>2
    <3> HIDE DEF g
    <3>2. t \ {g} \in SUBSET T /\ Cardinality(t \ {g}) <= m - 1
      BY <1>4, <1>9, <3>1, Smaller
    <3>3. w[t \ {g}] = h[t \ {g}]
      BY <1>8, <3>2
    <3>4. w[t] = Size(g) + h[t \ {g}]
      BY <2>2 DEF Body, g
    <3>5. QED
      BY <2>2, <3>3, <3>4 DEF g
  <2>3. QED
    BY <2>1, <2>2
<1>10. Solves(T, m, w)
  <2> HIDE DEF w
  <2>1. QED
    BY <1>9 DEF Solves
<1>11. QED
  BY <1>10

LEMMA FoldedSolves ==
  ASSUME NEW T, IsFiniteSet(T) PROVE Folded(T) = Body(T, Folded(T))
<1>1. Cardinality(T) \in Nat
  BY FS_CardinalityType
<1>2. PICK h : Solves(T, Cardinality(T), h)
  BY <1>1, SolvedUpTo
<1>3. \A t \in SUBSET T : Cardinality(t) <= Cardinality(T)
  BY FS_Subset
<1> DEFINE w == Body(T, h)
<1>4. \A t \in SUBSET T : w[t] = h[t]
  BY <1>2, <1>3 DEF Solves, Body
<1>5. \A t \in SUBSET T : t # {} => (CHOOSE x \in t : TRUE) \in t
  OBVIOUS
<1>6. w = Body(T, w)
  BY <1>4, <1>5 DEF Body
<1> HIDE DEF w
<1>7. QED
  BY <1>6 DEF Folded

LEMMA PagesFolded ==
  ASSUME NEW T, IsFiniteSet(T) PROVE Pages(T) = Folded(T)[T]
  BY DEF Pages, MapThenSumSet, MapThenFoldSet, Folded, Body, Size

\* The folds of a set and of a part of it agree on the part.
LEMMA FoldsAgree ==
  ASSUME NEW T, IsFiniteSet(T), NEW U \in SUBSET T
  PROVE  Folded(T)[U] = Folded(U)[U]
<1> DEFINE bad == {n \in Nat : \E t \in SUBSET U :
                     Cardinality(t) = n /\ Folded(T)[t] # Folded(U)[t]}
<1>0. IsFiniteSet(U) /\ \A t \in SUBSET U : IsFiniteSet(t) /\ Cardinality(t) \in Nat
  BY FS_Subset, FS_CardinalityType
<1>1. SUFFICES bad = {}
  <2>1. U \in SUBSET U /\ Cardinality(U) \in Nat
    BY <1>0
  <2>2. QED
    BY <2>1
<1>2. SUFFICES ASSUME bad # {} PROVE FALSE
  OBVIOUS
<1>3. PICK n \in bad : \A k \in bad : n <= k
  <2>1. bad \subseteq Nat
    OBVIOUS
  <2> HIDE DEF bad
  <2>2. QED
    BY <1>2, <2>1, LeastNat
<1>4. PICK t \in SUBSET U : Cardinality(t) = n /\ Folded(T)[t] # Folded(U)[t]
  BY <1>3
<1>5. Folded(T) = Body(T, Folded(T)) /\ Folded(U) = Body(U, Folded(U))
  BY <1>0, FoldedSolves
<1>6. CASE t = {}
  <2>1. Folded(T)[t] = 0 /\ Folded(U)[t] = 0
    BY <1>5, <1>6 DEF Body
  <2>2. QED
    BY <1>4, <2>1
<1>7. CASE t # {}
  <2> DEFINE g == CHOOSE x \in t : TRUE
  <2>1. g \in t
    BY <1>7
  <2>2. /\ Folded(T)[t] = Size(g) + Folded(T)[t \ {g}]
        /\ Folded(U)[t] = Size(g) + Folded(U)[t \ {g}]
    BY <1>5, <1>7 DEF Body
  <2> HIDE DEF g
  <2>3. t \ {g} \in SUBSET U /\ Cardinality(t \ {g}) \in Nat /\ ~(n <= Cardinality(t \ {g}))
    BY <1>0, <1>4, <2>1, Smaller
  <2>4. Folded(T)[t \ {g}] = Folded(U)[t \ {g}]
    BY <1>3, <2>3
  <2>5. QED
    BY <1>4, <2>2, <2>4
<1>8. QED
  BY <1>6, <1>7

\* What the sum of the pages is made of.
LEMMA PagesUnfold ==
  ASSUME NEW T, IsFiniteSet(T)
  PROVE  /\ T = {} => Pages(T) = 0
         /\ T # {} => \E g \in T : Pages(T) = Size(g) + Pages(T \ {g})
<1>1. Pages(T) = Folded(T)[T] /\ Folded(T) = Body(T, Folded(T))
  BY PagesFolded, FoldedSolves
<1>2. CASE T = {}
  BY <1>1, <1>2 DEF Body
<1>3. CASE T # {}
  <2> DEFINE g == CHOOSE x \in T : TRUE
  <2>1. g \in T
    BY <1>3
  <2>2. Folded(T)[T] = Size(g) + Folded(T)[T \ {g}]
    BY <1>1, <1>3 DEF Body
  <2> HIDE DEF g
  <2>3. IsFiniteSet(T \ {g}) /\ T \ {g} \in SUBSET T
    BY <2>1, Smaller
  <2>4. Pages(T \ {g}) = Folded(T)[T \ {g}]
    BY <2>3, FoldsAgree, PagesFolded
  <2>5. QED
    BY <1>1, <1>3, <2>1, <2>2, <2>4
<1>4. QED
  BY <1>2, <1>3

LEMMA PagesType ==
  ASSUME NEW T \in SUBSET Regions PROVE Pages(T) \in Nat
<1> DEFINE bad == {n \in Nat : \E t \in SUBSET Regions : Cardinality(t) = n /\ Pages(t) \notin Nat}
<1>0. \A t \in SUBSET Regions : IsFiniteSet(t) /\ Cardinality(t) \in Nat
  BY RegionsFinite, FS_Subset, FS_CardinalityType
<1>1. SUFFICES bad = {}
  BY <1>0
<1>2. SUFFICES ASSUME bad # {} PROVE FALSE
  OBVIOUS
<1>3. PICK n \in bad : \A k \in bad : n <= k
  <2>1. bad \subseteq Nat
    OBVIOUS
  <2> HIDE DEF bad
  <2>2. QED
    BY <1>2, <2>1, LeastNat
<1>4. PICK t \in SUBSET Regions : Cardinality(t) = n /\ Pages(t) \notin Nat
  BY <1>3
<1>5. t # {} /\ IsFiniteSet(t)
  BY <1>0, <1>4, PagesUnfold
<1>6. PICK g \in t : Pages(t) = Size(g) + Pages(t \ {g})
  BY <1>5, PagesUnfold
<1>7. t \ {g} \in SUBSET Regions /\ Cardinality(t \ {g}) \in Nat /\ ~(n <= Cardinality(t \ {g}))
  BY <1>0, <1>4, Smaller
<1>8. Pages(t \ {g}) \in Nat
  BY <1>3, <1>7
<1>9. Size(g) \in Nat
  BY SizeType
<1>10. QED
  BY <1>4, <1>6, <1>8, <1>9

\* The sum does not depend on the order.
LEMMA PagesRemove ==
  ASSUME NEW T \in SUBSET Regions, NEW g \in T
  PROVE  Pages(T) = Size(g) + Pages(T \ {g})
<1> DEFINE bad == {n \in Nat : \E t \in SUBSET Regions : \E x \in t :
                     Cardinality(t) = n /\ Pages(t) # Size(x) + Pages(t \ {x})}
<1>0. \A t \in SUBSET Regions : IsFiniteSet(t) /\ Cardinality(t) \in Nat
  BY RegionsFinite, FS_Subset, FS_CardinalityType
<1>1. SUFFICES bad = {}
  BY <1>0
<1>2. SUFFICES ASSUME bad # {} PROVE FALSE
  OBVIOUS
<1>3. PICK n \in bad : \A k \in bad : n <= k
  <2>1. bad \subseteq Nat
    OBVIOUS
  <2> HIDE DEF bad
  <2>2. QED
    BY <1>2, <2>1, LeastNat
<1>4. PICK t \in SUBSET Regions, x \in Regions :
        x \in t /\ Cardinality(t) = n /\ Pages(t) # Size(x) + Pages(t \ {x})
  BY <1>3
<1>5. PICK c \in t : Pages(t) = Size(c) + Pages(t \ {c})
  <2>1. IsFiniteSet(t) /\ t # {}
    BY <1>0, <1>4
  <2>2. QED
    BY <2>1, PagesUnfold
<1>6. c # x
  BY <1>4, <1>5
<1>7. ASSUME NEW y \in t, NEW z \in t, y # z
      PROVE  Pages(t \ {y}) = Size(z) + Pages(t \ {y, z})
  <2>1. t \ {y} \in SUBSET Regions /\ z \in t \ {y} /\ (t \ {y}) \ {z} = t \ {y, z}
    BY <1>7
  <2>2. Cardinality(t \ {y}) \in Nat /\ ~(n <= Cardinality(t \ {y}))
    BY <1>0, <1>4, Smaller
  <2>3. Pages(t \ {y}) = Size(z) + Pages((t \ {y}) \ {z})
    <3>1. Cardinality(t \ {y}) \notin bad
      BY <1>3, <2>2
    <3>2. QED
      BY <2>1, <2>2, <3>1
  <2>4. QED
    BY <2>1, <2>3
<1>8. /\ Pages(t \ {c}) = Size(x) + Pages(t \ {c, x})
      /\ Pages(t \ {x}) = Size(c) + Pages(t \ {c, x})
  <2>1. t \ {c, x} = t \ {x, c}
    OBVIOUS
  <2>2. Pages(t \ {c}) = Size(x) + Pages(t \ {c, x})
    BY <1>4, <1>6, <1>7
  <2>3. Pages(t \ {x}) = Size(c) + Pages(t \ {x, c})
    BY <1>4, <1>6, <1>7
  <2>4. QED
    BY <2>1, <2>2, <2>3
<1>9. Size(x) \in Int /\ Size(c) \in Int /\ Pages(t \ {c, x}) \in Int
  <2>1. Size(x) \in Nat /\ Size(c) \in Nat
    BY SizeType
  <2>2. Pages(t \ {c, x}) \in Nat
    BY PagesType
  <2>3. QED
    BY <2>1, <2>2
<1>10. QED
  BY <1>4, <1>5, <1>8, <1>9

\* Fewer regions have no more pages.
LEMMA PagesMonotone ==
  ASSUME NEW T \in SUBSET Regions, NEW U \in SUBSET T
  PROVE  Pages(U) <= Pages(T)
<1> DEFINE bad == {n \in Nat : \E t \in SUBSET Regions :
                     U \subseteq t /\ Cardinality(t) = n /\ ~(Pages(U) <= Pages(t))}
<1>0. \A t \in SUBSET Regions : IsFiniteSet(t) /\ Cardinality(t) \in Nat
  BY RegionsFinite, FS_Subset, FS_CardinalityType
<1>1. SUFFICES bad = {}
  BY <1>0
<1>2. SUFFICES ASSUME bad # {} PROVE FALSE
  OBVIOUS
<1>3. PICK n \in bad : \A k \in bad : n <= k
  <2>1. bad \subseteq Nat
    OBVIOUS
  <2> HIDE DEF bad
  <2>2. QED
    BY <1>2, <2>1, LeastNat
<1>4. PICK t \in SUBSET Regions : U \subseteq t /\ Cardinality(t) = n /\ ~(Pages(U) <= Pages(t))
  BY <1>3
<1>5. U # t
  <2>1. Pages(t) \in Nat
    BY PagesType
  <2>2. QED
    BY <1>4, <2>1
<1>6. PICK g \in t : g \notin U
  BY <1>4, <1>5
<1>7. /\ t \ {g} \in SUBSET Regions /\ U \subseteq t \ {g}
      /\ Cardinality(t \ {g}) \in Nat /\ ~(n <= Cardinality(t \ {g}))
  BY <1>0, <1>4, <1>6, Smaller
<1>8. Pages(U) <= Pages(t \ {g})
  BY <1>3, <1>7
<1>9. Pages(t) = Size(g) + Pages(t \ {g})
  BY PagesRemove
<1>10. Pages(U) \in Nat /\ Pages(t \ {g}) \in Nat /\ Size(g) \in Nat
  BY <1>7, PagesType, SizeType
<1>11. QED
  BY <1>4, <1>8, <1>9, <1>10
-----------------------------------------------------------------------------
(* Who may count on what room.                                             *)

\* The preflight has not counted a problem yet.
Before(l) == pc[l] \in {"idle", "clean", "remove", "shm"} \/ (pc[l] = "wipe" /\ l \in WipeFirst)

\* The preflight has let the launch pass.
Past(l) == pc[l] = "running" \/ (pc[l] = "wipe" /\ l \notin WipeFirst)

VerdictInv ==
  /\ \A l \in Launches : Before(l) => problems[l] = 0
  /\ \A l \in Launches : Past(l) /\ l \notin Unsafe => problems[l] = 0

\* A launch without a problem so far, whose room nobody took since its preflight looked ...
CountsOnRoom(l) == Expectant(l) /\ l \notin squeezed /\ problems[l] = 0

\* ... still has that room, in /dev/shm and, once it has looked at that too, in memory.
HasRoom(l) ==
  /\ ShmUsed + Bytes[EngineId[l]] <= ShmTotal
  /\ pc[l] # "ram" => ShmUsed + Needed(l) <= RamTotal

RoomIsKept == \A l \in Launches : CountsOnRoom(l) => HasRoom(l)

\* What accepted, unsqueezed launches hold leaves the reserve, whatever others hold.
Accepted == {g \in InUse : g[1] \notin squeezed \cup Unsafe}

AcceptedLeaveReserve == Pages(Accepted) + Reserve <= RamTotal

RoomInv == VerdictInv /\ RoomIsKept /\ AcceptedLeaveReserve

LEMMA UseType ==
  /\ InUse \in SUBSET Regions /\ Accepted \in SUBSET InUse
  /\ ShmUsed \in Nat /\ Pages(Accepted) \in Nat
<1>1. InUse \in SUBSET Regions /\ Accepted \in SUBSET InUse
  BY DEF InUse, Accepted
<1>2. Accepted \in SUBSET Regions
  BY <1>1
<1>3. Pages(InUse) \in Nat /\ Pages(Accepted) \in Nat
  BY <1>1, <1>2, PagesType
<1>4. QED
  BY <1>1, <1>3 DEF ShmUsed

LEMMA BytesType ==
  ASSUME NEW l \in Launches
  PROVE  /\ EngineId[l] \in Ids /\ Bytes[EngineId[l]] \in Nat
         /\ Needed(l) = Bytes[EngineId[l]] + Reserve
         /\ ShmTotal \in Nat /\ RamTotal \in Nat /\ Reserve \in Nat
  BY LaunchesAssumption DEF Needed

\* No check failed.
LEMMA FailedNone ==
  ASSUME NEW n \in Nat, NEW checks, DOMAIN checks = 1..n, Failed(checks) = 0,
         NEW c \in 1..n
  PROVE  checks[c]
<1> DEFINE bad == {i \in DOMAIN checks : ~checks[i]}
<1>1. IsFiniteSet(bad)
  <2>1. IsFiniteSet(1..n) /\ bad \subseteq 1..n
    BY FS_Interval
  <2>2. QED
    BY <2>1, FS_Subset
<1>2. Cardinality(bad) = 0
  BY DEF Failed
<1>3. bad = {}
  BY <1>1, <1>2, FS_EmptySet
<1>4. c \notin bad
  BY <1>3
<1>5. QED
  BY <1>4

\* Whoever gives regions back takes nobody's room.
LEMMA GiveBack ==
  ASSUME RoomIsKept, AcceptedLeaveReserve, InUse' \subseteq InUse, squeezed' = squeezed,
         problems' = problems,
         \A k \in Launches : Expectant(k)' =>
           Expectant(k) /\ (pc[k] = "ram" => pc'[k] = "ram")
  PROVE  RoomIsKept' /\ AcceptedLeaveReserve'
<1>1. Pages(InUse') \in Nat /\ Pages(InUse') <= Pages(InUse) /\ Pages(InUse) \in Nat
  <2>1. InUse \in SUBSET Regions /\ InUse' \in SUBSET InUse /\ InUse' \in SUBSET Regions
    BY UseType
  <2>2. QED
    BY <2>1, PagesType, PagesMonotone
<1>2. ShmUsed' = Pages(InUse') /\ ShmUsed = Pages(InUse)
  BY DEF ShmUsed
<1>3. ASSUME NEW k \in Launches, CountsOnRoom(k)' PROVE HasRoom(k)'
  <2>1. CountsOnRoom(k) /\ (pc[k] = "ram" => pc'[k] = "ram")
    BY <1>3 DEF CountsOnRoom
  <2>2. HasRoom(k)
    BY <2>1 DEF RoomIsKept
  <2>3. Needed(k)' = Needed(k)
    BY DEF Needed
  <2>4. QED
    BY <1>1, <1>2, <2>1, <2>2, <2>3, BytesType DEF HasRoom
<1>4. RoomIsKept'
  BY <1>3 DEF RoomIsKept
<1>5. AcceptedLeaveReserve'
  <2>1. Accepted' \in SUBSET Accepted /\ Accepted' \in SUBSET Regions /\ Accepted \in SUBSET Regions
    BY UseType DEF Accepted
  <2>2. Pages(Accepted') <= Pages(Accepted) /\ Pages(Accepted') \in Nat /\ Pages(Accepted) \in Nat
    BY <2>1, PagesType, PagesMonotone
  <2>3. Pages(Accepted)' = Pages(Accepted')
    OBVIOUS
  <2>4. QED
    BY <2>2, <2>3, LaunchesAssumption DEF AcceptedLeaveReserve
<1>6. QED
  BY <1>4, <1>5

\* Where a step takes a launch: to the preflight only from before it, and past it only
\* from there, without a problem, or because its operator insists.
Passes(l, to) ==
  /\ pc' = [pc EXCEPT ![l] = to]
  /\ (to \in {"idle", "clean", "remove", "shm"} \/ (to = "wipe" /\ l \in WipeFirst))
       => Before(l)
  /\ (to = "running" \/ (to = "wipe" /\ l \notin WipeFirst))
       => Past(l) \/ problems[l] = 0 \/ l \in Unsafe

\* A launch passes its preflight without a problem, or because its operator insists.
LEMMA VerdictStep ==
  ASSUME TypeInv, VerdictInv, Next
  PROVE  VerdictInv'
<1>1. PICK l \in Launches : Launcher(l) \/ Engine(l) \/ Stop(l) \/ StopRemove(l)
  BY DEF Next
<1>2. pc \in [Launches -> PCs] /\ problems \in [Launches -> 0..3]
  BY DEF TypeInv, TypeOK
<1>3. CASE CheckShm(l) \/ CheckRam(l)
  <2>1. PICK n : problems' = [problems EXCEPT ![l] = n]
    BY <1>3 DEF CheckShm, CheckRam
  <2>2. pc' = [pc EXCEPT ![l] = IF pc[l] = "shm" THEN "ram" ELSE "verdict"]
    BY <1>3 DEF CheckShm, CheckRam, Step
  <2>3. ~Before(l)' /\ ~Past(l)'
    BY <1>2, <2>2 DEF Before, Past
  <2>4. \A k \in Launches \ {l} :
          /\ problems'[k] = problems[k]
          /\ (Before(k)' <=> Before(k)) /\ (Past(k)' <=> Past(k))
    BY <1>2, <2>1, <2>2 DEF Before, Past
  <2>5. QED
    BY <2>3, <2>4 DEF VerdictInv
<1>4. CASE ~(CheckShm(l) \/ CheckRam(l))
  <2>1. problems' = problems
    BY <1>1, <1>4 DEF Launcher, Engine, Start, Clean, CleanRemove, Verdict, Wipe, Stop,
       StopRemove, Open, Map, RankExit, Store, Unlink, Die
  <2>2. PICK to \in PCs : Passes(l, to)
    <3>1. CASE Start(l)
      <4>1. Passes(l, Afresh(l))
        BY <3>1 DEF Start, Step, Afresh, Before, Past, Passes
      <4>2. Afresh(l) \in PCs
        BY DEF Afresh, PCs, Launching
      <4>3. QED
        BY <4>1, <4>2
    <3>2. CASE Clean(l) \/ CleanRemove(l)
      <4>1. Passes(l, "remove") \/ Passes(l, "shm")
        BY <3>2 DEF Clean, CleanRemove, Look, Step, Before, Passes
      <4>2. QED
        BY <4>1 DEF PCs, Launching
    <3>3. CASE Verdict(l)
      <4>1. Passes(l, "refused") \/ Passes(l, "checked") \/ Passes(l, Launch(l))
        BY <3>3 DEF Verdict, Step, Launch, Passes
      <4>2. QED
        BY <4>1 DEF Launch, PCs, Launching
    <3>4. CASE Wipe(l)
      <4>1. Passes(l, "clean") \/ Passes(l, "running")
        BY <3>4 DEF Wipe, Step, Before, Past, Passes
      <4>2. QED
        BY <4>1 DEF PCs, Launching
    <3>5. CASE Stop(l) \/ StopRemove(l)
      <4>1. Passes(l, "stopRemove") \/ Passes(l, "stopped")
        BY <3>5 DEF Stop, StopRemove, Look, Step, Passes
      <4>2. QED
        BY <4>1 DEF PCs
    <3>6. CASE Engine(l) /\ pc' # pc
      <4>1. Passes(l, "noRoom") \/ Passes(l, "dead")
        BY <3>6 DEF Engine, Open, Map, RankExit, Store, Unlink, Die, Step, Passes
      <4>2. QED
        BY <4>1 DEF PCs
    <3>7. CASE pc' = pc
      <4>1. Passes(l, pc[l])
        BY <1>2, <3>7 DEF Before, Past, Passes
      <4>2. QED
        BY <1>2, <4>1
    <3>8. QED
      BY <1>1, <1>4, <3>1, <3>2, <3>3, <3>4, <3>5, <3>6, <3>7 DEF Launcher
  <2>3. \A k \in Launches : pc'[k] = IF k = l THEN to ELSE pc[k]
    BY <1>2, <2>2 DEF Passes
  <2>4. ASSUME NEW k \in Launches
        PROVE  /\ Before(k)' => problems'[k] = 0
               /\ Past(k)' /\ k \notin Unsafe => problems'[k] = 0
    <3>1. CASE k = l
      BY <2>1, <2>2, <2>3, <3>1 DEF VerdictInv, Before, Past, Passes
    <3>2. CASE k # l
      BY <2>1, <2>3, <3>2 DEF VerdictInv, Before, Past
    <3>3. QED
      BY <3>1, <3>2
  <2>5. QED
    BY <2>4 DEF VerdictInv
<1>5. QED
  BY <1>3, <1>4

\* The preflight's looks at the free space, and at the free memory.
LEMMA CheckStep ==
  ASSUME IInv, TypeInv, RoomInv, NEW l \in Launches, CheckShm(l) \/ CheckRam(l)
  PROVE  RoomIsKept' /\ AcceptedLeaveReserve'
<1>1. UNCHANGED <<name, opened, squeezed>>
  BY DEF CheckShm, CheckRam
<1>2. InUse' = InUse /\ Accepted' = Accepted
  BY <1>1 DEF InUse, Accepted
<1>3. ShmUsed' = ShmUsed /\ Pages(Accepted)' = Pages(Accepted)
  BY <1>2 DEF ShmUsed
<1>4. AcceptedLeaveReserve'
  BY <1>3 DEF RoomInv, AcceptedLeaveReserve
<1>5. /\ pc \in [Launches -> PCs] /\ problems \in [Launches -> 0..3]
      /\ (pc[l] = "ram" => problems[l] \in 0..2)
  BY DEF TypeInv, TypeOK
<1>6. ASSUME NEW k \in Launches, k # l, CountsOnRoom(k)' PROVE HasRoom(k)'
  <2>1. pc'[k] = pc[k] /\ problems'[k] = problems[k]
    BY <1>5, <1>6 DEF CheckShm, CheckRam, Step
  <2>2. CountsOnRoom(k)
    BY <1>1, <1>6, <2>1 DEF CountsOnRoom, Expectant, Processes
  <2>3. HasRoom(k)
    BY <2>2 DEF RoomInv, RoomIsKept
  <2>4. QED
    BY <1>3, <2>1, <2>3 DEF HasRoom, Needed
<1>7. ASSUME CountsOnRoom(l)' PROVE HasRoom(l)'
  <2>1. problems'[l] = 0 /\ l \notin squeezed /\ Processes(l) = {}
    BY <1>1, <1>7 DEF CountsOnRoom, Expectant, Processes
  <2>2. CASE CheckShm(l)
    <3> DEFINE checks == <<ShmTotal >= Bytes[EngineId[l]], ShmFree >= Bytes[EngineId[l]]>>
    <3>1. pc'[l] = "ram" /\ Failed(checks) = 0
      BY <1>5, <2>1, <2>2 DEF CheckShm, Step
    <3>2. DOMAIN checks = 1..2 /\ 2 \in 1..2
      OBVIOUS
    <3> HIDE DEF checks
    <3>3. checks[2]
      BY <3>1, <3>2, FailedNone
    <3>4. ShmFree >= Bytes[EngineId[l]]
      BY <3>3 DEF checks
    <3>5. ShmTotal - ShmUsed >= Bytes[EngineId[l]]
      BY <3>4 DEF ShmFree
    <3>6. QED
      BY <1>3, <3>1, <3>5, UseType, BytesType DEF HasRoom
  <2>3. CASE CheckRam(l)
    <3> DEFINE checks == <<MemAvailable >= Needed(l)>>
    <3>1. pc[l] = "ram" /\ problems'[l] = problems[l] + Failed(checks)
      BY <1>5, <2>3 DEF CheckRam, Step
    <3>2. DOMAIN checks = 1..1 /\ 1 \in 1..1
      OBVIOUS
    <3> HIDE DEF checks
    <3>3. Failed(checks) \in 0..1
      BY <3>2, FailedAtMost
    <3>4. problems[l] = 0 /\ Failed(checks) = 0
      BY <1>5, <2>1, <3>1, <3>3
    <3>5. checks[1]
      BY <3>2, <3>4, FailedNone
    <3>6. RamTotal - ShmUsed >= Needed(l)
      BY <3>5 DEF checks, MemAvailable
    <3>7. HasRoom(l)
      BY <2>1, <3>1, <3>4 DEF RoomInv, RoomIsKept, CountsOnRoom, Expectant
    <3>8. Needed(l)' = Needed(l)
      BY DEF Needed
    <3>9. QED
      BY <1>3, <3>6, <3>7, <3>8, UseType, BytesType DEF HasRoom
  <2>4. QED
    BY <2>2, <2>3
<1>8. RoomIsKept'
  BY <1>6, <1>7 DEF RoomIsKept
<1>9. QED
  BY <1>4, <1>8

\* A rank that finds no file is its launch's first.
LEMMA FirstRank ==
  ASSUME IInv, NEW l \in Launches, NEW r \in Ranks, pc[l] = "running",
         opened[l][r] = None, name[EngineId[l]] = None
  PROVE  Processes(l) = {} /\ Expectant(l)
<1>1. Cleaned(l)
  BY DEF Cleaned
<1>2. ~AllMapped(l)
  BY DEF AllMapped, IInv, OwnProcesses, OwnProcessesOf
<1>3. \A s \in Ranks : opened[l][s] = None
  BY <1>1, <1>2 DEF IInv, FileFollowsLaunch
<1>4. QED
  BY <1>3 DEF Processes, Expectant

\* The first rank creates the region: if its launch counted on the room, the room was there.
LEMMA CreateStep ==
  ASSUME IInv, TypeInv, RoomInv, NEW l \in Launches, NEW r \in Ranks,
         Open(l, r), name[EngineId[l]] = None, opened' # opened
  PROVE  RoomIsKept' /\ AcceptedLeaveReserve'
<1> DEFINE new == <<l, r>>
<1>1. /\ pc[l] = "running" /\ opened[l][r] = None /\ pc' = pc /\ problems' = problems
      /\ name' = [name EXCEPT ![EngineId[l]] = new]
      /\ opened' = [opened EXCEPT ![l][r] = new]
      /\ squeezed' = squeezed \cup {k \in Launches \ {l} : Expectant(k)}
  BY DEF Open
<1>2. Processes(l) = {} /\ Expectant(l)
  BY <1>1, FirstRank
<1>3. new \in Regions /\ RegionId(new) = EngineId[l] /\ new # None
  BY LaunchesAssumption DEF Regions, RegionId
<1>4. /\ \A k \in Launches \ {l} : opened'[k] = opened[k]
      /\ \A k \in Launches, s \in Ranks : opened'[k][s] \in {opened[k][s], new}
      /\ opened'[l][r] = new
      /\ \A id \in Ids : name'[id] \in {name[id], new}
  BY <1>1 DEF IInv, Types
<1>5. InUse' \subseteq InUse \cup {new}
  BY <1>4 DEF InUse
<1>6. \A k \in Launches : ~CountsOnRoom(k)'
  <2>1. ~Expectant(l)'
    BY <1>3, <1>4 DEF Expectant, Processes
  <2>2. ASSUME NEW k \in Launches \ {l}, Expectant(k)' PROVE k \in squeezed'
    <3>1. Expectant(k)
      BY <1>1, <1>4, <2>2 DEF Expectant, Processes
    <3>2. QED
      BY <1>1, <3>1
  <2>3. QED
    BY <2>1, <2>2 DEF CountsOnRoom
<1>7. RoomIsKept'
  BY <1>6 DEF RoomIsKept
<1>8. /\ Accepted' \in SUBSET (Accepted \cup {new})
      /\ l \in squeezed \cup Unsafe => Accepted' \in SUBSET Accepted
      /\ Accepted \in SUBSET Regions /\ Accepted' \in SUBSET Regions
  <2>1. squeezed \subseteq squeezed' /\ new[1] = l
    BY <1>1
  <2>2. ASSUME NEW g \in Accepted'
        PROVE  g \in Accepted \/ (g = new /\ l \notin squeezed \cup Unsafe)
    <3>1. g \in InUse \cup {new} /\ g[1] \notin squeezed' \cup Unsafe
      BY <1>5, <2>2 DEF Accepted
    <3>2. QED
      BY <2>1, <3>1 DEF Accepted
  <2>3. Accepted \in SUBSET Regions
    BY UseType
  <2>4. QED
    BY <1>3, <2>2, <2>3
<1>9. Pages(Accepted') + Reserve <= RamTotal
  <2>0. /\ Pages(Accepted) \in Nat /\ Pages(Accepted') \in Nat
        /\ ShmUsed \in Nat /\ Pages(Accepted) <= ShmUsed
    BY <1>8, PagesType, PagesMonotone, UseType DEF ShmUsed
  <2>1. CASE l \in squeezed \cup Unsafe
    <3>1. Pages(Accepted') <= Pages(Accepted)
      BY <1>8, <2>1, PagesMonotone
    <3>2. QED
      BY <2>0, <3>1, LaunchesAssumption DEF RoomInv, AcceptedLeaveReserve
  <2>2. CASE l \notin squeezed \cup Unsafe
    <3>1. ShmUsed + Needed(l) <= RamTotal
      BY <1>1, <1>2, <2>2 DEF RoomInv, VerdictInv, Past, CountsOnRoom, RoomIsKept, HasRoom
    <3> DEFINE more == Accepted \cup {new}
    <3>2. more \in SUBSET Regions /\ new \in more /\ more \ {new} \in SUBSET Accepted
          /\ more \ {new} \in SUBSET Regions
      BY <1>3, <1>8
    <3> HIDE DEF more
    <3>3. Pages(more) = Size(new) + Pages(more \ {new})
      BY <3>2, PagesRemove
    <3>4. Size(new) = Bytes[EngineId[l]]
      BY <1>3 DEF Size
    <3>5. Pages(more \ {new}) <= Pages(Accepted) /\ Pages(more \ {new}) \in Nat
          /\ Pages(more) \in Nat
      BY <1>8, <3>2, PagesMonotone, PagesType
    <3>6. Pages(Accepted') <= Pages(more)
      <4>1. Accepted' \in SUBSET more
        BY <1>8 DEF more
      <4>2. QED
        BY <3>2, <4>1, PagesMonotone
    <3>7. QED
      BY <2>0, <3>1, <3>3, <3>4, <3>5, <3>6, BytesType
  <2>3. QED
    BY <2>1, <2>2
<1>10. AcceptedLeaveReserve'
  BY <1>9 DEF AcceptedLeaveReserve
<1>11. QED
  BY <1>7, <1>10

\* Every other step only gives regions back, or adopts one that is named already.
LEMMA OtherStep ==
  ASSUME IInv, TypeInv, RoomInv, NEW l \in Launches,
         Launcher(l) \/ Engine(l) \/ Stop(l) \/ StopRemove(l),
         ~CheckShm(l), ~CheckRam(l),
         \A r \in Ranks : Open(l, r) => name[EngineId[l]] # None \/ opened' = opened
  PROVE  RoomIsKept' /\ AcceptedLeaveReserve'
<1>1. /\ problems' = problems /\ EngineId[l] \in Ids
      /\ pc \in [Launches -> PCs]
      /\ name \in [Ids -> Regions \cup {None}]
      /\ opened \in [Launches -> [Ranks -> Regions \cup {None}]]
  BY LaunchesAssumption DEF TypeInv, TypeOK, Launcher, Engine, Start, Clean, CleanRemove,
     Verdict, Wipe, Stop, StopRemove, Open, Map, RankExit, Store, Unlink, Die
<1>2. CASE Launcher(l) \/ Stop(l) \/ StopRemove(l) \/ Unlink(l) \/ Die(l)
  <2>1. /\ opened' = opened /\ squeezed' = squeezed
        /\ name' = name \/ name' = [name EXCEPT ![EngineId[l]] = None]
    BY <1>2 DEF Launcher, Start, Clean, CleanRemove, Verdict, Wipe, Stop, StopRemove,
       CheckShm, CheckRam, Remove, Unlink, Die
  <2>2. \A id \in Ids : name'[id] \in {name[id], None}
    BY <1>1, <2>1
  <2>3. InUse' \subseteq InUse
    BY <2>1, <2>2, LaunchesAssumption DEF InUse
  <2>4. \A k \in Launches : Processes(k)' = Processes(k)
    BY <2>1 DEF Processes
  <2>5. \A k \in Launches \ {l} : pc'[k] = pc[k]
    BY <1>1, <1>2 DEF Launcher, Start, Clean, CleanRemove, Verdict, Wipe, Stop, StopRemove,
       CheckShm, CheckRam, Unlink, Die, Look, Step
  <2>6. pc'[l] \notin {"ram", "verdict"}
        /\ (pc'[l] = "running" => pc[l] \in {"verdict", "wipe", "running"})
        /\ (pc'[l] = "running" /\ pc[l] = "wipe" => l \notin WipeFirst)
        /\ (pc'[l] = "wipe" /\ l \notin WipeFirst => pc[l] = "verdict")
    <3>1. CASE Start(l) \/ Clean(l) \/ CleanRemove(l)
      BY <1>1, <3>1 DEF Start, Clean, CleanRemove, Look, Step, Afresh
    <3>2. CASE Verdict(l)
      BY <1>1, <3>2 DEF Verdict, Step, Launch
    <3>3. CASE Wipe(l)
      BY <1>1, <3>3 DEF Wipe, Step
    <3>4. CASE Stop(l) \/ StopRemove(l) \/ Unlink(l) \/ Die(l)
      BY <1>1, <3>4 DEF Stop, StopRemove, Unlink, Die, Look, Step
    <3>5. QED
      BY <1>2, <3>1, <3>2, <3>3, <3>4 DEF Launcher
  <2>7. \A k \in Launches : Expectant(k)' => Expectant(k) /\ (pc[k] = "ram" => pc'[k] = "ram")
    BY <2>4, <2>5, <2>6 DEF Expectant
  <2>8. QED
    BY <1>1, <2>1, <2>3, <2>7, GiveBack DEF RoomInv
<1>3. ASSUME NEW r \in Ranks, Open(l, r), opened' # opened
      PROVE  RoomIsKept' /\ AcceptedLeaveReserve'
  <2>1. /\ name[EngineId[l]] # None /\ pc' = pc /\ name' = name /\ squeezed' = squeezed
        /\ opened' = [opened EXCEPT ![l][r] = name[EngineId[l]]]
    BY <1>3 DEF Open
  <2>2. /\ \A k \in Launches \ {l} : opened'[k] = opened[k]
        /\ \A k \in Launches, s \in Ranks : opened'[k][s] \in {opened[k][s], name[EngineId[l]]}
        /\ opened'[l][r] = name[EngineId[l]]
    BY <1>1, <2>1
  <2>3. InUse' \subseteq InUse
    BY <1>1, <2>1, <2>2 DEF InUse
  <2>4. \A k \in Launches : Expectant(k)' => Expectant(k) /\ (pc[k] = "ram" => pc'[k] = "ram")
    BY <2>1, <2>2 DEF Expectant, Processes
  <2>5. QED
    BY <1>1, <2>1, <2>3, <2>4, GiveBack DEF RoomInv
<1>4. ASSUME NEW r \in Ranks, RankExit(l, r) PROVE RoomIsKept' /\ AcceptedLeaveReserve'
  <2>1. /\ pc[l] \in {"dead", "noRoom"} /\ pc' = pc /\ name' = name /\ squeezed' = squeezed
        /\ opened' = [opened EXCEPT ![l][r] = None]
    BY <1>4 DEF RankExit
  <2>2. /\ \A k \in Launches \ {l} : opened'[k] = opened[k]
        /\ \A k \in Launches, s \in Ranks : opened'[k][s] \in {opened[k][s], None}
    BY <1>1, <2>1
  <2>3. InUse' \subseteq InUse
    BY <1>1, <2>1, <2>2, LaunchesAssumption DEF InUse
  <2>4. \A k \in Launches : Expectant(k)' => Expectant(k) /\ (pc[k] = "ram" => pc'[k] = "ram")
    BY <2>1, <2>2 DEF Expectant, Processes
  <2>5. QED
    BY <1>1, <2>1, <2>3, <2>4, GiveBack DEF RoomInv
<1>5. CASE /\ UNCHANGED <<name, opened, squeezed>>
           /\ pc' = pc \/ pc' = [pc EXCEPT ![l] = "noRoom"]
  <2>1. InUse' \subseteq InUse
    BY <1>5 DEF InUse
  <2>2. \A k \in Launches : Expectant(k)' => pc'[k] = pc[k] /\ Expectant(k)
    BY <1>1, <1>5 DEF Expectant, Processes
  <2>3. QED
    BY <1>1, <1>5, <2>1, <2>2, GiveBack DEF RoomInv
<1>6. QED
  <2>1. ASSUME NEW r \in Ranks, Open(l, r), opened' = opened
        PROVE  RoomIsKept' /\ AcceptedLeaveReserve'
    <3>1. UNCHANGED <<name, squeezed>> /\ (pc' = pc \/ pc' = [pc EXCEPT ![l] = "noRoom"])
      <4>1. opened[l][r] = None /\ <<l, r>> # None
        BY <2>1, LaunchesAssumption DEF Open, Regions
      <4>2. opened' # [opened EXCEPT ![l][r] = <<l, r>>]
        BY <1>1, <2>1, <4>1
      <4>3. QED
        BY <2>1, <4>2 DEF Open
    <3>2. QED
      BY <1>5, <2>1, <3>1
  <2>2. CASE Store(l)
    BY <1>5, <2>2 DEF Store
  <2>3. ASSUME NEW r \in Ranks, Map(l, r) PROVE RoomIsKept' /\ AcceptedLeaveReserve'
    BY <1>5, <2>3 DEF Map
  <2>4. QED
    BY <1>2, <1>3, <1>4, <2>1, <2>2, <2>3 DEF Engine

LEMMA RoomStep ==
  ASSUME IInv, TypeInv, RoomInv, [Next]_vars
  PROVE  RoomInv'
<1>1. CASE Next
  <2>1. VerdictInv'
    BY <1>1, VerdictStep DEF RoomInv
  <2>2. PICK l \in Launches : Launcher(l) \/ Engine(l) \/ Stop(l) \/ StopRemove(l)
    BY <1>1 DEF Next
  <2>3. RoomIsKept' /\ AcceptedLeaveReserve'
    BY <2>2, CheckStep, CreateStep, OtherStep
  <2>4. QED
    BY <2>1, <2>3 DEF RoomInv
<1>2. CASE UNCHANGED vars
  <2>1. UNCHANGED <<pc, problems, name, opened, squeezed>> /\ InUse' = InUse
    BY <1>2 DEF vars, InUse
  <2>2. VerdictInv'
    BY <2>1 DEF RoomInv, VerdictInv, Before, Past
  <2>3. \A k \in Launches : Expectant(k)' => Expectant(k) /\ (pc[k] = "ram" => pc'[k] = "ram")
    BY <2>1 DEF Expectant, Processes
  <2>4. QED
    BY <2>1, <2>2, <2>3, GiveBack DEF RoomInv
<1>3. QED
  BY <1>1, <1>2

LEMMA RoomInit == Init => RoomInv
<1> SUFFICES ASSUME Init PROVE RoomInv
  OBVIOUS
<1>1. VerdictInv
  BY DEF Init, VerdictInv, Before, Past
<1>2. RoomIsKept
  BY DEF Init, RoomIsKept, CountsOnRoom, Expectant
<1>3. AcceptedLeaveReserve
  <2>1. RamTotal - ShmUsed >= Reserve
    BY DEF Init, MemAvailable
  <2>2. Pages(Accepted) <= ShmUsed /\ Pages(Accepted) \in Nat /\ ShmUsed \in Nat
    BY UseType, PagesMonotone DEF ShmUsed
  <2>3. QED
    BY <2>1, <2>2, LaunchesAssumption DEF AcceptedLeaveReserve
<1>4. QED
  BY <1>1, <1>2, <1>3 DEF RoomInv

\* What an accepted launch was promised stays there for it until it takes it.
THEOREM RoomInvariance == ASSUME ~Overlap PROVE Spec => []RoomInv
<1>1. Spec => []IInv
  BY Invariance
<1>2. IInv /\ TypeInv /\ RoomInv /\ [Next]_vars => RoomInv'
  BY RoomStep
<1>3. QED
  BY <1>1, <1>2, RoomInit, TypeInvariance, PTL DEF Spec

\* An engine whose launch passed the preflight finds room, unless another took it.
THEOREM AcceptedFind == ASSUME ~Overlap PROVE Spec => AcceptedFindsRoom
<1>1. ASSUME IInv, TypeInv, RoomInv, [Next]_vars,
             NEW l \in Launches, pc[l] = "running", pc'[l] = "noRoom"
      PROVE  l \in squeezed \cup Unsafe
  <2>0. pc \in [Launches -> PCs]
    BY <1>1 DEF TypeInv, TypeOK
  <2>1. PICK k \in Launches : Launcher(k) \/ Engine(k) \/ Stop(k) \/ StopRemove(k)
    BY <1>1 DEF Next, vars
  <2>2. PICK r \in Ranks : Open(l, r) /\ name[EngineId[l]] = None /\ ShmFree < Bytes[EngineId[l]]
    <3>1. k = l /\ \E r \in Ranks : Open(k, r)
      <4>1. CASE Launcher(k) \/ Stop(k) \/ StopRemove(k)
        BY <1>1, <2>0, <4>1 DEF Launcher, Start, Clean, CleanRemove, CheckShm, CheckRam,
           Verdict, Wipe, Stop, StopRemove, Look, Step, Afresh, Launch
      <4>2. CASE Engine(k)
        BY <1>1, <2>0, <4>2 DEF Engine, Open, Map, RankExit, Store, Unlink, Die, Step
      <4>3. QED
        BY <2>1, <4>1, <4>2
    <3>2. QED
      BY <1>1, <2>0, <3>1 DEF Open
  <2>3. opened[l][r] = None
    BY <2>2 DEF Open
  <2>4. Expectant(l)
    BY <1>1, <2>2, <2>3, FirstRank
  <2>5. ASSUME l \notin squeezed, l \notin Unsafe PROVE FALSE
    <3>1. HasRoom(l)
      BY <1>1, <2>4, <2>5 DEF RoomInv, VerdictInv, Past, RoomIsKept, CountsOnRoom
    <3>2. ShmTotal - ShmUsed < Bytes[EngineId[l]]
      BY <2>2 DEF ShmFree
    <3>3. QED
      BY <3>1, <3>2, UseType, BytesType DEF HasRoom
  <2>6. QED
    BY <2>5
<1>2. IInv /\ TypeInv /\ RoomInv /\ [Next]_vars =>
        [\A l \in Launches : pc[l] = "running" /\ pc'[l] = "noRoom" =>
           l \in squeezed \cup Unsafe]_vars
  BY <1>1
<1>3. Spec => []IInv /\ []RoomInv
  BY Invariance, RoomInvariance
<1>4. QED
  BY <1>2, <1>3, TypeInvariance, PTL DEF Spec, AcceptedFindsRoom

\* As long as only accepted, unsqueezed launches hold regions, the reserve is kept.
THEOREM ReserveStays == ASSUME ~Overlap PROVE Spec => []ReserveKept
<1>1. ASSUME RoomInv, \A g \in InUse : g[1] \notin squeezed \cup Unsafe
      PROVE  MemAvailable >= Reserve
  <2>1. Accepted = InUse
    BY <1>1 DEF Accepted
  <2>2. ShmUsed + Reserve <= RamTotal
    BY <1>1, <2>1 DEF RoomInv, AcceptedLeaveReserve, ShmUsed
  <2>3. QED
    BY <2>2, UseType, LaunchesAssumption DEF MemAvailable
<1>2. RoomInv => ReserveKept
  BY <1>1 DEF ReserveKept
<1>3. Spec => []RoomInv
  BY RoomInvariance
<1>4. QED
  BY <1>2, <1>3, PTL

\* When the preflight finds too little room in /dev/shm, other engine ids hold too much.
THEOREM OthersRefuse == ASSUME ~Overlap PROVE Spec => OnlyOthersRefuse
<1>1. ASSUME IInv, TypeInv, RoomInv, [Next]_vars,
             NEW l \in Launches, pc[l] = "shm", problems'[l] > 0
      PROVE  ShmTotal - Pages({g \in InUse : RegionId(g) # EngineId[l]}) < Bytes[EngineId[l]]
  <2> DEFINE others == {g \in InUse : RegionId(g) # EngineId[l]}
  <2>0. problems[l] = 0 /\ problems \in [Launches -> 0..3] /\ pc \in [Launches -> PCs]
    BY <1>1 DEF RoomInv, VerdictInv, Before, TypeInv, TypeOK
  <2>1. CheckShm(l)
    <3>1. problems' # problems
      BY <1>1, <2>0
    <3>2. PICK k \in Launches : CheckShm(k) \/ CheckRam(k)
      BY <1>1, <3>1 DEF Next, vars, Launcher, Engine, Start, Clean, CleanRemove, Verdict,
         Wipe, Stop, StopRemove, Open, Map, RankExit, Store, Unlink, Die
    <3>3. k = l
      BY <1>1, <2>0, <3>2 DEF CheckShm, CheckRam
    <3>4. QED
      BY <1>1, <3>2, <3>3 DEF CheckRam, Step
  <2>2. others = InUse
    <3>1. Cleaned(l) /\ ~Over(l)
      BY <1>1 DEF Cleaned, Over
    <3>2. Processes(l) = {}
      <4>1. OwnProcessesOf(l)
        BY <1>1 DEF IInv, OwnProcesses
      <4>2. \A r \in Ranks : opened[l][r] = None
        BY <1>1, <4>1 DEF OwnProcessesOf
      <4>3. QED
        BY <4>2 DEF Processes
    <3>3. name[EngineId[l]] = None
      BY <1>1, <3>1, <3>2 DEF IInv, FileFollowsLaunch
    <3>4. ASSUME NEW g \in InUse PROVE RegionId(g) # EngineId[l]
      <4>1. g # None
        BY LaunchesAssumption DEF InUse
      <4>2. ASSUME NEW id \in Ids, name[id] = g PROVE RegionId(g) # EngineId[l]
        BY <1>1, <3>3, <4>1, <4>2 DEF IInv, NamedById
      <4>3. ASSUME NEW k \in Launches, NEW r \in Ranks, opened[k][r] = g
            PROVE  RegionId(g) # EngineId[l]
        <5>1. Processes(k) # {}
          BY <4>1, <4>3 DEF Processes
        <5>2. k # l /\ ~Over(k)
          BY <3>2, <5>1 DEF Over
        <5>3. EngineId[k] # EngineId[l]
          BY <1>1, <3>1, <5>2 DEF IInv, Exclusive
        <5>4. g \in {k} \X Ranks
          BY <1>1, <4>1, <4>3 DEF IInv, OwnProcesses, OwnProcessesOf
        <5>5. QED
          BY <5>3, <5>4, LaunchesAssumption DEF RegionId
      <4>4. QED
        BY <4>2, <4>3 DEF InUse
    <3>5. QED
      BY <3>4
  <2>3. ~(ShmTotal >= Bytes[EngineId[l]] /\ ShmFree >= Bytes[EngineId[l]])
    <3> DEFINE checks == <<ShmTotal >= Bytes[EngineId[l]], ShmFree >= Bytes[EngineId[l]]>>
    <3>1. Failed(checks) > 0
      BY <1>1, <2>0, <2>1 DEF CheckShm
    <3>2. ASSUME ShmTotal >= Bytes[EngineId[l]], ShmFree >= Bytes[EngineId[l]]
          PROVE  Failed(checks) = 0
      <4>1. {c \in DOMAIN checks : ~checks[c]} = {}
        <5>1. DOMAIN checks = 1..2
          OBVIOUS
        <5>2. checks[1] /\ checks[2]
          BY <3>2
        <5> HIDE DEF checks
        <5>3. QED
          BY <5>1, <5>2
      <4>2. QED
        BY <4>1, FS_EmptySet DEF Failed
    <3>3. QED
      BY <3>1, <3>2
  <2>4. ShmTotal - ShmUsed < Bytes[EngineId[l]]
    BY <2>3, UseType, BytesType DEF ShmFree
  <2>5. QED
    BY <2>2, <2>4 DEF ShmUsed
<1>2. IInv /\ TypeInv /\ RoomInv /\ [Next]_vars =>
        [\A l \in Launches : pc[l] = "shm" /\ problems'[l] > 0 =>
           LET others == {g \in InUse : RegionId(g) # EngineId[l]}
           IN  ShmTotal - Pages(others) < Bytes[EngineId[l]]]_vars
  BY <1>1
<1>3. Spec => []IInv /\ []RoomInv
  BY Invariance, RoomInvariance
<1>4. QED
  BY <1>2, <1>3, TypeInvariance, PTL DEF Spec, OnlyOthersRefuse
================================================================================

-------------------------------- MODULE Staging --------------------------------
(***************************************************************************)
(* The /dev/shm staging file of an offload profile, from the launcher      *)
(* script to the stop script's clean-up.                                   *)
(*                                                                         *)
(* Every launch of scripts/run_vllm_*_SSDx4.sh removes its own engine id's *)
(* stale file (scripts/tools/shm_staging.sh), runs the sizing preflight    *)
(* (scripts/tools/offload_sizing.sh), may wipe the SSD root, and execs an  *)
(* engine whose ranks create or open the file and map it.  The engine may  *)
(* die at any time; stop_server.sh removes the file once it is gone.       *)
(*                                                                         *)
(* A region of tmpfs (an inode) holds its pages while it has a name or a   *)
(* process has it open or mapped.  Regions are named by who created them:  *)
(* a rank of a launch, or (rank Earlier) a run of the same id before Init. *)
(***************************************************************************)
EXTENDS Integers, FiniteSets, FiniteSetsExt

CONSTANTS
  Launches,    \* launcher invocations
  Ids,         \* engine ids
  Ranks,       \* one worker per rank (TP=2)
  Earlier,     \* stands for the ranks of a run before Init
  None,        \* no region
  EngineId,    \* [Launches -> Ids], KV_ENGINE_ID
  Bytes,       \* [Ids -> staging size], CPU_BYTES_TO_USE
  ShmTotal,    \* size of the /dev/shm mount
  RamTotal,    \* MemAvailable with an empty /dev/shm
  Reserve,     \* OFFLOAD_MIN_FREE_RAM_BYTES
  Unsafe,      \* launches with ALLOW_UNSAFE_LAUNCH=1
  CheckOnly,   \* launches with CHECK_ONLY=1
  CleanStart,  \* launches with VLLM_SSD_CLEAN_START=1
  WipeFirst,   \* launches of the 128K profile, which wipes before it checks
  Overlap      \* may launches of one engine id overlap?

Regions == (Launches \X Ranks) \cup (Ids \X {Earlier})

ASSUME LaunchesAssumption ==
  /\ IsFiniteSet(Launches) /\ IsFiniteSet(Ids) /\ IsFiniteSet(Ranks)
  /\ EngineId \in [Launches -> Ids]
  /\ Bytes \in [Ids -> Nat]
  /\ ShmTotal \in Nat /\ RamTotal \in Nat /\ Reserve \in Nat
  /\ Unsafe \cup CheckOnly \cup CleanStart \cup WipeFirst \subseteq Launches
  /\ Overlap \in BOOLEAN
  /\ Earlier \notin Ranks
  /\ None \notin Regions
  /\ Launches \cap Ids = {}
  /\ Ranks # {}

VARIABLES
  pc,        \* where each launch is, from its launcher to its stop
  problems,  \* failed checks of each launch's preflight
  name,      \* the region each engine id's file names
  opened,    \* the region each rank of each launch has open
  mapped,    \* the <<launch, rank>> that have mapped it
  sessions,  \* engine ids with restorable blocks under VLLM_SSD_ROOT
  squeezed   \* launches whose room another one took after their preflight

vars == <<pc, problems, name, opened, mapped, sessions, squeezed>>

Launching == {"clean", "remove", "shm", "ram", "verdict", "wipe"}
PCs == {"idle", "running", "noRoom", "dead", "refused", "checked", "stopRemove",
        "stopped"} \cup Launching

\* Every variable has its type.
TypeOK ==
  /\ pc \in [Launches -> PCs]
  /\ problems \in [Launches -> 0..3]
  /\ name \in [Ids -> Regions \cup {None}]
  /\ opened \in [Launches -> [Ranks -> Regions \cup {None}]]
  /\ mapped \subseteq Launches \X Ranks
  /\ sessions \subseteq Ids
  /\ squeezed \subseteq Launches

-----------------------------------------------------------------------------
(* The tmpfs.                                                              *)

RegionId(g) == IF g[1] \in Ids THEN g[1] ELSE EngineId[g[1]]

InUse == {g \in Regions : \/ \E id \in Ids : name[id] = g
                          \/ \E l \in Launches, r \in Ranks : opened[l][r] = g}

Pages(regions) == MapThenSumSet(LAMBDA g : Bytes[RegionId(g)], regions)

ShmUsed == Pages(InUse)
ShmFree == ShmTotal - ShmUsed
MemAvailable == RamTotal - ShmUsed

\* l.19: grep finds the path of id's file in some process's maps.
MapsShow(id) == \E m \in mapped : EngineId[m[1]] = id

-----------------------------------------------------------------------------
(* scripts/tools/shm_staging.sh, called by the launcher and by the stop.   *)

Step(l, from, to) == pc[l] = from /\ pc' = [pc EXCEPT ![l] = to]

\* l.18-22: no file, or one that is mapped, is left alone ...
Look(l, from, remove, skip) ==
  Step(l, from, IF name[EngineId[l]] = None \/ MapsShow(EngineId[l])
                  THEN skip ELSE remove)

\* l.24: ... and anything else is removed, whatever happened since the look.
\* (One mutant removes every staging file, the other removes nothing.)
MutantWildcard(l) == name' = [id \in Ids |-> None]
MutantKeep(l) == UNCHANGED name
Remove(l) == name' = [name EXCEPT ![EngineId[l]] = None]

-----------------------------------------------------------------------------
(* The launcher.                                                           *)

Processes(l) == {r \in Ranks : opened[l][r] # None}

\* Nothing of the launch runs: not yet, not any more.
Over(l) == /\ pc[l] \in {"idle", "noRoom", "dead", "refused", "checked", "stopped"}
           /\ Processes(l) = {}

\* Unless Overlap: nothing else of l's engine id runs, neither engine nor script.
Alone(l) ==
  Overlap \/ \A k \in Launches \ {l} : EngineId[k] = EngineId[l] => Over(k)

Afresh(l) == IF l \in WipeFirst THEN "wipe" ELSE "clean"

\* An operator, a supervisor or a benchmark driver starts the launcher.
Start(l) ==
  /\ Alone(l)
  /\ Step(l, "idle", Afresh(l))
  /\ UNCHANGED <<problems, name, opened, mapped, sessions, squeezed>>

Clean(l) ==
  /\ Look(l, "clean", "remove", "shm")
  /\ UNCHANGED <<problems, name, opened, mapped, sessions, squeezed>>

CleanRemove(l) ==
  /\ Step(l, "remove", "shm")
  /\ Remove(l)
  /\ UNCHANGED <<problems, opened, mapped, sessions, squeezed>>

Failed(checks) == Cardinality({c \in DOMAIN checks : ~checks[c]})

\* offload_sizing.sh l.119-154: the mount's size, and what is free of it.
CheckShm(l) ==
  /\ Step(l, "shm", "ram")
  /\ problems' = [problems EXCEPT ![l] =
       Failed(<<ShmTotal >= Bytes[EngineId[l]], ShmFree >= Bytes[EngineId[l]]>>)]
  /\ UNCHANGED <<name, opened, mapped, sessions, squeezed>>

\* l.156-166: physical memory for the region and the reserve.
\* (The mutant forgets the reserve.)
MutantNeeded(l) == Bytes[EngineId[l]]
Needed(l) == Bytes[EngineId[l]] + Reserve

CheckRam(l) ==
  /\ Step(l, "ram", "verdict")
  /\ problems' = [problems EXCEPT ![l] = @ + Failed(<<MemAvailable >= Needed(l)>>)]
  /\ UNCHANGED <<name, opened, mapped, sessions, squeezed>>

Launch(l) == IF l \in WipeFirst THEN "running" ELSE "wipe"

\* l.185-190, then the launcher's CHECK_ONLY.  (The mutant's warnings never refuse.)
MutantVerdict(l) ==
  /\ Step(l, "verdict", IF l \in CheckOnly THEN "checked" ELSE Launch(l))
  /\ UNCHANGED <<problems, name, opened, mapped, sessions, squeezed>>

Verdict(l) ==
  /\ \/ problems[l] > 0 /\ l \notin Unsafe /\ Step(l, "verdict", "refused")
     \/ /\ problems[l] = 0 \/ l \in Unsafe
        /\ Step(l, "verdict", IF l \in CheckOnly THEN "checked" ELSE Launch(l))
  /\ UNCHANGED <<problems, name, opened, mapped, sessions, squeezed>>

\* mkdir -p and, on a clean start, rm -rf of everything under the SSD root, which
\* the profiles share.  The 128K profile does this before its preflight (l.202-205),
\* the others after it (256K: l.228-231).
Wipe(l) ==
  /\ Step(l, "wipe", IF l \in WipeFirst THEN "clean" ELSE "running")
  /\ sessions' = IF l \in CleanStart THEN {} ELSE sessions
  /\ UNCHANGED <<problems, name, opened, mapped, squeezed>>

-----------------------------------------------------------------------------
(* The engine.                                                             *)

\* Past the look at the free space, and without a region so far.
Expectant(k) ==
  /\ pc[k] \in {"ram", "verdict", "wipe", "running"}
  /\ pc[k] = "wipe" => k \notin WipeFirst
  /\ Processes(k) = {}

\* A rank opens the region by name, or creates and pre-faults it if there is room.
\* Without room the engine dies.  Whoever was still counting on that room is
\* squeezed.
Open(l, r) ==
  LET id == EngineId[l] IN
  /\ pc[l] = "running" /\ opened[l][r] = None
  /\ \/ /\ name[id] # None
        /\ opened' = [opened EXCEPT ![l][r] = name[id]]
        /\ UNCHANGED <<pc, name, squeezed>>
     \/ /\ name[id] = None /\ ShmFree >= Bytes[id]
        /\ name' = [name EXCEPT ![id] = <<l, r>>]
        /\ opened' = [opened EXCEPT ![l][r] = <<l, r>>]
        /\ squeezed' = squeezed \cup {k \in Launches \ {l} : Expectant(k)}
        /\ UNCHANGED pc
     \/ /\ name[id] = None /\ ShmFree < Bytes[id]
        /\ pc' = [pc EXCEPT ![l] = "noRoom"]
        /\ UNCHANGED <<name, opened, squeezed>>
  /\ UNCHANGED <<problems, mapped, sessions>>

\* A rank maps the region it opened.
Map(l, r) ==
  /\ pc[l] = "running" /\ opened[l][r] # None
  /\ mapped' = mapped \cup {<<l, r>>}
  /\ UNCHANGED <<pc, problems, name, opened, sessions, squeezed>>

AllMapped(l) == \A r \in Ranks : <<l, r>> \in mapped

\* The engine stores blocks of its session on disk, once the whole region is mapped.
Store(l) ==
  /\ pc[l] = "running" /\ AllMapped(l)
  /\ sessions' = sessions \cup {EngineId[l]}
  /\ UNCHANGED <<pc, problems, name, opened, mapped, squeezed>>

\* Some builds unlink the file once every rank has mapped it, or on a clean exit.
Unlink(l) ==
  /\ pc[l] = "running" /\ AllMapped(l)
  /\ name' = [name EXCEPT ![EngineId[l]] = None]
  /\ UNCHANGED <<pc, problems, opened, mapped, sessions, squeezed>>

\* The engine exits or crashes, its workers some time later.
Die(l) ==
  /\ Step(l, "running", "dead")
  /\ UNCHANGED <<problems, name, opened, mapped, sessions, squeezed>>

RankExit(l, r) ==
  /\ pc[l] \in {"dead", "noRoom"} /\ opened[l][r] # None
  /\ opened' = [opened EXCEPT ![l][r] = None]
  /\ mapped' = mapped \ {<<l, r>>}
  /\ UNCHANGED <<pc, problems, name, sessions, squeezed>>

-----------------------------------------------------------------------------
(* stop_server.sh, once every process it listed is gone (l.306-318).       *)

Stop(l) ==
  /\ Alone(l) /\ Processes(l) = {}
  /\ Look(l, "dead", "stopRemove", "stopped")
  /\ UNCHANGED <<problems, name, opened, mapped, sessions, squeezed>>

StopRemove(l) ==
  /\ Step(l, "stopRemove", "stopped")
  /\ Remove(l)
  /\ UNCHANGED <<problems, opened, mapped, sessions, squeezed>>

-----------------------------------------------------------------------------
\* Earlier runs stored sessions of every profile; some were killed and left their
\* staging files.
Init ==
  /\ pc = [l \in Launches |-> "idle"]
  /\ problems = [l \in Launches |-> 0]
  /\ \E left \in SUBSET Ids :
       name = [id \in Ids |-> IF id \in left THEN <<id, Earlier>> ELSE None]
  /\ opened = [l \in Launches |-> [r \in Ranks |-> None]]
  /\ mapped = {}
  /\ sessions = Ids
  /\ squeezed = {}
  /\ ShmUsed <= ShmTotal /\ MemAvailable >= Reserve

Launcher(l) == \/ Start(l) \/ Clean(l) \/ CleanRemove(l)
               \/ CheckShm(l) \/ CheckRam(l) \/ Verdict(l) \/ Wipe(l)

Engine(l) == \/ \E r \in Ranks : Open(l, r) \/ Map(l, r) \/ RankExit(l, r)
             \/ Store(l) \/ Unlink(l) \/ Die(l)

Next == \E l \in Launches : Launcher(l) \/ Engine(l) \/ Stop(l) \/ StopRemove(l)

Spec == Init /\ [][Next]_vars

-----------------------------------------------------------------------------
(* Properties.                                                             *)

\* The ranks of an engine share one region, and it is the engine's own: it never
\* adopts the file an earlier or another launch left behind.
OneFreshRegion ==
  \A l \in Launches : \A r, s \in Ranks :
    opened[l][r] # None =>
      opened[l][r][1] = l /\ opened[l][s] \in {None, opened[l][r]}

\* No clean-up takes the file from an engine that is still starting: the ranks that
\* have yet to open it would create another.
FileOutlivesStartup ==
  [][\A id \in Ids : name[id] # None /\ name'[id] = None =>
       \A l \in Launches : EngineId[l] = id /\ pc[l] = "running" => AllMapped(l)]_vars

\* An engine whose launch passed the preflight finds room for its region, unless
\* another launch took it in between.
AcceptedFindsRoom ==
  [][\A l \in Launches : pc[l] = "running" /\ pc'[l] = "noRoom" =>
       l \in squeezed \cup Unsafe]_vars

\* As long as only accepted, unsqueezed launches hold regions, the host keeps its
\* reserve of physical memory.
ReserveKept ==
  (\A g \in InUse : g[1] \notin squeezed \cup Unsafe) => MemAvailable >= Reserve

\* A profile's own stale file never counts against it: when the preflight finds too
\* little room, what other engine ids hold leaves too little.
OnlyOthersRefuse ==
  [][\A l \in Launches : pc[l] = "shm" /\ problems'[l] > 0 =>
       LET others == {g \in InUse : RegionId(g) # EngineId[l]}
       IN  ShmTotal - Pages(others) < Bytes[EngineId[l]]]_vars

\* A stop that ran its clean-up returns all tmpfs pages of the instance.
StopReturnsPages ==
  \A l \in Launches : pc[l] = "stopped" => \A g \in InUse : g[1] # l

(* What the documentation says, and the code does not do.                  *)

\* shm_staging.sh:11-14: if a process still maps the profile's file, it is left alone
\* and the preflight reports that an instance is already running, as an error.
LiveFileRefusesLaunch ==
  [][\A l \in Launches :
       pc[l] = "shm" /\ pc'[l] # "shm" /\ name[EngineId[l]] # None /\ MapsShow(EngineId[l])
         => problems'[l] > 0]_vars

\* docs/upstream-branch.md:356 (run_vllm_*_256k_SSDx4.sh:37 in other words):
\* CHECK_ONLY=1 only checks, so it leaves the stored sessions alone.
ChecksTouchNoSession ==
  [][\A l \in CheckOnly : pc'[l] # pc[l] => UNCHANGED sessions]_vars
=============================================================================

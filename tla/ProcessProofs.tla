---------------------------- MODULE ProcessProofs ---------------------------
(***************************************************************************)
(* What the processes of a machine share.  Their files: no written change   *)
(* is lost, for any number of writers, of deaths and of recovery locks,     *)
(* under the lock that names its owner always, under the lock that is       *)
(* judged by its age until one is taken from a living process.  And, within *)
(* one process, the gateway: for any number of instances of the plugin at   *)
(* most one acts, and who has left holds nothing.                           *)
(***************************************************************************)
EXTENDS Journals, GatewayLife, WellFoundedInduction, TLAPS

\* Where a process owns the lock of its level.
Holding(p) == step[p] \in {"read", "write", "free", "recheck", "reclaim", "check"}

\* The change is made under the file's own lock, a recovery with one above it;
\* locks above and reclaiming belong to the lock that names its owner, removing
\* to the other ones.
Places ==
  /\ \A p \in Writers :
       /\ step[p] \in {"read", "write"} => level[p] = 0
       /\ step[p] \in {"recheck", "reclaim"} => level[p] # 0
       /\ level[p] # 0 => protocol = "owned"
       /\ step[p] = "remove" => protocol \in {"waiting", "failing"}

\* A lock that names its owner is never taken from a living process.
OwnedIsFair == protocol = "owned" => ~slip

Locked == protocol # "bare" /\ ~slip

\* Whoever is behind a lock still has it.
Held == Locked => \A p \in Writers : Holding(p) => locks[level[p]] = p

\* Who is about to reclaim a lock does so from the dead.
Abandoned ==
  \A p \in Writers : step[p] = "reclaim" =>
    locks[level[p] - 1] \in Writers /\ Dead(locks[level[p] - 1])

\* What was read is what the file still says when it is written.
Fresh == Locked => \A p \in Writers : step[p] = "write" => image[p] = file

Kept == Locked => kept \subseteq file

JournalIInv ==
  JournalTypeOK /\ Places /\ OwnedIsFair /\ Held /\ Abandoned /\ Fresh /\ Kept

-----------------------------------------------------------------------------
\* Starting to look for the lock.
LEMMA WriterBeginsStep ==
  ASSUME NEW p \in Writers, JournalIInv, WriterBegins(p)
  PROVE  JournalIInv'
<1> USE DepthAssumption, FreeAssumption
    DEF JournalIInv, JournalTypeOK, Levels, Steps, Dead, WriterBegins, To
<1>1. JournalTypeOK'
  OBVIOUS
<1>2. Places'
  BY DEF Places
<1>3. OwnedIsFair'
  BY DEF OwnedIsFair
<1>4. Held'
  BY DEF Locked, Held, Holding
<1>5. Abandoned'
  BY DEF Abandoned
<1>6. Fresh'
  BY DEF Locked, Fresh
<1>7. Kept'
  BY DEF Locked, Kept
<1> QED BY <1>1, <1>2, <1>3, <1>4, <1>5, <1>6, <1>7

\* Judging a lock by its age.
LEMMA JudgesAgeStep ==
  ASSUME NEW p \in Writers, JournalIInv, JudgesAge(p)
  PROVE  JournalIInv'
<1> USE DepthAssumption, FreeAssumption
    DEF JournalIInv, JournalTypeOK, Levels, Steps, Dead, JudgesAge, To
<1>1. JournalTypeOK'
  <2>1. step' \in [Writers -> Steps]
    OBVIOUS
  <2>2. judged' \in [Writers -> Writers \cup {Free}]
    OBVIOUS
  <2> QED
    BY <2>1, <2>2
<1>2. Places'
  BY DEF Places
<1>3. OwnedIsFair'
  BY DEF OwnedIsFair
<1>4. Held'
  BY DEF Locked, Held, Holding
<1>5. Abandoned'
  BY DEF Abandoned
<1>6. Fresh'
  BY DEF Locked, Fresh
<1>7. Kept'
  BY DEF Locked, Kept
<1> QED BY <1>1, <1>2, <1>3, <1>4, <1>5, <1>6, <1>7

\* Judging a lock by its owner, and climbing to its recovery lock.
LEMMA JudgesOwnerStep ==
  ASSUME NEW p \in Writers, JournalIInv, JudgesOwner(p)
  PROVE  JournalIInv'
<1> USE DepthAssumption, FreeAssumption
    DEF JournalIInv, JournalTypeOK, Levels, Steps, Dead, JudgesOwner, To, Climbs
<1>1. JournalTypeOK'
  <2>1. step' \in [Writers -> Steps]
    <3>1. PICK s \in Steps : To(p, s)
      OBVIOUS
    <3> QED BY <3>1
  <2>2. level' \in [Writers -> Levels]
    <3>1. CASE UNCHANGED level
      BY <3>1
    <3>2. CASE level[p] < Depth /\ Climbs(p)
      BY <3>2
    <3> QED BY <3>1, <3>2
  <2> QED BY <2>1, <2>2
<1>2. Places'
  BY DEF Places
<1>3. OwnedIsFair'
  BY DEF OwnedIsFair
<1>4. Held'
  BY DEF Locked, Held, Holding
<1>5. Abandoned'
  BY DEF Abandoned
<1>6. Fresh'
  BY DEF Locked, Fresh
<1>7. Kept'
  BY DEF Locked, Kept
<1> QED BY <1>1, <1>2, <1>3, <1>4, <1>5, <1>6, <1>7

\* Looking at the owner below again: it is dead, and stays so.
LEMMA RechecksStep ==
  ASSUME NEW p \in Writers, JournalIInv, Rechecks(p)
  PROVE  JournalIInv'
<1> USE DepthAssumption, FreeAssumption
    DEF JournalIInv, JournalTypeOK, Levels, Steps, Dead, Rechecks, To
<1>1. JournalTypeOK'
  OBVIOUS
<1>2. Places'
  BY DEF Places
<1>3. OwnedIsFair'
  BY DEF OwnedIsFair
<1>4. Held'
  BY DEF Locked, Held, Holding
<1>5. Abandoned'
  BY DEF Places, Abandoned
<1>6. Fresh'
  BY DEF Locked, Fresh
<1>7. Kept'
  BY DEF Locked, Kept
<1> QED BY <1>1, <1>2, <1>3, <1>4, <1>5, <1>6, <1>7

\* Reading the file, under its lock.
LEMMA ReadsStep ==
  ASSUME NEW p \in Writers, JournalIInv, Reads(p)
  PROVE  JournalIInv'
<1> USE DepthAssumption, FreeAssumption
    DEF JournalIInv, JournalTypeOK, Levels, Steps, Dead, Reads, To
<1>1. JournalTypeOK'
  OBVIOUS
<1>2. Places'
  BY DEF Places
<1>3. OwnedIsFair'
  BY DEF OwnedIsFair
<1>4. Held'
  BY DEF Locked, Held, Holding
<1>5. Abandoned'
  BY DEF Abandoned
<1>6. Fresh'
  BY DEF Locked, Fresh
<1>7. Kept'
  BY DEF Locked, Kept
<1> QED BY <1>1, <1>2, <1>3, <1>4, <1>5, <1>6, <1>7

\* Creating the lock file, which nobody has.
LEMMA TriesStep ==
  ASSUME NEW p \in Writers, JournalIInv, Tries(p)
  PROVE  JournalIInv'
<1> USE DepthAssumption, FreeAssumption
    DEF JournalIInv, JournalTypeOK, Levels, Steps, Dead, Tries, To
<1>1. JournalTypeOK'
  <2>1. step' \in [Writers -> Steps]
    OBVIOUS
  <2>2. locks' \in [Levels -> Writers \cup {Free}] /\ old' \in BOOLEAN
    <3>1. CASE locks[level[p]] = Free
      BY <3>1
    <3>2. CASE locks[level[p]] # Free
      BY <3>2
    <3> QED BY <3>1, <3>2
  <2> QED BY <2>1, <2>2
<1>2. Places'
  BY DEF Places
<1>3. OwnedIsFair'
  BY DEF OwnedIsFair
<1>4. Held'
  BY DEF Locked, Held, Holding
<1>5. Abandoned'
  <2> SUFFICES ASSUME NEW q \in Writers, step'[q] = "reclaim"
               PROVE  locks'[level[q] - 1] \in Writers /\ step'[locks'[level[q] - 1]] = "dead"
    BY DEF Abandoned
  <2>1. step[q] = "reclaim" /\ level[q] - 1 \in Levels
    BY DEF Places
  <2>2. locks[level[q] - 1] \in Writers /\ step[locks[level[q] - 1]] = "dead"
    BY <2>1 DEF Abandoned
  <2>3. locks'[level[q] - 1] = locks[level[q] - 1]
    BY <2>1, <2>2
  <2> QED BY <2>2, <2>3
<1>6. Fresh'
  BY DEF Locked, Fresh
<1>7. Kept'
  BY DEF Locked, Kept
<1> QED BY <1>1, <1>2, <1>3, <1>4, <1>5, <1>6, <1>7

\* Removing an old lock: a living process loses it only with a slip.
LEMMA RemovesOldStep ==
  ASSUME NEW p \in Writers, JournalIInv, RemovesOld(p)
  PROVE  JournalIInv'
<1> USE DepthAssumption, FreeAssumption
    DEF JournalIInv, JournalTypeOK, Levels, Steps, Dead, RemovesOld, Unlinks, To
<1>1. JournalTypeOK'
  OBVIOUS
<1>2. Places'
  BY DEF Places
<1>3. OwnedIsFair'
  BY DEF Places, OwnedIsFair
<1>4. Held'
  BY DEF Locked, Held, Holding
<1>5. Abandoned'
  BY DEF Places, Abandoned
<1>6. Fresh'
  BY DEF Locked, Fresh
<1>7. Kept'
  BY DEF Locked, Kept
<1> QED BY <1>1, <1>2, <1>3, <1>4, <1>5, <1>6, <1>7

\* Reclaiming a lock: from the dead, and one process does.
LEMMA ReclaimsStep ==
  ASSUME NEW p \in Writers, JournalIInv, Reclaims(p)
  PROVE  JournalIInv'
<1> USE DepthAssumption, FreeAssumption
    DEF JournalIInv, JournalTypeOK, Levels, Steps, Dead, Reclaims, Unlinks, To
<1>1. JournalTypeOK'
  OBVIOUS
<1>2. Places'
  BY DEF Places
<1>3. OwnedIsFair'
  BY DEF Places, OwnedIsFair, Abandoned
<1>4. Held'
  BY DEF Places, Locked, Held, Holding, Abandoned
<1>5. Abandoned'
  BY DEF Places, OwnedIsFair, Locked, Held, Holding, Abandoned
<1>6. Fresh'
  BY DEF Locked, Fresh
<1>7. Kept'
  BY DEF Locked, Kept
<1> QED BY <1>1, <1>2, <1>3, <1>4, <1>5, <1>6, <1>7

\* Writing: nobody else is between reading and writing.
LEMMA WritesStep ==
  ASSUME NEW p \in Writers, JournalIInv, Writes(p)
  PROVE  JournalIInv'
<1> USE DepthAssumption, FreeAssumption
    DEF JournalIInv, JournalTypeOK, Levels, Steps, Dead, Writes, To
<1>1. JournalTypeOK'
  OBVIOUS
<1>2. Places'
  BY DEF Places
<1>3. OwnedIsFair'
  BY DEF OwnedIsFair
<1>4. Held'
  BY DEF Locked, Held, Holding
<1>5. Abandoned'
  BY DEF Abandoned
<1>6. Fresh'
  BY DEF Places, Locked, Held, Holding, Fresh
<1>7. Kept'
  BY DEF Places, Locked, Held, Holding, Fresh, Kept
<1> QED BY <1>1, <1>2, <1>3, <1>4, <1>5, <1>6, <1>7

\* Looking whether the lock is still one's own.
LEMMA ChecksStep ==
  ASSUME NEW p \in Writers, JournalIInv, Checks(p)
  PROVE  JournalIInv'
<1> USE DepthAssumption, FreeAssumption
    DEF JournalIInv, JournalTypeOK, Levels, Steps, Dead, Checks, To
<1>1. JournalTypeOK'
  OBVIOUS
<1>2. Places'
  BY DEF Places
<1>3. OwnedIsFair'
  BY DEF OwnedIsFair
<1>4. Held'
  BY DEF Locked, Held, Holding
<1>5. Abandoned'
  BY DEF Abandoned
<1>6. Fresh'
  BY DEF Locked, Fresh
<1>7. Kept'
  BY DEF Locked, Kept
<1> QED BY <1>1, <1>2, <1>3, <1>4, <1>5, <1>6, <1>7

\* Giving the lock back.
LEMMA FreesStep ==
  ASSUME NEW p \in Writers, JournalIInv, Frees(p)
  PROVE  JournalIInv'
<1> USE DepthAssumption, FreeAssumption
    DEF JournalIInv, JournalTypeOK, Levels, Steps, Dead, Frees, Unlinks, To, Descends
<1>1. JournalTypeOK'
  <2>1. step' \in [Writers -> Steps] /\ slip' \in BOOLEAN /\ old' \in BOOLEAN
    OBVIOUS
  <2>2. locks' \in [Levels -> Writers \cup {Free}]
    OBVIOUS
  <2>3. level' \in [Writers -> Levels]
    <3>1. CASE level[p] > 0
      BY <3>1
    <3>2. CASE ~(level[p] > 0)
      BY <3>2
    <3> QED BY <3>1, <3>2
  <2> QED BY <2>1, <2>2, <2>3
<1>2. Places'
  BY DEF Places
<1>3. OwnedIsFair'
  BY DEF OwnedIsFair, Locked, Held, Holding
<1>4. Held'
  BY DEF Locked, Held, Holding
<1>5. Abandoned'
  BY DEF Places, OwnedIsFair, Locked, Held, Holding, Abandoned
<1>6. Fresh'
  BY DEF Locked, Fresh
<1>7. Kept'
  BY DEF Locked, Kept
<1> QED BY <1>1, <1>2, <1>3, <1>4, <1>5, <1>6, <1>7

\* Dying, anywhere.
LEMMA WriterDiesStep ==
  ASSUME NEW p \in Writers, JournalIInv, WriterDies(p)
  PROVE  JournalIInv'
<1> USE DepthAssumption, FreeAssumption
    DEF JournalIInv, JournalTypeOK, Levels, Steps, Dead, WriterDies, To
<1>1. JournalTypeOK'
  OBVIOUS
<1>2. Places'
  BY DEF Places
<1>3. OwnedIsFair'
  BY DEF OwnedIsFair
<1>4. Held'
  BY DEF Locked, Held, Holding
<1>5. Abandoned'
  BY DEF Abandoned
<1>6. Fresh'
  BY DEF Locked, Fresh
<1>7. Kept'
  BY DEF Locked, Kept
<1> QED BY <1>1, <1>2, <1>3, <1>4, <1>5, <1>6, <1>7

\* A lock getting a minute old.
LEMMA GrowsOldStep ==
  ASSUME JournalIInv, GrowsOld
  PROVE  JournalIInv'
BY DEF JournalIInv, JournalTypeOK, Places, OwnedIsFair, Locked, Held, Holding, Abandoned, Dead,
  Fresh,
       Kept, GrowsOld

\* The invariant holds first, and every step of a process, of its death and of the clock keeps it.
THEOREM JournalInvariant == JournalSpec => []JournalIInv
<1>1. JournalInit => JournalIInv
  <2> SUFFICES ASSUME JournalInit PROVE JournalIInv
    OBVIOUS
  <2>1. JournalTypeOK
    <3>1. {old, slip} \subseteq BOOLEAN
      BY DEF JournalInit
    <3>2. level \in [Writers -> Levels]
      BY DepthAssumption DEF JournalInit, Levels
    <3> QED BY <3>1, <3>2 DEF JournalInit, JournalTypeOK, Steps
  <2>2. Places /\ OwnedIsFair /\ Held /\ Abandoned /\ Fresh /\ Kept
    BY DEF JournalInit, Places, OwnedIsFair, Held, Holding, Abandoned, Fresh, Kept
  <2> QED BY <2>1, <2>2 DEF JournalIInv
<1>2. JournalIInv /\ [JournalNext]_journalVars => JournalIInv'
  <2> SUFFICES ASSUME JournalIInv, [JournalNext]_journalVars
               PROVE  JournalIInv'
    OBVIOUS
  <2>1. CASE UNCHANGED journalVars
    BY <2>1 DEF journalVars, JournalIInv, JournalTypeOK, Places, OwnedIsFair, Locked, Held, Holding,
                Abandoned, Dead, Fresh, Kept
  <2>2. CASE GrowsOld
    BY <2>2, GrowsOldStep
  <2>3. CASE \E p \in Writers :
       \/ WriterBegins(p) \/ Tries(p) \/ JudgesAge(p) \/ RemovesOld(p) \/ JudgesOwner(p)
       \/ Rechecks(p)
       \/ Reclaims(p) \/ Reads(p) \/ Writes(p) \/ Checks(p) \/ Frees(p) \/ WriterDies(p)
    BY <2>3, WriterBeginsStep, TriesStep, JudgesAgeStep, RemovesOldStep, JudgesOwnerStep,
      RechecksStep,
       ReclaimsStep, ReadsStep, WritesStep, ChecksStep, FreesStep, WriterDiesStep
  <2> QED BY <2>1, <2>2, <2>3 DEF JournalNext
<1> QED BY <1>1, <1>2, PTL DEF JournalSpec

\* No change that was written to a shared journal is lost to another writer, whoever dies
\* and whoever cleans up after the dead: under a lock that names its owner
\* (slack-progress.ts, acquireLock) always, under one that is judged by its age
\* (gateway/state.ts, hosted-call-registry.ts) as long as none is taken from a process that lives.
THEOREM NoChangeIsLost == JournalSpec => []NoUpdateLost
<1>1. JournalIInv => NoUpdateLost
  BY DEF JournalIInv, JournalTypeOK, OwnedIsFair, Kept, Locked, NoUpdateLost
<1> QED BY <1>1, JournalInvariant, PTL

-----------------------------------------------------------------------------
(***************************************************************************)
(* The gateways of a process.                                               *)
(***************************************************************************)

\* A gateway that is being started, runs, is being closed or could not be closed.
Acts(p) == stage[p] \notin {"none", "failed", "closed"}

LifeShape ==
  /\ mode \in {"v1", "v2", "cli"}
  /\ plug \in [Plugins -> {"out", "in", "leaving", "left", "failed", "killed"}]
  /\ stage \in [Plugins -> Stages] /\ held \in [Plugins -> SUBSET {"server", "tunnel"}]
  /\ latch \in BOOLEAN /\ stray \in BOOLEAN
  /\ leaks \in [Plugins -> SUBSET {"server", "tunnel"}]
  /\ owner \in Plugins \cup {NoPlugin} /\ chosen \in Plugins \cup {NoPlugin}
  /\ turn2 \in {"rest", "closing", "starting"}
  /\ issued \in Nat /\ served \in 0 .. issued /\ broke \subseteq Nat
  /\ ticket \in [Plugins -> Nat]
  /\ managed \in {"none", "starting", "up", "dead", "stopped"}

\* What a gateway holds, by its stage.
HeldByStage ==
  \A p \in Plugins :
    /\ stage[p] \in {"none", "tick", "serve", "host", "listen", "failed", "closed"} => held[p] = {}
    /\ stage[p] = "undo" => "tunnel" \notin held[p]
    /\ stage[p] = "tunnel" => "server" \notin held[p]

\* What was left open unseen: by a start that failed, which may not be the last one in V2,
\* and the listener only by one whose instance was disposed meanwhile.
LeaksKnown ==
  \A p \in Plugins :
    /\ leaks[p] # {} /\ mode # "v2" => stage[p] \in {"undo", "failed"}
    /\ "server" \in leaks[p] => p \in late
    /\ p \in late => mode = "v1"

\* Some stages belong to one kind of host, and no gateway is started for an instance
\* that was never there.
StageByMode ==
  \A p \in Plugins : /\ stage[p] = "tick" => mode = "v1"
                     /\ stage[p] = "serve" => mode = "cli"
                     /\ plug[p] = "out" => stage[p] = "none"

\* V1: the flag is set while a gateway acts, and there is one.
V1Knows ==
  mode = "v1" =>
    /\ stray \/ \A p, q \in Plugins : Acts(p) /\ Acts(q) => p = q
    /\ stray \/ latch \/ \A p \in Plugins : ~Acts(p)
    /\ \A p \in Plugins : plug[p] = "left" => ~Acts(p)

\* V2: what acts is the owner or the candidate being started, never both, and an instance
\* that leaves waits for a reconcile that has not yet ended, or has failed to close it.
V2Knows ==
  mode = "v2" =>
    /\ \A p \in Plugins : Acts(p) => p \in {owner, chosen}
    /\ turn2 = "starting" => owner = NoPlugin /\ chosen # NoPlugin
    /\ turn2 # "starting" => chosen = NoPlugin
    /\ turn2 = "closing" => owner # NoPlugin
    /\ turn2 # "rest" => served < issued
    /\ \A p \in Plugins : p \in {owner, chosen} => plug[p] \notin {"out", "left"}
    /\ \A p \in Plugins : plug[p] = "leaving" =>
         /\ p = owner => ticket[p] > served \/ ticket[p] \in broke
         /\ p = chosen => ticket[p] > served + 1

\* The slot is for V2 hosts.
SlotIsV2 ==
  mode # "v2" => issued = 0 /\ turn2 = "rest" /\ owner = NoPlugin /\ chosen = NoPlugin

\* The foreground process: one instance; its server is up before its gateway is started and
\* stopped before it leaves.
CliKnows ==
  mode = "cli" =>
    \A p \in Plugins :
      /\ plug[p] # "out" => p = Least(Plugins)
      /\ stage[p] = "serve" => plug[p] = "in"
      /\ plug[p] = "in" /\ stage[p] # "serve" => managed # "starting"
      /\ plug[p] = "left" => /\ stage[p] \in {"failed", "closed", "broken"} /\ held[p] = {}
                             /\ managed \notin {"starting", "up"} /\ leaks[p] = {}

LifeInv == /\ LifeShape /\ HeldByStage /\ LeaksKnown /\ StageByMode
           /\ V1Knows /\ V2Knows /\ SlotIsV2 /\ CliKnows

-----------------------------------------------------------------------------
\* Of some instances one comes first.
LEMMA LeastIsThere ==
  ASSUME NEW S \in SUBSET Plugins, S # {}
  PROVE  Least(S) \in S
<1> DEFINE R == OpToRel(<, Nat)
<1>1. IsWellFoundedOn(R, Nat)
  BY NatLessThanWellFounded
<1>2. \A x, y \in Nat : <<y, x>> \in R <=> y < x
  BY DEF OpToRel
<1> HIDE DEF R
<1>3. S \subseteq Nat
  BY PluginsAssumption
<1>4. PICK p \in S : \A q \in S : <<q, p>> \notin R
  BY <1>1, <1>3, WFMin
<1>5. ASSUME NEW q \in S
      PROVE  p <= q
  <2>1. p \in Nat /\ q \in Nat /\ ~(q < p)
    BY <1>2, <1>3, <1>4
  <2> QED
    BY <2>1
<1> QED
  BY <1>5 DEF Least

\* At the begin.
LEMMA LifeStarts ==
  ASSUME LifeInit
  PROVE  LifeInv
<1>1. LifeShape
  <2>1. /\ plug \in [Plugins -> {"out", "in", "leaving", "left", "failed", "killed"}]
        /\ stage \in [Plugins -> Stages] /\ held \in [Plugins -> SUBSET {"server", "tunnel"}]
        /\ leaks \in [Plugins -> SUBSET {"server", "tunnel"}]
        /\ ticket \in [Plugins -> Nat]
    BY DEF LifeInit, Stages
  <2>2. /\ mode \in {"v1", "v2", "cli"} /\ latch \in BOOLEAN /\ stray \in BOOLEAN
        /\ owner \in Plugins \cup {NoPlugin} /\ chosen \in Plugins \cup {NoPlugin}
        /\ turn2 \in {"rest", "closing", "starting"}
        /\ managed \in {"none", "starting", "up", "dead", "stopped"}
    BY DEF LifeInit
  <2>3. issued \in Nat /\ served \in 0 .. issued /\ broke \subseteq Nat
    BY DEF LifeInit
  <2> QED
    BY <2>1, <2>2, <2>3 DEF LifeShape
<1>2. \A p \in Plugins : /\ plug[p] = "out" /\ stage[p] = "none"
                         /\ held[p] = {} /\ leaks[p] = {} /\ p \notin late
  BY DEF LifeInit
<1>3. HeldByStage /\ LeaksKnown /\ StageByMode /\ V1Knows
  BY <1>2 DEF HeldByStage, LeaksKnown, StageByMode, V1Knows, Acts
<1>4. V2Knows /\ SlotIsV2
  BY <1>2, NoPluginAssumption DEF LifeInit, V2Knows, SlotIsV2, Acts
<1>5. CliKnows
  BY <1>2 DEF CliKnows
<1> QED
  BY <1>1, <1>3, <1>4, <1>5 DEF LifeInv

\* The stages in which a gateway opens, has or closes something.
Running == {"host", "listen", "dial", "bind", "wire", "up", "undo", "settle", "server", "tunnel"}

\* A stage of a start or a close is passed.
LEMMA StagePasses ==
  ASSUME LifeInv, NEW p \in Plugins, stage[p] \in Running,
         NEW x \in Stages \ {"none", "tick", "serve"}, NEW y \in SUBSET {"server", "tunnel"},
         stage' = [stage EXCEPT ![p] = x], held' = [held EXCEPT ![p] = y],
         x \in {"host", "listen", "failed", "closed"} => y = {},
         x = "undo" => "tunnel" \notin y,
         x = "tunnel" => "server" \notin y,
         latch' = latch \/ (latch' = FALSE /\ x = "failed"),
         UNCHANGED <<mode, plug, stray, slot, managed>>,
         NEW l \in SUBSET {"server", "tunnel"}, leaks' = [leaks EXCEPT ![p] = l],
         l # {} /\ mode # "v2" => x \in {"undo", "failed"},
         late \subseteq late', \A q \in late' \ late : mode = "v1",
         "server" \in l => "server" \in leaks[p] \/ p \in late
  PROVE  LifeInv'
<1>1. UNCHANGED <<owner, chosen, turn2, issued, served, broke, ticket>>
  BY DEF slot
<1>2. /\ stage' \in [Plugins -> Stages] /\ held' \in [Plugins -> SUBSET {"server", "tunnel"}]
      /\ stage'[p] = x /\ held'[p] = y
      /\ \A q \in Plugins \ {p} : stage'[q] = stage[q] /\ held'[q] = held[q]
  BY DEF LifeInv, LifeShape
<1>a. /\ leaks' \in [Plugins -> SUBSET {"server", "tunnel"}] /\ leaks'[p] = l
      /\ \A q \in Plugins \ {p} : leaks'[q] = leaks[q]
  BY DEF LifeInv, LifeShape
<1>3. Acts(p) /\ \A q \in Plugins : Acts(q)' => Acts(q)
  BY <1>2 DEF Acts, Running
<1>4. LifeShape'
  BY <1>1, <1>2, <1>a DEF LifeInv, LifeShape
<1>5. HeldByStage'
  BY <1>2 DEF LifeInv, HeldByStage
<1>b. LeaksKnown'
  BY <1>2, <1>a DEF LifeInv, LeaksKnown, Running
<1>6. StageByMode'
  BY <1>2 DEF LifeInv, StageByMode, Running
<1>7. V1Knows'
  <2>1. mode = "v1" /\ ~stray /\ latch' # latch => \A q \in Plugins : ~Acts(q)'
    BY <1>2, <1>3 DEF LifeInv, V1Knows, Acts
  <2> QED
    BY <1>3, <2>1 DEF LifeInv, V1Knows
<1>8. V2Knows'
  BY <1>1, <1>3 DEF LifeInv, V2Knows
<1>9. SlotIsV2'
  BY <1>1 DEF LifeInv, SlotIsV2
<1>10. CliKnows'
  BY <1>2, <1>a DEF LifeInv, CliKnows, Running
<1> QED
  BY <1>4, <1>5, <1>b, <1>6, <1>7, <1>8, <1>9, <1>10 DEF LifeInv

\* The steps that pass a stage.
LEMMA StagesMove ==
  ASSUME LifeInv, NEW p \in Plugins, StartStep(p) \/ CloseStep(p) \/ Finishes(p)
  PROVE  LifeInv'
<1> DEFINE h == held[p]
           k == leaks[p]
<1>1. /\ UNCHANGED <<mode, plug, stray, slot, managed>>
      /\ h \in SUBSET {"server", "tunnel"} /\ held = [held EXCEPT ![p] = h]
      /\ k \in SUBSET {"server", "tunnel"} /\ leaks = [leaks EXCEPT ![p] = k]
      /\ stage \in [Plugins -> Stages] /\ latch \in BOOLEAN
  BY DEF StartStep, CloseStep, Finishes, HostReady, Listens, Dials, Binds, Runs, StartFails, Undoes,
         Settles, ServerEnds, TunnelEnds, Breaks, flag, LifeInv, LifeShape
<1>2. /\ stage[p] \in {"host", "listen"} => h = {}
      /\ stage[p] = "undo" => "tunnel" \notin h
      /\ stage[p] = "tunnel" => "server" \notin h
      /\ stage[p] \in Running /\ stage[p] # "undo" /\ mode # "v2" => k = {}
      /\ "server" \in k => p \in late
      /\ p \in late => mode = "v1"
  BY DEF LifeInv, HeldByStage, LeaksKnown, Running
<1>3. /\ held' = [held EXCEPT ![p] = h] \/ held' = held => held' = [held EXCEPT ![p] = h]
      /\ Holds(p, "server") => held' = [held EXCEPT ![p] = h \cup {"server"}]
      /\ Holds(p, "tunnel") => held' = [held EXCEPT ![p] = h \cup {"tunnel"}]
      /\ Drops(p, "server") => held' = [held EXCEPT ![p] = h \ {"server"}]
      /\ Drops(p, "tunnel") => held' = [held EXCEPT ![p] = h \ {"tunnel"}]
      /\ leaks' = leaks => leaks' = [leaks EXCEPT ![p] = k]
  BY <1>1 DEF Holds, Drops
<1>17. /\ leaks' = [leaks EXCEPT ![p] = @ \cup {"tunnel"}]
             => leaks' = [leaks EXCEPT ![p] = k \cup {"tunnel"}]
       /\ leaks' = [leaks EXCEPT ![p] = held[p]] => leaks' = [leaks EXCEPT ![p] = h]
  BY <1>1
<1> HIDE DEF h, k
<1>16. /\ "tunnel" \notin h => h \ {"server"} = {} /\ ("server" \notin h => h = {})
       /\ "server" \notin h => h \ {"tunnel"} = {}
  BY <1>1
<1>18. ASSUME NEW x \in Stages \ {"none", "tick", "serve"}, NEW y \in SUBSET {"server", "tunnel"},
              NEW l \in SUBSET {"server", "tunnel"},
              stage[p] \in Running, Enter(p, x), held' = [held EXCEPT ![p] = y],
              x \in {"host", "listen", "failed", "closed"} => y = {},
              x = "undo" => "tunnel" \notin y,
              x = "tunnel" => "server" \notin y,
              latch' = latch \/ (latch' = FALSE /\ x = "failed"),
              leaks' = [leaks EXCEPT ![p] = l], late \subseteq late',
              \A q \in late' \ late : mode = "v1",
              l # {} /\ mode # "v2" => x \in {"undo", "failed"},
              "server" \in l => p \in late
       PROVE  LifeInv'
  BY <1>1, <1>18, StagePasses DEF Enter
<1>4. ASSUME NEW x \in Stages \ {"none", "tick", "serve"}, NEW y \in SUBSET {"server", "tunnel"},
             stage[p] \in Running, Enter(p, x), held' = [held EXCEPT ![p] = y],
             x \in {"host", "listen", "failed", "closed"} => y = {},
             x = "undo" => "tunnel" \notin y,
             x = "tunnel" => "server" \notin y,
             latch' = latch \/ (latch' = FALSE /\ x = "failed"),
             stage[p] = "undo" => x = "failed",
             leaks' = leaks, late \subseteq late', \A q \in late' \ late : mode = "v1"
      PROVE  LifeInv'
  BY <1>1, <1>2, <1>3, <1>4, <1>18
<1>5. CASE HostReady(p)
  BY <1>2, <1>3, <1>4, <1>5, <1>1 DEF HostReady, Running, Stages, flag
<1>6. CASE Listens(p)
  BY <1>2, <1>3, <1>4, <1>6, <1>1 DEF Listens, Running, Stages, flag
<1>7. CASE Dials(p)
  BY <1>2, <1>3, <1>4, <1>7, <1>1 DEF Dials, Running, Stages, flag
<1>8. CASE Binds(p)
  BY <1>2, <1>3, <1>4, <1>8, <1>1 DEF Binds, Running, Stages, flag
<1>9. CASE Runs(p)
  BY <1>2, <1>3, <1>4, <1>9, <1>1 DEF Runs, Running, Stages
<1>10. CASE StartFails(p)
  <2>1. CASE "tunnel" \in h /\ leaks' = leaks
    BY <1>2, <1>3, <1>4, <1>10, <1>1, <2>1 DEF StartFails, Running, Stages, Enter, h
  <2>2. CASE "tunnel" \in h /\ leaks' # leaks
    <3>1. /\ Enter(p, "undo") /\ held' = [held EXCEPT ![p] = h \ {"tunnel"}]
          /\ leaks' = [leaks EXCEPT ![p] = k \cup {"tunnel"}] /\ late' = late
          /\ stage[p] \in Running
      BY <1>3, <1>17, <1>10, <2>2 DEF StartFails, Running, h
    <3>2. stage'[p] = "undo" /\ latch' = latch
      BY <1>1, <1>10, <3>1 DEF StartFails, Enter
    <3> QED
      BY <1>1, <1>2, <1>18, <3>1, <3>2 DEF Stages
  <2>3. CASE "tunnel" \notin h /\ "server" \in h
    BY <1>2, <1>3, <1>4, <1>10, <1>1, <2>3 DEF StartFails, Running, Stages, Enter, h
  <2>4. CASE "tunnel" \notin h /\ "server" \notin h
    BY <1>2, <1>3, <1>4, <1>10, <1>1, <1>16, <2>4 DEF StartFails, Running, Stages, Enter, h
  <2> QED
    BY <2>1, <2>2, <2>3, <2>4
<1>11. CASE Undoes(p)
  BY <1>2, <1>3, <1>4, <1>11, <1>1, <1>16 DEF Undoes, Running, Stages
<1>19. CASE stage[p] \in {"settle", "tunnel"} /\ Breaks(p)
  <2>1. CASE p \in late
    <3>1. /\ Enter(p, "failed") /\ latch' = FALSE /\ late' = late
          /\ held' = [held EXCEPT ![p] = {}] /\ leaks' = [leaks EXCEPT ![p] = h]
      BY <1>19, <1>17, <2>1 DEF Breaks
    <3> QED
      BY <1>1, <1>2, <1>18, <1>19, <2>1, <3>1 DEF Running, Stages
  <2>2. CASE p \notin late
    BY <1>2, <1>3, <1>4, <1>19, <1>1, <2>2 DEF Breaks, Running, Stages
  <2> QED
    BY <2>1, <2>2
<1>12. CASE Settles(p) /\ ~Breaks(p)
  BY <1>2, <1>3, <1>4, <1>12, <1>1 DEF Settles, Running, Stages, flag
<1>13. CASE ServerEnds(p)
  BY <1>2, <1>3, <1>4, <1>13, <1>1 DEF ServerEnds, Running, Stages, flag
<1>14. CASE TunnelEnds(p) /\ ~Breaks(p)
  BY <1>2, <1>3, <1>4, <1>14, <1>1, <1>16 DEF TunnelEnds, Running, Stages, flag
<1>15. CASE Finishes(p)
  BY <1>2, <1>3, <1>4, <1>15, <1>1 DEF Finishes, Running, Stages, flag
<1>20. Settles(p) => stage[p] = "settle"
  BY DEF Settles
<1>21. TunnelEnds(p) => stage[p] = "tunnel"
  BY DEF TunnelEnds
<1> QED
  BY <1>5, <1>6, <1>7, <1>8, <1>9, <1>10, <1>11, <1>12, <1>13, <1>14, <1>15, <1>19, <1>20, <1>21
  DEF StartStep, CloseStep

\* A V1 host's instances.
LEMMA V1Moves ==
  ASSUME LifeInv, NEW p \in Plugins,
         LoadsV1(p) \/ Ticks(p) \/ DisposesV1(p) \/ LeavesV1(p) \/ LeavesBrokenV1(p)
  PROVE  LifeInv'
<1>1. /\ mode = "v1" /\ mode' = mode /\ UNCHANGED <<held, managed, leaks, late>>
      /\ UNCHANGED <<owner, chosen, turn2, issued, served, broke, ticket>>
  BY DEF LoadsV1, Ticks, DisposesV1, LeavesV1, LeavesBrokenV1, slot, flag, LifeInv, StageByMode
<1>2. plug \in [Plugins -> {"out", "in", "leaving", "left", "failed", "killed"}]
      /\ stage \in [Plugins -> Stages]
  BY DEF LifeInv, LifeShape
<1>3. SlotIsV2' /\ V2Knows' /\ CliKnows'
  BY <1>1 DEF LifeInv, SlotIsV2, V2Knows, CliKnows
<1>4. CASE LoadsV1(p)
  <2>1. /\ plug' = [plug EXCEPT ![p] = "in"] /\ plug[p] = "out" /\ stage[p] = "none" /\ latch'
        /\ stray' = stray
        /\ stage' = IF latch THEN stage ELSE [stage EXCEPT ![p] = "tick"]
    BY <1>2, <1>4 DEF LoadsV1, Becomes, Enter, LifeInv, StageByMode
  <2>2. LifeShape' /\ HeldByStage' /\ LeaksKnown' /\ StageByMode'
    BY <1>1, <1>2, <2>1 DEF LifeInv, LifeShape, HeldByStage, LeaksKnown, StageByMode, Stages
  <2>3. V1Knows'
    BY <1>1, <1>2, <2>1 DEF LifeInv, V1Knows, Acts
  <2> QED
    BY <1>3, <2>2, <2>3 DEF LifeInv
<1>5. CASE Ticks(p)
  <2>1. /\ UNCHANGED <<plug, latch, stray>> /\ stage[p] = "tick"
        /\ stage' = [stage EXCEPT ![p] = IF plug[p] = "leaving" THEN "none" ELSE "host"]
    BY <1>5 DEF Ticks, Enter, flag
  <2>2. LifeShape' /\ HeldByStage' /\ LeaksKnown' /\ StageByMode'
    BY <1>1, <1>2, <2>1 DEF LifeInv, LifeShape, HeldByStage, LeaksKnown, StageByMode, Stages
  <2>3. V1Knows'
    BY <1>1, <1>2, <2>1 DEF LifeInv, V1Knows, Acts
  <2> QED
    BY <1>3, <2>2, <2>3 DEF LifeInv
<1>6. CASE DisposesV1(p)
  <2>1. /\ UNCHANGED <<latch, stray>> /\ plug[p] = "in" /\ plug' = [plug EXCEPT ![p] = "leaving"]
        /\ stage' = IF stage[p] = "up" THEN [stage EXCEPT ![p] = "settle"] ELSE stage
    BY <1>6 DEF DisposesV1, Becomes, Enter, flag
  <2>2. LifeShape' /\ HeldByStage' /\ LeaksKnown' /\ StageByMode'
    BY <1>1, <1>2, <2>1 DEF LifeInv, LifeShape, HeldByStage, LeaksKnown, StageByMode, Stages
  <2>3. V1Knows'
    BY <1>1, <1>2, <2>1 DEF LifeInv, V1Knows, Acts
  <2> QED
    BY <1>3, <2>2, <2>3 DEF LifeInv
<1>7. CASE LeavesV1(p) \/ LeavesBrokenV1(p)
  <2>1. /\ stage' = stage
        /\ \/ /\ plug' = [plug EXCEPT ![p] = "left"] /\ ~Acts(p) /\ latch' = FALSE
              /\ stray' \in BOOLEAN
              /\ stray' \/ (~stray /\ \A q \in Plugins : ~Acts(q))
           \/ plug' = [plug EXCEPT ![p] = "failed"] /\ UNCHANGED <<latch, stray>>
    BY <1>7 DEF LeavesV1, LeavesBrokenV1, Becomes, Enter, flag, Acts, LifeInv, LifeShape
  <2>2. LifeShape' /\ HeldByStage' /\ LeaksKnown' /\ StageByMode'
    BY <1>1, <1>2, <2>1 DEF LifeInv, LifeShape, HeldByStage, LeaksKnown, StageByMode, Stages
  <2>3. V1Knows'
    BY <1>1, <1>2, <2>1 DEF LifeInv, V1Knows, Acts
  <2> QED
    BY <1>3, <2>2, <2>3 DEF LifeInv
<1> QED
  BY <1>4, <1>5, <1>6, <1>7

\* The rest of the state for a V2 host's step.
LEMMA V2Rest ==
  ASSUME LifeInv, mode = "v2", mode' = mode, LifeShape', HeldByStage', LeaksKnown',
         StageByMode', V2Knows'
  PROVE  LifeInv'
<1> QED
  BY DEF LifeInv, V1Knows, SlotIsV2, CliKnows

\* A V2 host's instances.
LEMMA V2Moves ==
  ASSUME LifeInv, NEW p \in Plugins,
         Registers(p) \/ TimerSchedules(p) \/ Deregisters(p) \/ LeavesV2(p)
  PROVE  LifeInv'
<1>1. /\ mode = "v2" /\ mode' = mode
      /\ UNCHANGED <<held, managed, stage, latch, stray, leaks, late, owner, chosen, turn2, served,
                     broke>>
  BY DEF Registers, TimerSchedules, Deregisters, LeavesV2, slot, flag
<1>2. /\ plug \in [Plugins -> {"out", "in", "leaving", "left", "failed", "killed"}]
      /\ ticket \in [Plugins -> Nat] /\ issued \in Nat /\ served \in 0 .. issued
  BY DEF LifeInv, LifeShape
<1>3. CASE Registers(p)
  <2>1. plug[p] = "out" /\ plug' = [plug EXCEPT ![p] = "in"] /\ UNCHANGED <<issued, ticket>>
    BY <1>3 DEF Registers, Becomes, slot
  <2>2. LifeShape' /\ HeldByStage' /\ LeaksKnown' /\ StageByMode'
    BY <1>1, <1>2, <2>1 DEF LifeInv, LifeShape, HeldByStage, LeaksKnown, StageByMode
  <2>3. V2Knows'
    BY <1>1, <1>2, <2>1 DEF LifeInv, V2Knows, Acts
  <2> QED
    BY <1>1, <2>2, <2>3, V2Rest
<1>4. CASE TimerSchedules(p)
  <2>1. /\ plug' = plug /\ plug[p] = "in" /\ issued' = issued + 1
        /\ ticket' = [ticket EXCEPT ![p] = issued + 1]
    BY <1>4 DEF TimerSchedules
  <2>2. LifeShape' /\ HeldByStage' /\ LeaksKnown' /\ StageByMode'
    BY <1>1, <1>2, <2>1 DEF LifeInv, LifeShape, HeldByStage, LeaksKnown, StageByMode
  <2>3. V2Knows'
    BY <1>1, <1>2, <2>1 DEF LifeInv, V2Knows, Acts
  <2> QED
    BY <1>1, <2>2, <2>3, V2Rest
<1>5. CASE Deregisters(p)
  <2>1. /\ plug' = [plug EXCEPT ![p] = "leaving"] /\ plug[p] = "in"
        /\ issued' = issued + 1 /\ ticket' = [ticket EXCEPT ![p] = issued + 1]
    BY <1>5 DEF Deregisters, Becomes
  <2>2. LifeShape' /\ HeldByStage' /\ LeaksKnown' /\ StageByMode'
    BY <1>1, <1>2, <2>1 DEF LifeInv, LifeShape, HeldByStage, LeaksKnown, StageByMode
  <2>3. ticket'[p] > served /\ (p = chosen => ticket'[p] > served + 1)
    <3>1. chosen # NoPlugin => served < issued
      BY <1>1 DEF LifeInv, V2Knows
    <3>2. ticket'[p] = issued + 1 /\ p # NoPlugin
      BY <1>2, <2>1, NoPluginAssumption
    <3> QED
      BY <1>2, <3>1, <3>2
  <2>4. V2Knows'
    BY <1>1, <1>2, <2>1, <2>3 DEF LifeInv, V2Knows, Acts
  <2> QED
    BY <1>1, <2>2, <2>4, V2Rest
<1>6. CASE LeavesV2(p)
  <2>1. /\ plug[p] = "leaving" /\ served >= ticket[p] /\ UNCHANGED <<issued, ticket>>
        /\ plug' = [plug EXCEPT ![p] = IF ticket[p] \in broke THEN "failed" ELSE "left"]
    BY <1>6 DEF LeavesV2, Becomes, slot
  <2>2. LifeShape' /\ HeldByStage' /\ LeaksKnown' /\ StageByMode'
    BY <1>1, <1>2, <2>1 DEF LifeInv, LifeShape, HeldByStage, LeaksKnown, StageByMode
  <2>3. p \in {owner, chosen} => ticket[p] \in broke
    BY <1>1, <1>2, <2>1 DEF LifeInv, V2Knows
  <2>4. V2Knows'
    BY <1>1, <1>2, <2>1, <2>3 DEF LifeInv, V2Knows, Acts
  <2> QED
    BY <1>1, <2>2, <2>4, V2Rest
<1> QED
  BY <1>3, <1>4, <1>5, <1>6

\* A reconcile, once the owner's gateway is closed or there was none.
LEMMA NextIsStarted ==
  ASSUME LifeInv, mode = "v2", \A p \in Plugins : ~Acts(p), turn2 # "starting", served < issued,
         owner' = NoPlugin,
         IF Candidates = {} THEN Serve(TRUE) /\ UNCHANGED <<stage, chosen>> ELSE StartNext,
         UNCHANGED <<mode, plug, held, flag, issued, ticket, managed>>
  PROVE  LifeInv'
<1>1. /\ UNCHANGED <<mode, plug, held, latch, stray, leaks, late, issued, ticket, managed>>
      /\ stage \in [Plugins -> Stages] /\ served \in Nat /\ issued \in Nat /\ chosen = NoPlugin
      /\ broke \subseteq Nat
  BY DEF flag, LifeInv, LifeShape, V2Knows
<1>2. CASE Candidates = {}
  <2>1. turn2' = "rest" /\ served' = served + 1 /\ UNCHANGED <<broke, stage, chosen>>
    BY <1>2 DEF Serve
  <2>2. LifeShape' /\ HeldByStage' /\ LeaksKnown' /\ StageByMode'
    BY <1>1, <2>1 DEF LifeInv, LifeShape, HeldByStage, LeaksKnown, StageByMode
  <2>3. V2Knows'
    BY <1>1, <2>1, NoPluginAssumption DEF LifeInv, V2Knows, Acts
  <2> QED
    BY <1>1, <2>2, <2>3, V2Rest
<1>3. CASE Candidates # {}
  <2> DEFINE c == Least(Candidates)
  <2>1. c \in Plugins /\ plug[c] = "in"
    BY <1>3, LeastIsThere DEF Candidates
  <2>2. /\ turn2' = "starting" /\ chosen' = c /\ stage' = [stage EXCEPT ![c] = "host"]
        /\ UNCHANGED <<served, broke>>
    BY <1>3 DEF StartNext, Enter
  <2> HIDE DEF c
  <2>3. held[c] = {}
    BY <2>1 DEF LifeInv, HeldByStage, Acts
  <2>4. LifeShape' /\ HeldByStage' /\ LeaksKnown' /\ StageByMode'
    BY <1>1, <2>1, <2>2, <2>3 DEF LifeInv, LifeShape, HeldByStage, LeaksKnown, StageByMode, Stages
  <2>5. V2Knows'
    BY <1>1, <2>1, <2>2, NoPluginAssumption DEF LifeInv, V2Knows, Acts
  <2> QED
    BY <1>1, <2>4, <2>5, V2Rest
<1> QED
  BY <1>2, <1>3

\* The reconciles of a V2 host.
LEMMA SlotMoves ==
  ASSUME LifeInv, Reconciles \/ ClosedV2 \/ BrokenV2 \/ StartedV2
  PROVE  LifeInv'
<1>1. /\ UNCHANGED <<mode, plug, held, latch, stray, leaks, late, issued, ticket, managed>>
      /\ stage \in [Plugins -> Stages] /\ served \in 0 .. issued /\ issued \in Nat
      /\ broke \subseteq Nat
      /\ owner \in Plugins \cup {NoPlugin} /\ chosen \in Plugins \cup {NoPlugin}
  BY DEF Reconciles, ClosedV2, BrokenV2, StartedV2, flag, LifeInv, LifeShape
<1>2. mode = "v2"
  <2>1. turn2 # "rest" \/ served < issued
    BY DEF Reconciles, ClosedV2, BrokenV2, StartedV2
  <2>2. mode # "v2" => turn2 = "rest" /\ issued = 0
    BY DEF LifeInv, SlotIsV2
  <2> QED
    BY <1>1, <2>1, <2>2
<1>3. CASE Reconciles
  <2>1. turn2 = "rest" /\ served < issued /\ chosen = NoPlugin /\ owner' = owner
    BY <1>2, <1>3 DEF Reconciles, LifeInv, V2Knows
  <2>2. CASE owner = NoPlugin
    <3>1. \A p \in Plugins : ~Acts(p)
      BY <1>2, <2>1, <2>2, NoPluginAssumption DEF LifeInv, V2Knows
    <3>2. IF Candidates = {} THEN Serve(TRUE) /\ UNCHANGED <<stage, chosen>> ELSE StartNext
      BY <1>3, <2>2 DEF Reconciles
    <3> QED
      BY <1>1, <1>2, <2>1, <2>2, <3>1, <3>2, NextIsStarted DEF flag
  <2>3. CASE owner # NoPlugin /\ owner \in Candidates
    <3>1. turn2' = "rest" /\ served' = served + 1 /\ UNCHANGED <<broke, stage, chosen>>
      BY <1>3, <2>3 DEF Reconciles, Serve
    <3>2. LifeShape' /\ HeldByStage' /\ LeaksKnown' /\ StageByMode'
      BY <1>1, <2>1, <3>1 DEF LifeInv, LifeShape, HeldByStage, LeaksKnown, StageByMode
    <3>3. plug[owner] = "in"
      BY <2>3 DEF Candidates
    <3>4. V2Knows'
      BY <1>1, <2>1, <2>3, <3>1, <3>3, NoPluginAssumption DEF LifeInv, V2Knows, Acts
    <3> QED
      BY <1>1, <1>2, <3>2, <3>4, V2Rest
  <2>4. CASE owner # NoPlugin /\ owner \notin Candidates
    <3>1. /\ turn2' = "closing" /\ stage' = [stage EXCEPT ![owner] = "settle"]
          /\ UNCHANGED <<chosen, served, broke>> /\ owner \in Plugins
      BY <1>1, <1>3, <2>4 DEF Reconciles, Enter
    <3>2. LifeShape' /\ HeldByStage' /\ LeaksKnown' /\ StageByMode'
      BY <1>1, <1>2, <2>1, <3>1
      DEF LifeInv, LifeShape, HeldByStage, LeaksKnown, StageByMode, Stages, V2Knows
    <3>3. V2Knows'
      BY <1>1, <1>2, <2>1, <2>4, <3>1 DEF LifeInv, V2Knows, Acts
    <3> QED
      BY <1>1, <1>2, <3>2, <3>3, V2Rest
  <2> QED
    BY <2>2, <2>3, <2>4
<1>4. CASE ClosedV2
  <2>1. /\ turn2 = "closing" /\ stage[owner] = "closed" /\ owner' = NoPlugin
        /\ IF Candidates = {} THEN Serve(TRUE) /\ UNCHANGED <<stage, chosen>> ELSE StartNext
    BY <1>4 DEF ClosedV2
  <2>2. served < issued /\ chosen = NoPlugin
    BY <1>2, <2>1 DEF LifeInv, V2Knows
  <2>3. \A p \in Plugins : ~Acts(p)
    BY <1>2, <2>1, <2>2, NoPluginAssumption DEF LifeInv, V2Knows, Acts
  <2> QED
    BY <1>1, <1>2, <2>1, <2>2, <2>3, NextIsStarted DEF flag
<1>5. CASE BrokenV2
  <2>1. /\ turn2 = "closing" /\ turn2' = "rest" /\ served' = served + 1
        /\ broke' = broke \cup {served + 1} /\ UNCHANGED <<stage, owner, chosen>>
    BY <1>5 DEF BrokenV2, Serve
  <2>2. served < issued /\ chosen = NoPlugin
    BY <1>2, <2>1 DEF LifeInv, V2Knows
  <2>3. LifeShape' /\ HeldByStage' /\ LeaksKnown' /\ StageByMode'
    BY <1>1, <2>1, <2>2 DEF LifeInv, LifeShape, HeldByStage, LeaksKnown, StageByMode
  <2>4. \A p \in Plugins : plug[p] = "leaving" /\ p = owner =>
          ticket[p] > served' \/ ticket[p] \in broke'
    <3>1. ticket \in [Plugins -> Nat]
      BY DEF LifeInv, LifeShape
    <3> QED
      BY <1>1, <1>2, <2>1, <3>1 DEF LifeInv, V2Knows
  <2>5. V2Knows'
    BY <1>1, <1>2, <2>1, <2>2, <2>4, NoPluginAssumption DEF LifeInv, V2Knows, Acts
  <2> QED
    BY <1>1, <1>2, <2>3, <2>5, V2Rest
<1>6. CASE StartedV2
  <2>1. /\ turn2 = "starting" /\ stage[chosen] \in {"up", "failed"} /\ chosen' = NoPlugin
        /\ owner' = (IF stage[chosen] = "up" THEN chosen ELSE owner) /\ stage' = stage
        /\ turn2' = "rest" /\ served' = served + 1 /\ broke \subseteq broke'
        /\ broke' \subseteq Nat
    BY <1>1, <1>6 DEF StartedV2, Serve
  <2>2. served < issued /\ owner = NoPlugin /\ chosen # NoPlugin
    BY <1>2, <2>1 DEF LifeInv, V2Knows
  <2>3. LifeShape' /\ HeldByStage' /\ LeaksKnown' /\ StageByMode'
    BY <1>1, <2>1, <2>2 DEF LifeInv, LifeShape, HeldByStage, LeaksKnown, StageByMode
  <2>4. V2Knows'
    BY <1>1, <1>2, <2>1, <2>2, NoPluginAssumption DEF LifeInv, V2Knows, Acts
  <2> QED
    BY <1>1, <1>2, <2>3, <2>4, V2Rest
<1> QED
  BY <1>3, <1>4, <1>5, <1>6

\* The foreground process.
LEMMA CliMoves ==
  ASSUME LifeInv, NEW p \in Plugins,
         RunsCli(p) \/ ServerReady(p) \/ ServerFails(p) \/ LeavesCli(p) \/ KilledCli(p)
  PROVE  LifeInv'
<1>1. /\ mode = "cli" /\ mode' = mode /\ UNCHANGED <<latch, stray, late>>
      /\ UNCHANGED <<owner, chosen, turn2, issued, served, broke, ticket>>
  BY DEF RunsCli, ServerReady, ServerFails, LeavesCli, KilledCli, slot, flag, LifeInv, StageByMode
<1>2. /\ plug \in [Plugins -> {"out", "in", "leaving", "left", "failed", "killed"}]
      /\ stage \in [Plugins -> Stages] /\ held \in [Plugins -> SUBSET {"server", "tunnel"}]
      /\ leaks \in [Plugins -> SUBSET {"server", "tunnel"}]
  BY DEF LifeInv, LifeShape
<1>3. SlotIsV2' /\ V2Knows' /\ V1Knows'
  BY <1>1 DEF LifeInv, SlotIsV2, V2Knows, V1Knows
<1>4. \A q \in Plugins \ {p} : plug[p] # "out" \/ p = Least(Plugins) => plug[q] = "out"
  BY <1>1 DEF LifeInv, CliKnows
<1>5. CASE RunsCli(p)
  <2>1. /\ plug[p] = "out" /\ leaks' = leaks /\ plug' = [plug EXCEPT ![p] = "in"] /\ held' = held
        /\ p = Least(Plugins)
        /\ \/ managed' = "none" /\ stage' = [stage EXCEPT ![p] = "host"]
           \/ managed' = "starting" /\ stage' = [stage EXCEPT ![p] = "serve"]
    BY <1>5 DEF RunsCli, Becomes, Enter, flag
  <2>2. LifeShape' /\ HeldByStage' /\ LeaksKnown' /\ StageByMode'
    BY <1>1, <1>2, <2>1 DEF LifeInv, LifeShape, HeldByStage, LeaksKnown, StageByMode, Stages
  <2>3. CliKnows'
    BY <1>1, <1>2, <1>4, <2>1 DEF LifeInv, CliKnows, StageByMode
  <2> QED
    BY <1>3, <2>2, <2>3 DEF LifeInv
<1>6. CASE ServerReady(p)
  <2>1. /\ stage[p] = "serve" /\ managed' = "up" /\ stage' = [stage EXCEPT ![p] = "host"]
        /\ UNCHANGED <<plug, held, leaks>> /\ plug[p] = "in"
    BY <1>1, <1>6 DEF ServerReady, Enter, LifeInv, CliKnows, flag
  <2>2. LifeShape' /\ HeldByStage' /\ LeaksKnown' /\ StageByMode'
    BY <1>1, <1>2, <2>1 DEF LifeInv, LifeShape, HeldByStage, LeaksKnown, StageByMode, Stages
  <2>3. CliKnows'
    BY <1>1, <1>2, <1>4, <2>1 DEF LifeInv, CliKnows
  <2> QED
    BY <1>3, <2>2, <2>3 DEF LifeInv
<1>7. CASE ServerFails(p)
  <2>1. /\ stage[p] = "serve" /\ managed' \in {"dead", "stopped"}
        /\ stage' = [stage EXCEPT ![p] = "failed"]
        /\ UNCHANGED <<held, leaks>> /\ held[p] = {} /\ leaks[p] = {}
        /\ plug[p] = "in" /\ plug' = [plug EXCEPT ![p] = "left"]
    BY <1>1, <1>7 DEF ServerFails, Enter, Becomes, LifeInv, CliKnows, HeldByStage, LeaksKnown,
         flag
  <2>2. LifeShape' /\ HeldByStage' /\ LeaksKnown' /\ StageByMode'
    BY <1>1, <1>2, <2>1 DEF LifeInv, LifeShape, HeldByStage, LeaksKnown, StageByMode, Stages
  <2>3. CliKnows'
    BY <1>1, <1>2, <1>4, <2>1 DEF LifeInv, CliKnows
  <2> QED
    BY <1>3, <2>2, <2>3 DEF LifeInv
<1>8. CASE LeavesCli(p)
  <2>1. /\ plug[p] = "in" /\ stage[p] \in {"failed", "closed", "broken"} /\ stage' = stage
        /\ managed' = (IF managed = "up" THEN "stopped" ELSE managed)
        /\ plug' = [plug EXCEPT ![p] = "left"]
        /\ held' = [held EXCEPT ![p] = IF stage[p] = "broken" THEN {} ELSE held[p]]
        /\ leaks' = [leaks EXCEPT ![p] = {}]
    BY <1>2, <1>8 DEF LeavesCli, Becomes
  <2>2. held'[p] = {} /\ managed # "starting"
    BY <1>1, <1>2, <2>1 DEF LifeInv, HeldByStage, CliKnows
  <2>3. LifeShape' /\ HeldByStage' /\ LeaksKnown' /\ StageByMode'
    BY <1>1, <1>2, <2>1, <2>2 DEF LifeInv, LifeShape, HeldByStage, LeaksKnown, StageByMode
  <2>4. CliKnows'
    BY <1>1, <1>2, <1>4, <2>1, <2>2 DEF LifeInv, CliKnows
  <2> QED
    BY <1>3, <2>3, <2>4 DEF LifeInv
<1>9. CASE KilledCli(p)
  <2>1. /\ plug[p] = "in" /\ managed' = managed /\ plug' = [plug EXCEPT ![p] = "killed"]
        /\ stage' = [stage EXCEPT ![p] = "none"] /\ held' = [held EXCEPT ![p] = {}]
        /\ leaks' = [leaks EXCEPT ![p] = {}]
    BY <1>9 DEF KilledCli, Becomes, Enter
  <2>2. LifeShape' /\ HeldByStage' /\ LeaksKnown' /\ StageByMode'
    BY <1>1, <1>2, <2>1 DEF LifeInv, LifeShape, HeldByStage, LeaksKnown, StageByMode, Stages
  <2>3. CliKnows'
    BY <1>1, <1>2, <1>4, <2>1 DEF LifeInv, CliKnows
  <2> QED
    BY <1>3, <2>2, <2>3 DEF LifeInv
<1> QED
  BY <1>5, <1>6, <1>7, <1>8, <1>9

\* What happens around the gateways, and nothing.
LEMMA LifeIdles ==
  ASSUME LifeInv, UNCHANGED <<mode, plug, stage, held, latch, stray, owner, chosen, turn2>>,
         UNCHANGED <<leaks, late, issued, served, broke, ticket>>,
         managed' = managed \/ managed' = "dead"
  PROVE  LifeInv'
<1> QED
  BY DEF LifeInv, LifeShape, HeldByStage, LeaksKnown, StageByMode, V1Knows, V2Knows, SlotIsV2,
       CliKnows, Acts

\* Every step keeps the invariant.
LEMMA LifeSteps ==
  ASSUME LifeInv, [LifeNext]_lifeVars
  PROVE  LifeInv'
<1>1. CASE UNCHANGED lifeVars
  BY <1>1, LifeIdles DEF lifeVars
<1>2. CASE ServerDies \/ TunnelFails \/ \E b \in BOOLEAN : Talks(b)
  BY <1>2, LifeIdles DEF ServerDies, TunnelFails, Talks, slot, flag
<1>3. ASSUME NEW p \in Plugins, StartStep(p) \/ CloseStep(p) \/ Finishes(p)
      PROVE  LifeInv'
  BY <1>3, StagesMove
<1>4. ASSUME NEW p \in Plugins,
             LoadsV1(p) \/ Ticks(p) \/ DisposesV1(p) \/ LeavesV1(p) \/ LeavesBrokenV1(p)
      PROVE  LifeInv'
  BY <1>4, V1Moves
<1>5. ASSUME NEW p \in Plugins, Registers(p) \/ TimerSchedules(p) \/ Deregisters(p) \/ LeavesV2(p)
      PROVE  LifeInv'
  BY <1>5, V2Moves
<1>6. ASSUME NEW p \in Plugins,
             RunsCli(p) \/ ServerReady(p) \/ ServerFails(p) \/ LeavesCli(p) \/ KilledCli(p)
      PROVE  LifeInv'
  BY <1>6, CliMoves
<1>7. ASSUME Reconciles \/ ClosedV2 \/ BrokenV2 \/ StartedV2
      PROVE  LifeInv'
  BY <1>7, SlotMoves
<1> QED
  BY <1>1, <1>2, <1>3, <1>4, <1>5, <1>6, <1>7 DEF LifeNext

\* The gateway's life never leaves its invariant, in any of the three modes.
THEOREM LifeIsInvariant == LifeSpec => []LifeInv
<1>1. LifeInit => LifeInv
  BY LifeStarts
<1>2. LifeInv /\ [LifeNext]_lifeVars => LifeInv'
  BY LifeSteps
<1> QED
  BY <1>1, <1>2, PTL DEF LifeSpec

\* A process has one gateway at most, for any number of instances.
THEOREM GatewaysAreOne == LifeSpec => []AtMostOneGateway
<1>1. ASSUME LifeInv
      PROVE  AtMostOneGateway
  <2> SUFFICES ASSUME ~stray, NEW p \in Plugins, NEW q \in Plugins, held[p] # {}, held[q] # {}
               PROVE  p = q
    BY DEF AtMostOneGateway
  <2>1. Acts(p) /\ Acts(q)
    BY <1>1 DEF LifeInv, HeldByStage, Acts
  <2>2. mode = "cli" => plug[p] # "out" /\ plug[q] # "out"
    BY <1>1, <2>1 DEF LifeInv, StageByMode, Acts
  <2> QED
    BY <1>1, <2>1, <2>2, NoPluginAssumption DEF LifeInv, LifeShape, V1Knows, V2Knows, CliKnows
<1> QED
  BY <1>1, LifeIsInvariant, PTL

\* Whoever left holds nothing, and a foreground process that ended has stopped its server;
\* only a start leaves something open unseen, and the listener only when its instance was
\* disposed meanwhile (startInPluginGateway, dispose).
THEOREM NothingStaysBehind == LifeSpec => []NothingIsLeft
<1>1. ASSUME LifeInv
      PROVE  NothingIsLeft
  <2> SUFFICES ASSUME NEW p \in Plugins, plug[p] = "left"
               PROVE  /\ held[p] = {}
                      /\ leaks[p] # {} => stage[p] = "failed" \/ mode = "v2"
                      /\ "server" \in leaks[p] => p \in late
                      /\ mode = "cli" => managed \notin {"starting", "up"} /\ leaks[p] = {}
    BY DEF NothingIsLeft
  <2>1. mode \in {"v1", "v2"} => ~Acts(p)
    BY <1>1 DEF LifeInv, V1Knows, V2Knows
  <2> QED
    BY <1>1, <2>1 DEF LifeInv, LifeShape, HeldByStage, LeaksKnown, CliKnows, Acts
<1> QED
  BY <1>1, LifeIsInvariant, PTL
=============================================================================

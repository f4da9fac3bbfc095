------------------------------ MODULE Journals ------------------------------
(***************************************************************************)
(* The files that several processes share and the locks around them: a      *)
(* lock file that may be removed when it is a minute old (gateway/state,    *)
(* which waits for it, and hosted-call-registry, which does not), a lock    *)
(* that names its owner (slack-progress), and no lock (a2a-delegations).    *)
(* Each call of the file system is a step, and a process may die at any.    *)
(***************************************************************************)
EXTENDS Naturals, FiniteSets

CONSTANTS
  Writers,   \* processes, each of which makes one change
  Free,      \* no lock file
  MaxDeaths, \* bound: processes that die
  Depth      \* bound: recovery locks of recovery locks

ASSUME FreeAssumption == Free \notin Writers
ASSUME DepthAssumption == Depth \in Nat

VARIABLES
  protocol, \* "waiting", "failing", "owned" or "bare", fixed
  step,     \* where each process stands
  level,    \* the lock it tries to get: 0, the file's, or the recovery lock above
  locks,    \* the process each lock file belongs to, or Free
  old,      \* the file's lock is a minute old
  judged,   \* whose lock a process has found to be old
  image,    \* the changes in what a process has read
  file,     \* the changes in the file
  kept,     \* history: the changes that were written
  slip      \* history: a lock was removed from under a process that lives

journalVars == <<protocol, step, level, locks, old, judged, image, file, kept, slip>>

Protocols == {"waiting", "failing", "owned", "bare"}
Steps == {"idle", "try", "judge", "remove", "recheck", "reclaim", "read", "write", "check", "free",
          "done", "busy", "dead"}
Levels == 0 .. Depth

JournalTypeOK ==
  /\ protocol \in Protocols /\ step \in [Writers -> Steps] /\ level \in [Writers -> Levels]
  /\ locks \in [Levels -> Writers \cup {Free}] /\ {old, slip} \subseteq BOOLEAN
  /\ judged \in [Writers -> Writers \cup {Free}]
  /\ image \in [Writers -> SUBSET Writers] /\ file \subseteq Writers /\ kept \subseteq Writers

JournalInit ==
  /\ protocol \in Protocols
  /\ step = [p \in Writers |-> "idle"] /\ level = [p \in Writers |-> 0]
  /\ locks = [l \in Levels |-> Free] /\ old = FALSE
  /\ judged = [p \in Writers |-> Free] /\ image = [p \in Writers |-> {}]
  /\ file = {} /\ kept = {} /\ slip = FALSE

-----------------------------------------------------------------------------
To(p, s) == step' = [step EXCEPT ![p] = s]
Dead(p) == step[p] = "dead"
Climbs(p) == level' = [level EXCEPT ![p] = @ + 1]
Descends(p) == level' = [level EXCEPT ![p] = @ - 1]

\* unlink: whoever has the lock now loses it.
Unlinks(p, l) ==
  /\ locks' = [locks EXCEPT ![l] = Free]
  /\ slip' = (slip \/ (locks[l] \notin {Free, p} /\ ~Dead(locks[l])))
  /\ old' = (old /\ l # 0)

WriterBegins(p) ==
  /\ step[p] = "idle" /\ To(p, IF protocol = "bare" THEN "read" ELSE "try")
  /\ UNCHANGED <<protocol, level, locks, old, judged, image, file, kept, slip>>

\* open "wx", or link: only one process creates the file.
Tries(p) ==
  /\ step[p] = "try"
  /\ IF locks[level[p]] = Free
     THEN /\ locks' = [locks EXCEPT ![level[p]] = p]
          /\ old' = (old /\ level[p] # 0)
          /\ To(p, IF level[p] = 0 THEN "read" ELSE "recheck")
     ELSE To(p, "judge") /\ UNCHANGED <<locks, old>>
  /\ UNCHANGED <<protocol, level, judged, image, file, kept, slip>>

\* By its age: a lock that is gone is tried again, an old one is to be removed;
\* a fresh one is waited for, for a while, or is an error.
JudgesAge(p) ==
  /\ protocol \in {"waiting", "failing"} /\ step[p] = "judge"
  /\ judged' = [judged EXCEPT ![p] = locks[0]]
  /\ \/ locks[0] = Free /\ To(p, "try")
     \/ locks[0] # Free /\ old /\ To(p, "remove")
     \/ locks[0] # Free /\ ~old /\ protocol = "waiting" /\ To(p, "try")
     \/ locks[0] # Free /\ ~old /\ To(p, "busy")
  /\ UNCHANGED <<protocol, level, locks, old, image, file, kept, slip>>

\* ... and removed, whatever is there by now.
RemovesOld(p) ==
  /\ step[p] = "remove" /\ Unlinks(p, 0) /\ To(p, "try")
  /\ UNCHANGED <<protocol, level, judged, image, file, kept>>

\* Variant: a dead owner's lock is removed at once.
JudgesOwnerAlone(p) ==
  /\ protocol = "owned" /\ step[p] = "judge" /\ UNCHANGED level
  /\ LET owner == locks[level[p]] IN
     \/ owner = Free /\ To(p, "try")
     \/ owner # Free /\ ~Dead(owner) /\ To(p, "busy")
     \/ owner # Free /\ Dead(owner) /\ To(p, "remove")
  /\ UNCHANGED <<protocol, locks, old, judged, image, file, kept, slip>>

\* By its owner: a dead one's lock is reclaimed under a lock of the same kind.
JudgesOwner(p) ==
  /\ protocol = "owned" /\ step[p] = "judge"
  /\ LET owner == locks[level[p]] IN
     \/ owner = Free /\ To(p, "try") /\ UNCHANGED level
     \/ owner # Free /\ ~Dead(owner) /\ To(p, "busy") /\ UNCHANGED level
     \/ owner # Free /\ Dead(owner) /\ level[p] < Depth /\ To(p, "try") /\ Climbs(p)
  /\ UNCHANGED <<protocol, locks, old, judged, image, file, kept, slip>>

\* With the recovery lock in hand, the owner below is looked at again.
Rechecks(p) ==
  /\ step[p] = "recheck"
  /\ LET owner == locks[level[p] - 1] IN
     To(p, IF owner # Free /\ Dead(owner) THEN "reclaim" ELSE "check")
  /\ UNCHANGED <<protocol, level, locks, old, judged, image, file, kept, slip>>

Reclaims(p) ==
  /\ step[p] = "reclaim" /\ Unlinks(p, level[p] - 1) /\ To(p, "check")
  /\ UNCHANGED <<protocol, level, judged, image, file, kept>>

-----------------------------------------------------------------------------
(* The change *)

Reads(p) ==
  /\ step[p] = "read" /\ image' = [image EXCEPT ![p] = file] /\ To(p, "write")
  /\ UNCHANGED <<protocol, level, locks, old, judged, file, kept, slip>>

\* A temporary file is renamed over the old one, or the change throws.
Writes(p) ==
  /\ step[p] = "write"
  /\ file' \in {file, image[p] \cup {p}}
  /\ kept' = IF file' = file THEN kept ELSE kept \cup {p}
  /\ To(p, IF protocol = "bare" THEN "done" ELSE IF protocol = "owned" THEN "check" ELSE "free")
  /\ UNCHANGED <<protocol, level, locks, old, judged, image, slip>>

\* release of an owned lock: only one that still is its own.
Checks(p) ==
  /\ step[p] = "check"
  /\ To(p, IF locks[level[p]] = p THEN "free" ELSE IF level[p] = 0 THEN "done" ELSE "try")
  /\ level' = [level EXCEPT ![p] = IF locks[level[p]] # p /\ @ > 0 THEN @ - 1 ELSE @]
  /\ UNCHANGED <<protocol, locks, old, judged, image, file, kept, slip>>

Frees(p) ==
  /\ step[p] = "free" /\ Unlinks(p, level[p])
  /\ IF level[p] > 0 THEN To(p, "try") /\ Descends(p) ELSE To(p, "done") /\ UNCHANGED level
  /\ UNCHANGED <<protocol, judged, image, file, kept>>

GrowsOld ==
  /\ protocol \in {"waiting", "failing"} /\ locks[0] # Free /\ ~old /\ old' = TRUE
  /\ UNCHANGED <<protocol, step, level, locks, judged, image, file, kept, slip>>

WriterDies(p) ==
  /\ step[p] \notin {"idle", "done", "busy", "dead"} /\ To(p, "dead")
  /\ Cardinality({q \in Writers : Dead(q)}) < MaxDeaths
  /\ UNCHANGED <<protocol, level, locks, old, judged, image, file, kept, slip>>

JournalNext ==
  \/ \E p \in Writers :
       \/ WriterBegins(p) \/ Tries(p) \/ JudgesAge(p) \/ RemovesOld(p) \/ JudgesOwner(p) \/ Rechecks(p)
       \/ Reclaims(p) \/ Reads(p) \/ Writes(p) \/ Checks(p) \/ Frees(p) \/ WriterDies(p)
  \/ GrowsOld

JournalSpec == JournalInit /\ [][JournalNext]_journalVars

-----------------------------------------------------------------------------
(* No change that was written is lost to another writer, whoever dies where *)
(* and whoever cleans up after the dead: with a lock that names its owner   *)
(* always, with one that is judged by its age as long as none is taken from *)
(* a process that lives.                                                    *)
NoUpdateLost ==
  protocol = "owned" \/ (protocol \in {"waiting", "failing"} /\ ~slip) => kept \subseteq file
=============================================================================

----------------------------- MODULE TurnStore -----------------------------
(***************************************************************************)
(* The durable turn journal of gateway/state.ts, for one conversation (one *)
(* chatKey: every rule of the store that relates two turns relates turns   *)
(* of the same chatKey).  Each operator below is one mutate() of the state *)
(* file, which the code runs under a lock file and commits with a rename,  *)
(* so it is one atomic step even across processes.                         *)
(*                                                                         *)
(* Turns are numbered in creation order.  A turn's ownerId is a gateway    *)
(* incarnation (a session manager draws a fresh random id when it is       *)
(* created, so a restarted gateway is a different incarnation), and its    *)
(* leaseUntil is abstracted to whether that instant is still ahead.        *)
(***************************************************************************)
EXTENDS Naturals, FiniteSets

CONSTANTS
  N,        \* how many turns the conversation can hold (bounds the model)
  Procs,    \* gateway incarnations, live at the same time or one after another
  NoProc,   \* the absent ownerId
  Capture   \* the turns with deliver = FALSE (runText); the rest answer a person

Turns == 1..N

ASSUME CountAssumption   == N \in Nat
ASSUME OwnerAssumption   == NoProc \notin Procs
ASSUME CaptureAssumption == Capture \subseteq Turns

VARIABLES
  st,       \* turn.state; "absent" before the turn is saved
  unc,      \* turn.uncertainStage, or "none"
  fenced,   \* turn.executionFenced
  owner,    \* turn.ownerId, or NoProc
  lease     \* turn.leaseUntil > now

store == <<st, unc, fenced, owner, lease>>

Terminal      == {"delivered", "failed", "interrupted"}
Active        == {"paused", "queued", "submitting", "submitted", "completed",
                  "delivery_started"}
Interruptible == {"queued", "submitting", "submitted"}
State         == Terminal \cup Active \cup {"absent"}

StoreTypeOK ==
  /\ st     \in [Turns -> State]
  /\ unc    \in [Turns -> {"none", "submission", "delivery"}]
  /\ fenced \in [Turns -> BOOLEAN]
  /\ owner  \in [Turns -> Procs \cup {NoProc}]
  /\ lease  \in [Turns -> BOOLEAN]

StoreInit ==
  /\ st     = [t \in Turns |-> "absent"]
  /\ unc    = [t \in Turns |-> "none"]
  /\ fenced = [t \in Turns |-> FALSE]
  /\ owner  = [t \in Turns |-> NoProc]
  /\ lease  = [t \in Turns |-> FALSE]

----------------------------------------------------------------------------
\* Another incarnation holds an unexpired lease on turn t.
HeldByOther(p, t) == owner[t] \notin {NoProc, p} /\ lease[t]

\* The states of a sibling turn whose live owner keeps everyone else out of
\* the conversation: a capture that has completed no longer does, and neither
\* does a paused turn.
Occupies(t) ==
  \/ st[t] \in {"queued", "submitting", "submitted", "delivery_started"}
  \/ st[t] = "completed" /\ t \notin Capture

ClaimableAlone(p, t) == st[t] # "absent" /\ ~HeldByOther(p, t)

\* claimTurn would grant p the turn.
Claimable(p, t) ==
  /\ st[t] # "absent"
  /\ ~HeldByOther(p, t)
  /\ \A u \in Turns \ {t} : ~(Occupies(u) /\ HeldByOther(p, u))

\* claimTurn grants: it looks at no state of the turn itself.
Claim(p, t) ==
  /\ Claimable(p, t)
  /\ owner' = [owner EXCEPT ![t] = p]
  /\ lease' = [lease EXCEPT ![t] = TRUE]

\* transitionTurn called with an owner: the caller must hold the live lease.
OwnedIn(p, t, states) == st[t] \in states /\ owner[t] = p /\ lease[t]

\* close(): an incarnation gives up its turns, except a reply being posted.
ReleaseAll(p) ==
  LET mine == {t \in Turns : owner[t] = p /\ st[t] # "delivery_started"}
  IN  /\ owner' = [t \in Turns |-> IF t \in mine THEN NoProc ELSE owner[t]]
      /\ lease' = [t \in Turns |-> IF t \in mine THEN FALSE ELSE lease[t]]
=============================================================================

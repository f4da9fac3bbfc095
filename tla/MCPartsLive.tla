---------------------------- MODULE MCPartsLive ----------------------------
(***************************************************************************)
(* Components that meet only through the platform or the file system, each  *)
(* on its own: `focus` says which one takes the steps of a behaviour, and  *)
(* the others stay where they began.                                        *)
(***************************************************************************)
EXTENDS A2ATask, SlackProgress, SlackActivity, GatewayLife

VARIABLE focus

vars == <<taskVars, cardVars, activityVars, lifeVars, focus>>

B(x) == IF x THEN 1 ELSE 0

\* Of a second message, a restart, an outcome tool and a cancellation at most two
\* (the second message counts for two), or, in one gateway, a second message and a
\* cancellation that finds the first one's turn in its early steps and no recovery
\* reading; no message while a cancellation is handled.
TaskEvents ==
  2 * B(sent > 1) + B(starts > 1 \/ gate = "closing") + B(calls > 0) + B(cancelHook # "none")
TaskBound ==
  \/ TaskEvents <= 2
  \/ /\ TaskEvents = 3 /\ starts = 1 /\ gate # "closing" /\ calls = 0 /\ saw = NoSight
     /\ sent = 2 => job[1] \in {"none", "turn", "quiet", "sending"}
Patient == sent' > sent => cancelHook # "pending" /\ adm \notin {"settle", "abort", "wait"}

\* The gateway ends or one effect fails or is lost, not both.
CardBound ==
  LET bad == {i \in DOMAIN log : log[i].fate \in {"lost", "failed"}}
  IN Cardinality(bad) + B(\E p \in Gateways : life[p] \in {"closing", "down"}) <= 1

Init ==
  /\ focus \in {"task", "card", "activity", "life"}
  /\ TaskInit /\ CardInit /\ ActivityInit /\ LifeInit
  /\ focus # "life" => mode = "cli"

Next ==
  /\ UNCHANGED focus
  /\ \/ /\ focus = "task" /\ TaskNext /\ Patient /\ TaskBound'
        /\ UNCHANGED <<cardVars, activityVars, lifeVars>>
     \/ /\ focus = "card" /\ CardNext /\ CardBound'
        /\ UNCHANGED <<taskVars, activityVars, lifeVars>>
     \/ /\ focus = "activity" /\ ActivityNext
        /\ UNCHANGED <<taskVars, cardVars, lifeVars>>
     \/ /\ focus = "life" /\ LifeNext
        /\ UNCHANGED <<taskVars, cardVars, activityVars>>

Spec == /\ Init /\ [][Next]_vars
        /\ TaskFairness /\ CardFairness /\ ActivityFairness /\ LifeFairness
=============================================================================

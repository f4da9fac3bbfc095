---------------------------- MODULE GatewayLife ----------------------------
(***************************************************************************)
(* Who starts a gateway, when, and what is released again: the in-plugin   *)
(* gateway of an OpenCode V1 host (a flag for the whole process), of a V2   *)
(* host (candidates that share one slot), and the foreground process with   *)
(* its own OpenCode server; the stages of startGateway with their clean-up  *)
(* and the order of close.                                                  *)
(***************************************************************************)
EXTENDS Naturals, FiniteSets

CONSTANT Plugins  \* instances of the plugin in one process, in the order of their directories

ASSUME PluginsAssumption == Plugins \subseteq Nat

NoPlugin == 0
ASSUME NoPluginAssumption == NoPlugin \notin Plugins

VARIABLES
  mode,    \* "v1", "v2" or "cli", fixed
  plug,    \* each instance: "out", "in", "leaving", "left", "failed" (with an error), "killed"
  stage,   \* where its gateway stands
  held,    \* what its gateway holds: "server", "tunnel"
  latch,   \* V1: inPluginStarted
  stray,   \* history, V1: the flag was cleared under a gateway that was not closed
  late,    \* history, V1: instances disposed during their start, which closes its result itself
  leaks,   \* history: what a start left open when an error of its clean-up was swallowed
  owner,   \* V2: slot.owner
  chosen,  \* V2: the candidate being started
  turn2,   \* V2: where the present reconcile stands
  issued,  \* V2: reconciles scheduled
  served,  \* V2: reconciles ended
  broke,   \* V2: those that ended with an error
  ticket,  \* V2: the reconcile an instance that leaves waits for; 0 before its timer has fired
  managed, \* cli: the OpenCode server it started
  deaf,    \* the tunnel has failed
  talk     \* a call is connected to the local server

lifeVars == <<mode, plug, stage, held, latch, stray, late, leaks, owner, chosen, turn2, issued,
              served, broke, ticket, managed, deaf, talk>>
slot == <<owner, chosen, turn2, issued, served, broke, ticket>>
flag == <<latch, stray, late, leaks>>

Stages == {"none", "tick", "serve", "host", "listen", "dial", "bind", "wire", "up", "undo",
           "failed", "settle", "server", "tunnel", "closed", "broken"}
MaxIssued == 2 * Cardinality(Plugins)

LifeTypeOK ==
  /\ mode \in {"v1", "v2", "cli"}
  /\ plug \in [Plugins -> {"out", "in", "leaving", "left", "failed", "killed"}]
  /\ stage \in [Plugins -> Stages] /\ held \in [Plugins -> SUBSET {"server", "tunnel"}]
  /\ {latch, stray, deaf, talk} \subseteq BOOLEAN
  /\ late \subseteq Plugins /\ leaks \in [Plugins -> SUBSET {"server", "tunnel"}]
  /\ {owner, chosen} \subseteq Plugins \cup {NoPlugin}
  /\ turn2 \in {"rest", "closing", "starting"}
  /\ issued \in 0 .. MaxIssued /\ served \in 0 .. issued /\ broke \subseteq 1 .. MaxIssued
  /\ ticket \in [Plugins -> 0 .. MaxIssued]
  /\ managed \in {"none", "starting", "up", "dead", "stopped"}

LifeInit ==
  /\ mode \in {"v1", "v2", "cli"}
  /\ plug = [p \in Plugins |-> "out"] /\ stage = [p \in Plugins |-> "none"]
  /\ held = [p \in Plugins |-> {}]
  /\ latch = FALSE /\ stray = FALSE /\ late = {} /\ leaks = [p \in Plugins |-> {}]
  /\ owner = NoPlugin /\ chosen = NoPlugin /\ turn2 = "rest"
  /\ issued = 0 /\ served = 0 /\ broke = {} /\ ticket = [p \in Plugins |-> 0]
  /\ managed = "none" /\ deaf = FALSE /\ talk = FALSE

-----------------------------------------------------------------------------
Enter(p, s) == stage' = [stage EXCEPT ![p] = s]
Holds(p, x) == held' = [held EXCEPT ![p] = @ \cup {x}]
Drops(p, x) == held' = [held EXCEPT ![p] = @ \ {x}]
Becomes(p, s) == plug' = [plug EXCEPT ![p] = s]
Least(S) == CHOOSE p \in S : \A q \in S : p <= q
Candidates == {p \in Plugins : plug[p] = "in"}

(* startGateway: each stage is what it awaits *)

HostReady(p) ==
  /\ stage[p] = "host"
  /\ Enter(p, "listen")
  /\ UNCHANGED <<mode, plug, held, flag, slot, managed, deaf, talk>>

\* The port is free again as soon as its server has begun to close.
Listens(p) ==
  /\ stage[p] = "listen"
  /\ \A q \in Plugins : /\ "server" \in held[q] => stage[q] = "server"
                        /\ "server" \notin leaks[q]
  /\ Holds(p, "server") /\ Enter(p, "dial")
  /\ UNCHANGED <<mode, plug, flag, slot, managed, deaf, talk>>

\* A tunnel is provisioned, or a public URL needs none.
Dials(p) ==
  /\ stage[p] = "dial"
  /\ \/ Enter(p, "wire") /\ UNCHANGED held
     \/ Enter(p, "bind") /\ Holds(p, "tunnel")
  /\ UNCHANGED <<mode, plug, flag, slot, managed, deaf, talk>>

Binds(p) ==
  /\ stage[p] = "bind" /\ Enter(p, "wire")
  /\ UNCHANGED <<mode, plug, held, flag, slot, managed, deaf, talk>>

\* The subscriptions are reconciled and the gateway runs; one whose V1 instance
\* has been disposed meanwhile is closed at once, by its start.
Runs(p) ==
  /\ stage[p] = "wire"
  /\ IF mode = "v1" /\ plug[p] = "leaving"
     THEN Enter(p, "settle") /\ late' = late \cup {p}
     ELSE Enter(p, "up") /\ late' = late
  /\ deaf' = FALSE
  /\ UNCHANGED <<mode, plug, held, latch, stray, leaks, slot, managed, talk>>

\* A stage fails: the tunnel is closed first, then the server.  The tunnel may refuse,
\* and nobody hears of it.
StartFails(p) ==
  /\ stage[p] \in {"host", "listen", "dial", "bind", "wire"}
  /\ IF "tunnel" \in held[p]
     THEN /\ Drops(p, "tunnel") /\ Enter(p, "undo")
          /\ \/ leaks' = leaks
             \/ leaks' = [leaks EXCEPT ![p] = @ \cup {"tunnel"}]
     ELSE /\ Enter(p, IF "server" \in held[p] THEN "undo" ELSE "failed")
          /\ UNCHANGED <<held, leaks>>
  /\ latch' = (latch /\ ~(mode = "v1" /\ stage'[p] = "failed"))
  /\ UNCHANGED <<mode, plug, stray, late, slot, managed, deaf, talk>>

\* Variant: only the tunnel of a failed start is closed.
UndoesNothing(p) ==
  /\ stage[p] = "undo" /\ held' = held /\ Enter(p, "failed")
  /\ latch' = (latch /\ mode # "v1")
  /\ UNCHANGED <<mode, plug, stray, late, leaks, slot, managed, deaf, talk>>

Undoes(p) ==
  /\ stage[p] = "undo" /\ Drops(p, "server") /\ Enter(p, "failed")
  /\ latch' = (latch /\ mode # "v1")
  /\ UNCHANGED <<mode, plug, stray, late, leaks, slot, managed, deaf, talk>>

(* close *)

\* A part of the close throws.  Where the start is what closes, its catch takes the error:
\* the flag is cleared and the instance is disposed of, whatever is open still.
Breaks(p) ==
  /\ UNCHANGED <<stray, late>>
  /\ IF p \in late
     THEN /\ Enter(p, "failed") /\ latch' = FALSE
          /\ held' = [held EXCEPT ![p] = {}] /\ leaks' = [leaks EXCEPT ![p] = held[p]]
     ELSE Enter(p, "broken") /\ UNCHANGED <<held, latch, leaks>>

\* The parts of the gateway are closed, or one of them throws.
Settles(p) ==
  /\ stage[p] = "settle"
  /\ \/ Enter(p, "server") /\ UNCHANGED <<held, flag>>
     \/ Breaks(p)
  /\ UNCHANGED <<mode, plug, slot, managed, deaf, talk>>

\* The local server ends when its last connection has.
ServerEnds(p) ==
  /\ stage[p] = "server" /\ ~talk
  /\ Drops(p, "server") /\ Enter(p, "tunnel")
  /\ UNCHANGED <<mode, plug, flag, slot, managed, deaf, talk>>

\* Without a tunnel there is nothing that could fail.
TunnelEnds(p) ==
  /\ stage[p] = "tunnel"
  /\ \/ Drops(p, "tunnel") /\ Enter(p, "closed") /\ UNCHANGED flag
     \/ "tunnel" \in held[p] /\ Breaks(p)
  /\ UNCHANGED <<mode, plug, slot, managed, deaf, talk>>

Talks(b) ==
  /\ talk # b /\ b => \E p \in Plugins : stage[p] = "up"
  /\ talk' = b
  /\ UNCHANGED <<mode, plug, stage, held, flag, slot, managed, deaf>>

TunnelFails ==
  /\ ~deaf /\ \E p \in Plugins : stage[p] = "up" /\ "tunnel" \in held[p]
  /\ deaf' = TRUE
  /\ UNCHANGED <<mode, plug, stage, held, flag, slot, managed, talk>>

-----------------------------------------------------------------------------
(* V1: the flag of the process *)

LoadsV1(p) ==
  /\ mode = "v1" /\ plug[p] = "out" /\ Becomes(p, "in")
  /\ latch' = TRUE
  /\ IF latch THEN stage' = stage ELSE Enter(p, "tick")
  /\ UNCHANGED <<mode, held, stray, late, leaks, slot, managed, deaf, talk>>

Ticks(p) ==
  /\ stage[p] = "tick"
  /\ Enter(p, IF plug[p] = "leaving" THEN "none" ELSE "host")
  /\ UNCHANGED <<mode, plug, held, flag, slot, managed, deaf, talk>>

\* dispose: waits for a start in flight, then closes its result.
DisposesV1(p) ==
  /\ mode = "v1" /\ plug[p] = "in" /\ Becomes(p, "leaving")
  /\ IF stage[p] = "up" THEN Enter(p, "settle") ELSE stage' = stage
  /\ UNCHANGED <<mode, held, flag, slot, managed, deaf, talk>>

\* ... and clears the flag, whoever set it.
LeavesV1(p) ==
  /\ mode = "v1" /\ plug[p] = "leaving" /\ stage[p] \in {"none", "failed", "closed"}
  /\ Becomes(p, "left") /\ latch' = FALSE
  /\ stray' = (stray \/ \E q \in Plugins \ {p} : stage[q] \notin {"none", "failed", "closed"})
  /\ UNCHANGED <<mode, stage, held, late, leaks, slot, managed, deaf, talk>>

LeavesBrokenV1(p) ==
  /\ mode = "v1" /\ plug[p] = "leaving" /\ stage[p] = "broken" /\ Becomes(p, "failed")
  /\ UNCHANGED <<mode, stage, held, flag, slot, managed, deaf, talk>>

-----------------------------------------------------------------------------
(* V2: registerGatewayOwner *)

Registers(p) ==
  /\ mode = "v2" /\ plug[p] = "out" /\ Becomes(p, "in")
  /\ UNCHANGED <<mode, stage, held, flag, slot, managed, deaf, talk>>

TimerSchedules(p) ==
  /\ mode = "v2" /\ plug[p] = "in" /\ ticket[p] = 0
  /\ issued' = issued + 1 /\ ticket' = [ticket EXCEPT ![p] = issued + 1]
  /\ UNCHANGED <<mode, plug, stage, held, flag, owner, chosen, turn2, served, broke, managed,
                 deaf, talk>>

Deregisters(p) ==
  /\ mode = "v2" /\ plug[p] = "in" /\ Becomes(p, "leaving")
  /\ issued' = issued + 1 /\ ticket' = [ticket EXCEPT ![p] = issued + 1]
  /\ UNCHANGED <<mode, stage, held, flag, owner, chosen, turn2, served, broke, managed, deaf,
                 talk>>

LeavesV2(p) ==
  /\ mode = "v2" /\ plug[p] = "leaving" /\ served >= ticket[p]
  /\ Becomes(p, IF ticket[p] \in broke THEN "failed" ELSE "left")
  /\ UNCHANGED <<mode, stage, held, flag, slot, managed, deaf, talk>>

Serve(ok) == /\ turn2' = "rest" /\ served' = served + 1
             /\ broke' = IF ok THEN broke ELSE broke \cup {served + 1}

\* The second half of reconcile: start the first candidate.
StartNext == /\ turn2' = "starting" /\ chosen' = Least(Candidates) /\ Enter(chosen', "host")
             /\ UNCHANGED <<served, broke>>

Reconciles ==
  /\ turn2 = "rest" /\ served < issued
  /\ IF owner # NoPlugin
     THEN /\ chosen' = chosen
          /\ IF owner \in Candidates THEN Serve(TRUE) /\ stage' = stage
             ELSE turn2' = "closing" /\ Enter(owner, "settle") /\ UNCHANGED <<served, broke>>
     ELSE IF Candidates = {} THEN Serve(TRUE) /\ UNCHANGED <<stage, chosen>> ELSE StartNext
  /\ UNCHANGED <<mode, plug, held, flag, owner, issued, ticket, managed, deaf, talk>>

\* Variant: the next one is started while the old one still closes.
ClosedV2AtOnce ==
  /\ turn2 = "closing"
  /\ owner' = NoPlugin
  /\ IF Candidates = {} THEN Serve(TRUE) /\ UNCHANGED <<stage, chosen>> ELSE StartNext
  /\ UNCHANGED <<mode, plug, held, flag, issued, ticket, managed, deaf, talk>>

\* The gateway of an owner that left is closed before another one starts.
ClosedV2 ==
  /\ turn2 = "closing" /\ stage[owner] = "closed"
  /\ owner' = NoPlugin
  /\ IF Candidates = {} THEN Serve(TRUE) /\ UNCHANGED <<stage, chosen>> ELSE StartNext
  /\ UNCHANGED <<mode, plug, held, flag, issued, ticket, managed, deaf, talk>>

\* Variant: a close that failed is tried again by the same reconcile.
BrokenV2Again ==
  /\ turn2 = "closing" /\ stage[owner] = "broken"
  /\ turn2' = "rest"
  /\ UNCHANGED <<mode, plug, stage, held, flag, owner, chosen, issued, served, broke, ticket,
                 managed, deaf, talk>>

BrokenV2 ==
  /\ turn2 = "closing" /\ stage[owner] = "broken"
  /\ Serve(FALSE)
  /\ UNCHANGED <<mode, plug, stage, held, flag, owner, chosen, issued, ticket, managed, deaf,
                 talk>>

StartedV2 ==
  /\ turn2 = "starting" /\ stage[chosen] \in {"up", "failed"}
  /\ Serve(stage[chosen] = "up")
  /\ owner' = IF stage[chosen] = "up" THEN chosen ELSE owner
  /\ chosen' = NoPlugin
  /\ UNCHANGED <<mode, plug, stage, held, flag, issued, ticket, managed, deaf, talk>>

-----------------------------------------------------------------------------
(* cli: runForeground *)

\* An OpenCode server answers, or one is started.
RunsCli(p) ==
  /\ mode = "cli" /\ p = Least(Plugins) /\ plug[p] = "out" /\ Becomes(p, "in")
  /\ \/ managed' = "none" /\ Enter(p, "host")
     \/ managed' = "starting" /\ Enter(p, "serve")
  /\ UNCHANGED <<mode, held, flag, slot, deaf, talk>>

ServerReady(p) ==
  /\ stage[p] = "serve" /\ managed = "starting"
  /\ managed' = "up" /\ Enter(p, "host")
  /\ UNCHANGED <<mode, plug, held, flag, slot, deaf, talk>>

ServerDies ==
  /\ managed \in {"starting", "up"} /\ managed' = "dead"
  /\ UNCHANGED <<mode, plug, stage, held, flag, slot, deaf, talk>>

\* It has died before it was ready, or the time is up and it is killed.
ServerFails(p) ==
  /\ stage[p] = "serve"
  /\ managed' = IF managed = "dead" THEN "dead" ELSE "stopped"
  /\ Enter(p, "failed") /\ Becomes(p, "left")
  /\ UNCHANGED <<mode, held, flag, slot, deaf, talk>>

\* A signal, or the end of the server or the tunnel, even one that came before
\* anybody listened for it.
Finishes(p) ==
  /\ mode = "cli" /\ stage[p] = "up"
  /\ Enter(p, "settle")
  /\ UNCHANGED <<mode, plug, held, flag, slot, managed, deaf, talk>>

\* server.stop: SIGTERM, and SIGKILL when it takes too long; then the process exits.
LeavesCli(p) ==
  /\ mode = "cli" /\ plug[p] = "in" /\ stage[p] \in {"failed", "closed", "broken"}
  /\ managed' = IF managed = "up" THEN "stopped" ELSE managed
  /\ Becomes(p, "left")
  /\ held' = [held EXCEPT ![p] = IF stage[p] = "broken" THEN {} ELSE @]
  /\ leaks' = [leaks EXCEPT ![p] = {}]
  /\ UNCHANGED <<mode, stage, latch, stray, late, slot, deaf, talk>>

\* Killed from outside: its server goes on.
KilledCli(p) ==
  /\ mode = "cli" /\ plug[p] = "in"
  /\ Becomes(p, "killed") /\ Enter(p, "none") /\ talk' = FALSE
  /\ held' = [held EXCEPT ![p] = {}] /\ leaks' = [leaks EXCEPT ![p] = {}]
  /\ UNCHANGED <<mode, latch, stray, late, slot, managed, deaf>>

-----------------------------------------------------------------------------
StartStep(p) == \/ HostReady(p) \/ Listens(p) \/ Dials(p) \/ Binds(p) \/ Runs(p)
                \/ StartFails(p) \/ Undoes(p)
CloseStep(p) == Settles(p) \/ ServerEnds(p) \/ TunnelEnds(p)

LifeNext ==
  \/ \E p \in Plugins :
       \/ StartStep(p) \/ CloseStep(p)
       \/ LoadsV1(p) \/ Ticks(p) \/ DisposesV1(p) \/ LeavesV1(p) \/ LeavesBrokenV1(p)
       \/ Registers(p) \/ TimerSchedules(p) \/ Deregisters(p) \/ LeavesV2(p)
       \/ RunsCli(p) \/ ServerReady(p) \/ ServerFails(p) \/ Finishes(p) \/ LeavesCli(p)
       \/ KilledCli(p)
  \/ Reconciles \/ ClosedV2 \/ BrokenV2 \/ StartedV2
  \/ ServerDies \/ TunnelFails \/ \E b \in BOOLEAN : Talks(b)

\* What is awaited returns, with or without an error, a timer fires, and every
\* call ends some time.
LifeFairness ==
  /\ \A p \in Plugins :
       /\ WF_lifeVars(StartStep(p)) /\ WF_lifeVars(CloseStep(p))
       /\ WF_lifeVars(Ticks(p)) /\ WF_lifeVars(LeavesV1(p) \/ LeavesBrokenV1(p))
       /\ WF_lifeVars(LeavesV2(p)) /\ WF_lifeVars(LeavesCli(p))
       /\ WF_lifeVars((deaf \/ managed = "dead") /\ Finishes(p))
       /\ WF_lifeVars(managed = "dead" /\ ServerFails(p))
  /\ WF_lifeVars(Reconciles \/ ClosedV2 \/ BrokenV2 \/ StartedV2)
  /\ WF_lifeVars(Talks(FALSE))

LifeSpec == LifeInit /\ [][LifeNext]_lifeVars /\ LifeFairness

-----------------------------------------------------------------------------
(* A disposal is under way, or a foreground gateway lost its tunnel or the  *)
(* server it started.                                                       *)
Ending ==
  \/ \E p \in Plugins : plug[p] = "leaving"
  \/ mode = "cli" /\ (deaf \/ managed = "dead")
Ended ==
  /\ \A p \in Plugins : plug[p] # "leaving"
  /\ mode = "cli" => \E p \in Plugins : plug[p] \in {"left", "killed"}

(* One process has one gateway: a second listener or tunnel is opened only  *)
(* when the first one's are closed, in every order of registrations, starts *)
(* that fail, closes that fail and disposals.  (In V1 only as long as no    *)
(* instance that had not started the gateway has been disposed; and what a  *)
(* start left open when the error of its clean-up was swallowed, `leaks`,   *)
(* is not counted: nothing in the process knows of it any more.)            *)
AtMostOneGateway == stray \/ \A p, q \in Plugins : held[p] # {} /\ held[q] # {} => p = q

(* An instance whose disposal has succeeded holds nothing, whatever it had  *)
(* started and whoever's reconcile closed it, and a foreground process that *)
(* ended has stopped the server it started.  What a swallowed error may     *)
(* leave behind: the tunnel of a start that failed, and listener and tunnel *)
(* only of a V1 instance that was disposed during its start.                *)
NothingIsLeft ==
  \A p \in Plugins : plug[p] = "left" =>
    /\ held[p] = {}
    /\ leaks[p] # {} => stage[p] = "failed" \/ mode = "v2"
    /\ "server" \in leaks[p] => p \in late
    /\ mode = "cli" => managed \notin {"starting", "up"} /\ leaks[p] = {}

(* What is to end does end, also behind other instances' starts and closes  *)
(* and when some of those have failed.                                      *)
CleanSuccession == Ending ~> Ended
=============================================================================

----------------------------- MODULE Companion -----------------------------
(***************************************************************************)
(* One activation of a Companion group: the messages of its conversation   *)
(* from the webhook to the agent (sessions.ts acceptCompanion,             *)
(* hydrateCompanion, submit; index.ts companionControl; state.ts           *)
(* claimTurn).  The first message to be prepared loads what the group said *)
(* before and keeps it as a turn of its own, the history; a message that    *)
(* does not address the agent is kept as context; the next prompt carries   *)
(* all of both that no prompt has carried.  The sponsor's /stop and /clear  *)
(* are executed by the webhook's handler, or by the queue's runner when     *)
(* they came before the history did.                                       *)
(*                                                                         *)
(* A step is the code between two awaits.  Messages are their sequence      *)
(* numbers, 0 being the message that triggered the activation.  What turns  *)
(* do after their prompt was accepted is the subject of Turns.             *)
(***************************************************************************)
EXTENDS Naturals, FiniteSets

CONSTANTS MaxLive,    \* messages after the trigger (bounds the model)
          PauseLimit, \* failures after which a turn is paused (5 in the code)
          Handlers,   \* webhook requests handled at a time (bounds the model)
          History,    \* the history's turn
          Runner,     \* the queue's runner
          MaxReigns    \* gateways, one after the other (bounds the model)

ASSUME CompanionAssumption ==
  /\ MaxLive \in Nat /\ PauseLimit \in Nat /\ MaxReigns \in Nat \ {0}
  /\ History \notin Nat /\ Runner \notin Handlers

Trigger == 0
Later == 1 .. MaxLive
Group == 0 .. MaxLive

VARIABLES
  says,    \* what each message is
  slot,    \* the turn the journal holds for it
  prelude, \* the history's turn: who seeded it and what it includes
  spent,   \* context that was consumed
  bond,    \* the chat's session, 0 for none
  bonds,   \* sessions made so far
  epoch,   \* resets in this process (the generations map)
  line,    \* turns the runner will come to
  runner,  \* where the runner is
  control, \* where each execution of a command is
  era,     \* the gateway: "up", "closing", "down"
  reigns,  \* gateways so far
  host,    \* messages whose prompt the host has
  reached, \* history: how often each message's text reached the host, at most 2
  briefed, \* history: the history's text reached the host
  cut,     \* history: texts of prompts that were stopped, paused or lost before they were
           \* marked as told, or that an earlier message overtook
  wiped    \* history: texts that were there when a /clear began, and who came while it ran

companionVars == <<says, slot, prelude, spent, bond, bonds, epoch, line, runner, control,
                   era, reigns, host, reached, briefed, cut, wiped>>
seat == <<bond, bonds, epoch>>
reign == <<era, reigns>>
tales  == <<reached, briefed, cut, wiped>>

Blank == [state |-> "none", ctx |-> {}, fixed |-> FALSE, framed |-> FALSE, tries |-> 0,
          seated |-> FALSE, fenced |-> FALSE, doubt |-> FALSE]
Resting == [at |-> "idle", on |-> Trigger, bond |-> 0, epoch |-> 0]
Calm == [at |-> "idle", on |-> Trigger, hit |-> Trigger, todo |-> {}, met |-> {}, shaky |-> FALSE]

CompanionTypeOK ==
  /\ says \in [Group -> {"ask", "quiet", "stop", "clear"}]
  /\ \A s \in Group : slot[s] \in
       [state : {"none", "hydrating", "queued", "submitting", "submitted", "context_only",
                 "delivered", "paused", "interrupted"},
        ctx : SUBSET (Group \cup {History}), fixed : BOOLEAN, framed : BOOLEAN,
        tries : 0 .. PauseLimit, seated : BOOLEAN, fenced : BOOLEAN, doubt : BOOLEAN]
  /\ prelude.by \in Group \cup {History} /\ prelude.of \subseteq Group
  /\ spent \subseteq Group \cup {History} /\ bond \in 0 .. bonds
  /\ line \subseteq Group /\ host \subseteq Group
  /\ runner.at \in {"idle", "asking", "loading", "policy", "control", "seating", "ready",
                    "prompting", "waiting"}
  /\ \A a \in Handlers \cup {Runner} : control[a].at \in {"idle", "fencing", "replying"}
  /\ era \in {"up", "closing", "down"} /\ reigns \in 0 .. MaxReigns
  /\ reached \in [Group -> 0 .. 2]

CompanionInit ==
  /\ says \in [Group -> {"ask", "quiet", "stop", "clear"}] /\ says[Trigger] \in {"ask", "quiet"}
  /\ slot = [s \in Group |-> Blank] /\ prelude = [by |-> History, of |-> {}] /\ spent = {}
  /\ bond = 0 /\ bonds = 0 /\ epoch = 0 /\ line = {} /\ runner = Resting
  /\ control = [a \in Handlers \cup {Runner} |-> Calm] /\ era = "up" /\ reigns = 1
  /\ host = {} /\ reached = [s \in Group |-> 0] /\ briefed = FALSE /\ cut = {}
  /\ wiped = [texts |-> {}, late |-> {}]

-----------------------------------------------------------------------------
\* The journal.
Pending(t) == t.state \notin {"none", "context_only", "delivered", "interrupted"}
Runs(t)    == t.state \in {"submitting", "submitted"} \/ (t.doubt /\ ~t.fenced)
Seeded     == prelude.by # History

\* A prompt the host may have while what it carried is not marked as told: the request
\* has not returned, or the process ended between the two writes that follow it.
Loose(t) == t.state = "submitting" \/ (t.state = "submitted" /\ ~(t.ctx \subseteq spent))
Addresses(s)   == says[s] # "quiet"
Command(s) == s # Trigger /\ says[s] \in {"stop", "clear"}

\* A turn is leased in the order of the conversation, the trigger first, and
\* not behind a paused turn whose execution is not known to have ended.
Leasable(s) ==
  \A c \in {c \in Group \ {s} : Pending(slot[c])} :
    IF slot[c].state = "paused" THEN slot[c].fenced
    ELSE c # Trigger /\ (s = Trigger \/ s < c)

Context == {c \in Group \ spent : slot[c].state = "context_only"}
           \cup (IF Seeded THEN {History} \ spent ELSE {})

\* A message the history includes is not another message when it comes; the
\* one that seeded the history goes on, as a receipt that refers to it.
Repeats(s) == s \in prelude.of /\ prelude.by # s

\* The messages whose text a prompt carries.
Carries(s) == (({s} \cup (slot[s].ctx \cap Group)) \ prelude.of)
              \cup (IF History \in slot[s].ctx THEN prelude.of ELSE {})

RunnerAt(at, s)   == era # "down" /\ runner.at = at /\ runner.on = s
Goes(at)    == runner' = [runner EXCEPT !.at = at]
State(s, x) == slot' = [slot EXCEPT ![s].state = x]

\* A failure before the answer: the runner comes back to the turn, and a turn
\* that failed too often is paused, unless it was a read that may succeed yet.
Retry(s) ==
  /\ era = "up" /\ Pending(slot[s]) /\ runner' = Resting
  /\ \/ /\ slot[s].tries < PauseLimit
        /\ slot' = [slot EXCEPT ![s].tries = @ + 1]
        /\ line' = line \cup {s} /\ UNCHANGED cut
     \/ /\ slot[s].tries = PauseLimit
        /\ line' = line \cup {s} /\ UNCHANGED <<slot, cut>>
     \/ /\ slot[s].tries = PauseLimit
        /\ slot' = [slot EXCEPT ![s].state = "paused",
             ![s].fenced = @ \/ (slot[s].state \in {"hydrating", "queued"} /\ ~slot[s].doubt)]
        /\ cut' = (IF Loose(slot[s]) THEN cut \cup Carries(s) ELSE cut)
        /\ UNCHANGED line

-----------------------------------------------------------------------------
\* A command of the sponsor, executed by `a`.  The turns it stops are taken
\* from a snapshot; one that may be running is paused and the host asked to
\* abort it, the others are stopped at once (the journal's order is not
\* modelled: any of them may come first).
StopsAll(e, set) == [s \in Group |-> IF s \in set /\ Pending(e[s])
                                  THEN [e[s] EXCEPT !.state = "interrupted", !.fenced = TRUE]
                                  ELSE e[s]]

\* Variant: a /clear leaves the kept context to the next message.
ResetEndsKeeping(met) ==
  /\ bond' = 0 /\ UNCHANGED spent
  /\ wiped' = [texts |-> wiped.texts \cup met,
               late |-> (wiped.late \cup {s \in Group : slot[s].state # "none"}) \ met]

ResetEnds(met) ==
  /\ bond' = 0
  /\ spent' = spent \cup Context
  /\ wiped' = [texts |-> wiped.texts \cup met,
               late |-> (wiped.late \cup {s \in Group : slot[s].state # "none"}) \ met]

CommandEnds(a, s, shaky, met) ==
  /\ IF says[s] = "clear" /\ ~shaky THEN ResetEnds(met) ELSE UNCHANGED <<bond, spent, wiped>>
  /\ IF says[s] = "clear" /\ shaky
     THEN /\ control' = [control EXCEPT ![a] = Calm]
          /\ runner' = IF a = Runner THEN Resting ELSE runner
     ELSE /\ control' = [control EXCEPT ![a] = [Calm EXCEPT !.at = "replying", !.on = s]]
          /\ runner' = IF a = Runner THEN [runner EXCEPT !.at = "control"] ELSE runner

Sweep(a, s, todo, e, shaky, met) ==
  LET running == {x \in todo : Runs(e[x])} IN
  \/ /\ running = {}
     /\ slot' = StopsAll(e, todo)
     /\ CommandEnds(a, s, shaky, met) /\ UNCHANGED cut
  \/ \E x \in running, first \in SUBSET (todo \ running) :
       /\ slot' = [StopsAll(e, first) EXCEPT ![x].state = "paused", ![x].doubt = TRUE]
       /\ control' = [control EXCEPT ![a] =
            [at |-> "fencing", on |-> s, hit |-> x, todo |-> todo \ (first \cup {x}),
             met |-> met, shaky |-> shaky]]
       /\ cut' = IF Loose(e[x]) THEN cut \cup Carries(x) ELSE cut
       /\ runner' = IF a = Runner THEN [runner EXCEPT !.at = "control"] ELSE runner
       /\ UNCHANGED <<bond, spent, wiped>>

CommandBegins(a, s, e) ==
  /\ epoch' = IF says[s] = "clear" THEN epoch + 1 ELSE epoch
  /\ Sweep(a, s, {x \in Group : Pending(e[x])}, e, FALSE,
           {x \in Group : e[x].state # "none"})

\* The host confirms that nothing runs, or it does not.
Fences(a) ==
  LET k == control[a] IN
  /\ era # "down" /\ k.at = "fencing"
  /\ \/ Sweep(a, k.on, k.todo, StopsAll([slot EXCEPT ![k.hit].fenced = TRUE], {k.hit}),
              k.shaky, k.met)
     \/ Sweep(a, k.on, k.todo, slot, TRUE, k.met)
  /\ UNCHANGED <<says, prelude, bonds, epoch, line, reign, host, reached, briefed>>

\* The reply to a command goes out or fails.
Replies(a) ==
  /\ era # "down" /\ control[a].at = "replying"
  /\ State(control[a].on, "delivered") \/ UNCHANGED slot
  /\ control' = [control EXCEPT ![a] = Calm]
  /\ runner' = IF a = Runner THEN Resting ELSE runner
  /\ UNCHANGED <<says, prelude, spent, seat, line, reign, host, tales>>

-----------------------------------------------------------------------------
\* The webhook.  A repeat of a message whose turn was prepared is acknowledged
\* and changes nothing.
Admits(h, s) ==
  LET e == [slot EXCEPT ![s].state = "hydrating"] IN
  /\ slot[s].state \in {"none", "hydrating"}
  /\ \/ /\ Repeats(s) /\ State(s, "delivered")
        /\ UNCHANGED <<spent, bond, epoch, line, runner, control, cut, wiped>>
     \/ /\ ~Repeats(s) /\ Seeded /\ Command(s)
        /\ CommandBegins(h, s, e) /\ UNCHANGED line
     \/ /\ ~Repeats(s) /\ ~(Seeded /\ Command(s))
        /\ slot' = e
        /\ line' = IF runner.at # "idle" /\ runner.on = s THEN line ELSE line \cup {s}
        /\ UNCHANGED <<spent, bond, epoch, runner, control, cut, wiped>>
  /\ UNCHANGED <<says, prelude, bonds, reign, host, reached, briefed>>

Accept(h, s) == era = "up" /\ control[h].at = "idle" /\ Admits(h, s)

-----------------------------------------------------------------------------
\* The runner.  A turn whose lease is refused is tried again later; a turn
\* that ended while it waited is passed over.
Leases(s) ==
  /\ era = "up" /\ runner.at = "idle" /\ s \in line /\ Pending(slot[s]) /\ Leasable(s)
  /\ slot[s].state # "paused"
  /\ line' = line \ {s} /\ runner' = [Resting EXCEPT !.at = "asking", !.on = s]
  /\ UNCHANGED <<says, slot, prelude, spent, seat, control, reign, host, tales>>

\* Before a turn is run, and again for a paused one: a turn that may have been
\* submitted is completed from the host's answer, or aborted there.
Rescue(s) ==
  /\ era = "up" /\ runner.at = "idle" /\ line # {}
  /\ slot[s].state = "paused" /\ ~slot[s].fenced /\ slot[s].seated
  /\ \/ slot' = [slot EXCEPT ![s].fenced = TRUE]
     \/ /\ slot[s].doubt /\ s \in host
        /\ slot' = [slot EXCEPT ![s].fenced = TRUE, ![s].state = "delivered"]
  /\ UNCHANGED <<says, prelude, spent, seat, line, runner, control, reign, host, tales>>

\* What every await of the runner may find: its turn was stopped, the gateway
\* closes, or an earlier message came and the lease is refused.  The runner
\* leaves the turn as it is.
Leaves(s) ==
  /\ \/ \E at \in {"asking", "loading", "policy", "seating", "ready", "waiting"} :
          RunnerAt(at, s) /\ (era = "closing" \/ ~Pending(slot[s]))
     \/ \E at \in {"loading", "ready", "waiting"} : RunnerAt(at, s) /\ ~Leasable(s)
     \/ \E at \in {"asking", "waiting"} : RunnerAt(at, s) /\ slot[s].state = "paused"
  /\ runner' = Resting
  /\ UNCHANGED <<says, slot, prelude, spent, seat, line, control, reign, host, tales>>

\* An await fails.
Fails(s) ==
  /\ \E at \in {"asking", "loading", "policy", "seating", "ready", "waiting"} : RunnerAt(at, s)
  /\ slot[s].state \in {"hydrating", "queued", "submitted"}
  /\ Retry(s)
  /\ UNCHANGED <<says, prelude, spent, seat, control, reign, host, reached, briefed, wiped>>

\* What was submitted before a restart is looked for at the host.  A prompt it does not
\* have, or may have while it could not be asked, is given up, and what it carried is not
\* marked as told.  A turn that a command stopped meanwhile may still count as told.
Resumes(s) ==
  /\ RunnerAt("asking", s)
  /\ \/ /\ slot[s].state = "submitted" \/ (slot[s].state = "submitting" /\ s \in host)
        /\ State(s, "submitted") /\ spent' = spent \cup slot[s].ctx /\ Goes("waiting")
        /\ UNCHANGED cut
     \/ /\ slot[s].state = "submitting" /\ era = "up"
        /\ State(s, "paused") /\ runner' = Resting
        /\ cut' = (IF s \in host THEN cut \cup Carries(s) ELSE cut) /\ UNCHANGED spent
     \/ /\ slot[s].state \in {"paused", "interrupted"} /\ s \in host
        /\ spent' = spent \cup slot[s].ctx /\ Goes("waiting") /\ UNCHANGED <<slot, cut>>
  /\ UNCHANGED <<says, prelude, seat, line, control, reign, host, reached, briefed, wiped>>

\* The context a prompt carries is chosen once, and not again when an earlier
\* message overtakes the turn.  Then its session is looked up.
Includes(s, e) ==
  /\ cut' = cut \cup UNION {Carries(x) :
                     x \in {x \in Group : x > s /\ slot[x].fixed /\ Pending(slot[x])}}
  /\ slot' = [e EXCEPT ![s].ctx = IF e[s].fixed THEN @ ELSE Context, ![s].fixed = TRUE]
  /\ runner' = [runner EXCEPT !.at = "seating", !.bond = bond, !.epoch = epoch]

Picks(s) ==
  /\ RunnerAt("asking", s) /\ era = "up" /\ slot[s].state \in {"hydrating", "queued"}
  /\ \/ slot[s].framed /\ Includes(s, slot)
     \/ ~slot[s].framed /\ ~Seeded /\ Goes("loading") /\ UNCHANGED <<slot, cut>>
     \/ /\ ~slot[s].framed /\ Repeats(s)
        /\ State(s, "delivered") /\ runner' = Resting /\ UNCHANGED cut
     \/ ~slot[s].framed /\ Seeded /\ ~Repeats(s) /\ Goes("policy") /\ UNCHANGED <<slot, cut>>
  /\ UNCHANGED <<says, prelude, spent, seat, line, control, reign, host, reached, briefed, wiped>>

\* The conversation up to now, the trigger and any messages after it, comes
\* from the service and is kept with the name of the message that asked.
Loads(s) ==
  /\ RunnerAt("loading", s) /\ era = "up" /\ Pending(slot[s]) /\ Leasable(s)
  /\ \E later \in SUBSET Later : prelude' = [by |-> s, of |-> {Trigger} \cup later]
  /\ Goes("policy")
  /\ UNCHANGED <<says, slot, spent, seat, line, control, reign, host, tales>>

\* The turn is framed under the sponsor's policy: kept as context, executed
\* as a command, or queued for the agent.
Frames(s) ==
  LET e == [slot EXCEPT ![s].framed = TRUE,
                         ![s].state = IF Addresses(s) THEN "queued" ELSE "context_only"] IN
  /\ RunnerAt("policy", s) /\ slot[s].state \in {"hydrating", "queued"}
  /\ \/ /\ ~Addresses(s) /\ slot' = e /\ runner' = Resting
        /\ UNCHANGED <<spent, bond, epoch, control, cut, wiped>>
     \/ /\ Addresses(s) /\ Command(s) /\ CommandBegins(Runner, s, e)
     \/ /\ Addresses(s) /\ ~Command(s)
        /\ IF era = "up" THEN Includes(s, e) ELSE slot' = e /\ runner' = Resting /\ UNCHANGED cut
        /\ UNCHANGED <<spent, bond, epoch, control, wiped>>
  /\ UNCHANGED <<says, prelude, bonds, line, reign, host, reached, briefed>>

\* A session is reused, replaced when the host has lost it, or made.  A reset
\* since the look sends the turn back.
Seats(s) ==
  /\ RunnerAt("seating", s) /\ era = "up" /\ Pending(slot[s])
  /\ \/ /\ runner.epoch # epoch
        /\ Retry(s) /\ UNCHANGED <<bond, bonds>>
     \/ /\ runner.epoch = epoch /\ runner.bond # 0 /\ runner.bond = bond
        /\ Goes("ready") /\ UNCHANGED <<slot, line, cut, bond, bonds>>
     \/ /\ runner.epoch = epoch /\ runner.bond # 0 /\ runner.bond # bond
        /\ runner' = [runner EXCEPT !.bond = bond] /\ UNCHANGED <<slot, line, cut, bond, bonds>>
     \/ /\ runner.epoch = epoch /\ runner.bond # 0 /\ runner.bond = bond
        /\ bond' = 0 /\ runner' = [runner EXCEPT !.bond = 0]
        /\ UNCHANGED <<slot, line, cut, bonds>>
     \/ /\ runner.epoch = epoch /\ runner.bond = 0
        /\ bonds' = bonds + 1 /\ bond' = bonds + 1
        /\ runner' = [runner EXCEPT !.at = "ready", !.bond = bonds + 1]
        /\ UNCHANGED <<slot, line, cut>>
  /\ UNCHANGED <<says, prelude, spent, epoch, control, reign, host, reached, briefed, wiped>>

Submits(s) ==
  /\ RunnerAt("ready", s) /\ era = "up" /\ slot[s].state = "queued" /\ Leasable(s)
  /\ slot' = [slot EXCEPT ![s].state = "submitting", ![s].seated = TRUE]
  /\ Goes("prompting")
  /\ UNCHANGED <<says, prelude, spent, seat, line, control, reign, host, tales>>

\* The host takes the prompt, whatever becomes of the request.
Takes(s) ==
  /\ RunnerAt("prompting", s) /\ s \notin host
  /\ host' = host \cup {s}
  /\ reached' = [x \in Group |-> IF x \in Carries(s) /\ reached[x] < 2
                                THEN reached[x] + 1 ELSE reached[x]]
  /\ briefed' = (briefed \/ History \in slot[s].ctx)
  /\ UNCHANGED <<says, slot, prelude, spent, seat, line, runner, control, reign, cut, wiped>>

\* Variant: what the prompt carried is not marked as told.
SubmittedUnspent(s) ==
  /\ RunnerAt("prompting", s) /\ s \in host
  /\ IF slot[s].state = "submitting"
     THEN State(s, "submitted") /\ Goes("waiting")
     ELSE runner' = Resting /\ UNCHANGED slot
  /\ UNCHANGED <<says, prelude, spent, seat, line, control, reign, host, tales>>

\* The request returned, or it failed and the host was found to have the prompt.
Submitted(s) ==
  /\ RunnerAt("prompting", s) /\ s \in host
  /\ IF slot[s].state = "submitting"
     THEN State(s, "submitted") /\ spent' = spent \cup slot[s].ctx /\ Goes("waiting")
     ELSE runner' = Resting /\ UNCHANGED <<slot, spent>>
  /\ UNCHANGED <<says, prelude, seat, line, control, reign, host, tales>>

\* It failed, and the host does not have the prompt or could not be asked.
Doubts(s) ==
  /\ RunnerAt("prompting", s)
  /\ IF slot[s].state = "submitting"
     THEN \E confirmed \in BOOLEAN :
            slot' = [slot EXCEPT ![s].state = "paused", ![s].doubt = TRUE,
                                 ![s].fenced = confirmed]
     ELSE UNCHANGED slot
  /\ cut' = (IF s \in host THEN cut \cup Carries(s) ELSE cut) /\ runner' = Resting
  /\ UNCHANGED <<says, prelude, spent, seat, line, control, reign, host, reached, briefed, wiped>>

\* The agent's answer is delivered.
Answers(s) ==
  /\ RunnerAt("waiting", s) /\ era = "up" /\ slot[s].state = "submitted" /\ Leasable(s)
  /\ State(s, "delivered") /\ runner' = Resting
  /\ UNCHANGED <<says, prelude, spent, seat, line, control, reign, host, tales>>

-----------------------------------------------------------------------------
Closes == /\ era = "up" /\ era' = "closing"
         /\ UNCHANGED <<says, slot, prelude, spent, seat, line, runner, control, reigns, host,
                        tales>>

\* The process ends: after a close, by a crash, or by one between the two
\* writes that follow an accepted prompt.
Down ==
  /\ era # "down" /\ era' = "down" /\ line' = {} /\ runner' = Resting /\ epoch' = 0
  /\ control' = [a \in Handlers \cup {Runner} |-> Calm]
  /\ \/ UNCHANGED slot
     \/ /\ runner.at = "prompting" /\ runner.on \in host /\ slot[runner.on].state = "submitting"
        /\ State(runner.on, "submitted")
  /\ UNCHANGED <<says, prelude, spent, bond, bonds, reigns, host, tales>>

Reopens ==
  /\ era = "down" /\ reigns < MaxReigns /\ era' = "up" /\ reigns' = reigns + 1
  /\ line' = {s \in Group : Pending(slot[s])}
  /\ UNCHANGED <<says, slot, prelude, spent, seat, runner, control, host, tales>>

CompanionNext ==
  \/ \E h \in Handlers, s \in Group : Accept(h, s)
  \/ \E a \in Handlers \cup {Runner} : Fences(a) \/ Replies(a)
  \/ \E s \in Group :
       \/ Leases(s) \/ Rescue(s) \/ Leaves(s) \/ Fails(s) \/ Resumes(s) \/ Picks(s) \/ Loads(s)
       \/ Frames(s) \/ Seats(s) \/ Submits(s) \/ Takes(s) \/ Submitted(s) \/ Doubts(s)
       \/ Answers(s)
  \/ Closes \/ Down \/ Reopens

CompanionSpec == CompanionInit /\ [][CompanionNext]_companionVars

-----------------------------------------------------------------------------
\* No message of the group is told to the agent twice, whichever of the history,
\* the kept context and its own prompt carried it, however often the webhook
\* sends it and wherever the gateway dies; unless a prompt that carried it was
\* given up (stopped, paused because the host could not be asked, or lost) before
\* what it carried was marked as told, or an earlier message overtook it.  And
\* nothing is told before the history, unless a /clear discarded it.
ToldOnce ==
  /\ \A s \in Group \ cut : reached[s] <= 1
  /\ (\E s \in Group : reached[s] > 0) => (briefed \/ wiped.texts # {})

\* What was there when a /clear began reaches the agent after it ended only with
\* a message that came while it ran, or with a prompt that was already on its way.
CutIsClean ==
  [][\A s \in wiped.texts \ cut :
       reached'[s] > reached[s] => runner.on \in wiped.late]_companionVars
=============================================================================

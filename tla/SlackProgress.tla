--------------------------- MODULE SlackProgress ---------------------------
(***************************************************************************)
(* The progress card of one Slack source as slack-progress.ts keeps it: a  *)
(* journal entry with the wanted and the applied revision, one pending     *)
(* effect at a time, lookups of unknown outcomes, retries of the last      *)
(* update, recovery at start and the update a closing gateway leaves.      *)
(*                                                                         *)
(* A step is the code between two awaits.  A process has the chain of      *)
(* intents (wants), one timer, and the chain of runs of apply.  A request  *)
(* that fails may have arrived all the same; "calm" is a network that no   *)
(* longer fails.                                                           *)
(***************************************************************************)
EXTENDS Naturals, Sequences, FiniteSets

CONSTANTS Gateways,    \* gateway processes
          MaxNotes,    \* notifications, in total (bounds the model)
          LookupLimit, \* 5 in the code
          PollLimit,   \* 5 in the code
          RetryLimit   \* 2 in the code

ASSUME CardAssumption == /\ MaxNotes \in Nat
                         /\ LookupLimit \in Nat /\ PollLimit \in Nat /\ RetryLimit \in Nat

VARIABLES
  card,    \* the journal entry
  notes,   \* notifications so far
  life,    \* each process: "new", "up", "closing", "down"
  wants,   \* its intents, in order
  timer,   \* its timer is set
  runs,    \* its queued runs
  place,   \* where the present run stands
  snap,    \* the entry that run has read
  mine,    \* it has admitted or recovered the entry
  log,     \* effects dispatched, with what became of them
  calm,    \* requests no longer fail
  ending   \* the final state was saved while calm

cardVars == <<card, notes, life, wants, timer, runs, place, snap, mine, log, calm, ending>>

Nothing == [kind |-> "none", rev |-> 0, terminal |-> FALSE, lookups |-> 0, polls |-> 0, unknown |-> FALSE]
Absent == [there |-> FALSE, mode |-> "none", rev |-> 0, applied |-> 0, terminal |-> FALSE, done |-> FALSE,
           pending |-> Nothing, stream |-> FALSE, posted |-> FALSE, cooling |-> FALSE, retries |-> 0]

Kind == {"start", "send", "append", "stop", "edit"}
\* Gateways close with one more intent each.
MaxRev == 1 + MaxNotes + RetryLimit + Cardinality(Gateways)
Effect == [kind : Kind \cup {"none"}, rev : 0 .. MaxRev, terminal : BOOLEAN,
           lookups : 0 .. LookupLimit, polls : 0 .. PollLimit, unknown : BOOLEAN]
Entry == [there : BOOLEAN, mode : {"none", "native", "fallback"}, rev : 0 .. MaxRev, applied : 0 .. MaxRev,
          terminal : BOOLEAN, done : BOOLEAN, pending : Effect, stream : BOOLEAN, posted : BOOLEAN,
          cooling : BOOLEAN, retries : 0 .. RetryLimit]
Want == [terminal : BOOLEAN, admit : BOOLEAN, differs : BOOLEAN]

CardTypeOK ==
  /\ card \in Entry /\ notes \in 0 .. MaxNotes
  /\ life \in [Gateways -> {"new", "up", "closing", "down"}]
  /\ \A p \in Gateways : \A i \in DOMAIN wants[p] : wants[p][i] \in Want
  /\ timer \in [Gateways -> BOOLEAN] /\ runs \in [Gateways -> Nat]
  /\ place \in [Gateways -> {"idle", "allowed", "looking", "mode", "pick", "dispatch", "asked"}]
  /\ snap \in [Gateways -> Entry] /\ mine \in [Gateways -> BOOLEAN]
  /\ \A i \in DOMAIN log : /\ log[i].kind \in Kind
                           /\ log[i].fate \in {"flying", "lost", "landed", "failed"}
  /\ calm \in BOOLEAN /\ ending \in BOOLEAN

CardInit ==
  /\ card = Absent /\ notes = 0
  /\ life = [p \in Gateways |-> "new"] /\ wants = [p \in Gateways |-> <<>>]
  /\ timer = [p \in Gateways |-> FALSE] /\ runs = [p \in Gateways |-> 0]
  /\ place = [p \in Gateways |-> "idle"] /\ snap = [p \in Gateways |-> Absent]
  /\ mine = [p \in Gateways |-> FALSE]
  /\ log = <<>> /\ calm = FALSE /\ ending = FALSE

-----------------------------------------------------------------------------
Live(p) == life[p] \in {"up", "closing"}
HasCard(e) == e.stream \/ e.posted
Behind(e) == e.applied < e.rev
SameEffect(a, b) == a.kind = b.kind /\ a.rev = b.rev

\* A request, a permission or an update of the journal (its lock is held by
\* another process) may fail, and the run ends there.
MayFail == ~calm

Goto(p, s) == place' = [place EXCEPT ![p] = s]
SetTimer(p) == timer' = [timer EXCEPT ![p] = TRUE]

-----------------------------------------------------------------------------
(* What is wanted *)

\* notify and observe: ignored after the end, and before the admission.
Notify(p, w) ==
  /\ life[p] = "up" /\ notes < MaxNotes
  /\ ~card.done /\ ~card.terminal
  /\ w.admit \/ card.there \/ wants[p] # <<>>
  /\ ~(w.admit /\ w.terminal)
  /\ notes' = notes + 1
  /\ wants' = [wants EXCEPT ![p] = Append(@, w)]
  /\ UNCHANGED <<card, life, timer, runs, place, snap, mine, log, calm, ending>>

\* The entry after an intent: a new one, a new revision, or no change.
Wanted(e, w) ==
  LET was == IF e.there THEN e ELSE [Absent EXCEPT !.there = TRUE, !.rev = 1]
      new == (e.there /\ w.differs) \/ w.terminal
  IN IF (~e.there /\ ~w.admit) \/ e.terminal \/ e.done THEN e
     ELSE [was EXCEPT !.rev = IF new THEN @ + 1 ELSE @, !.terminal = w.terminal]

\* The next intent is allowed and saved.
Save(p) ==
  /\ Live(p) /\ wants[p] # <<>>
  /\ LET w == Head(wants[p]) IN
       /\ card' = Wanted(card, w)
       /\ mine' = [mine EXCEPT ![p] = @ \/ (card'.there /\ ~card.terminal /\ ~card.done)]
       /\ ending' = (ending \/ (calm /\ card'.terminal /\ ~card.terminal))
  /\ wants' = [wants EXCEPT ![p] = Tail(@)]
  /\ SetTimer(p)
  /\ UNCHANGED <<notes, life, runs, place, snap, log, calm>>

\* It is not allowed, or the journal cannot be written.
Unsaved(p) ==
  /\ Live(p) /\ wants[p] # <<>> /\ MayFail
  /\ wants' = [wants EXCEPT ![p] = Tail(@)]
  /\ UNCHANGED <<card, notes, life, timer, runs, place, snap, mine, log, calm, ending>>

-----------------------------------------------------------------------------
(* One run of apply *)

TimerFires(p) ==
  /\ Live(p) /\ timer[p]
  /\ timer' = [timer EXCEPT ![p] = FALSE]
  /\ runs' = [runs EXCEPT ![p] = @ + 1]
  /\ UNCHANGED <<card, notes, life, wants, place, snap, mine, log, calm, ending>>

CoolsDown ==
  /\ card.cooling
  /\ card' = [card EXCEPT !.cooling = FALSE]
  /\ UNCHANGED <<notes, life, wants, timer, runs, place, snap, mine, log, calm, ending>>

HasWork(e) == e.there /\ ~e.done /\ (e.pending # Nothing \/ Behind(e))
HopeLost(e) == e.pending.unknown \/ e.pending.lookups >= LookupLimit

Begin(p) ==
  /\ Live(p) /\ runs[p] > 0 /\ place[p] = "idle"
  /\ runs' = [runs EXCEPT ![p] = @ - 1]
  /\ LET goes == HasWork(card) /\ ~HopeLost(card) IN
       /\ timer' = [timer EXCEPT ![p] = @ \/ (goes /\ card.cooling)]
       /\ snap' = [snap EXCEPT ![p] = IF goes /\ ~card.cooling THEN card ELSE Absent]
       /\ Goto(p, IF goes /\ ~card.cooling THEN "allowed" ELSE "idle")
  /\ UNCHANGED <<card, notes, life, wants, mine, log, calm, ending>>

\* Whatever the run waits for fails, is refused, or cannot be looked up.
GivesUp(p) ==
  /\ place[p] # "idle" /\ MayFail
  /\ Goto(p, "idle") /\ snap' = [snap EXCEPT ![p] = Absent]
  /\ UNCHANGED <<card, notes, life, wants, timer, runs, mine, log, calm, ending>>

\* A pending effect is looked up, and the lookup counted before it is made.
Proceed(p) ==
  /\ place[p] = "allowed"
  /\ IF snap[p].pending = Nothing
     THEN card' = card /\ Goto(p, "mode")
     ELSE /\ card' = IF SameEffect(card.pending, snap[p].pending)
                     THEN [card EXCEPT !.pending.lookups = IF @ < LookupLimit THEN @ + 1 ELSE @]
                     ELSE card
          /\ Goto(p, "looking")
  /\ UNCHANGED <<notes, life, wants, timer, runs, snap, mine, log, calm, ending>>

-----------------------------------------------------------------------------
(* Results *)

Index(x) == CHOOSE i \in DOMAIN log : SameEffect(log[i], x)

\* What the platform may say of an effect.
Says(x, status) ==
  LET fate == log[Index(x)].fate IN
    CASE status = "succeeded" -> fate = "landed"
      [] status \in {"failed", "unsupported", "transient"} ->
           fate = "failed" /\ (status = "unsupported" => x.kind = "start")
      [] OTHER -> ~calm
Status == {"succeeded", "failed", "unsupported", "transient", "sending", "unknown", "other"}

Succeeded(e, x) ==
  [e EXCEPT !.stream = @ \/ x.kind = "start", !.posted = @ \/ x.kind = "send",
            !.applied = x.rev, !.pending = Nothing, !.done = x.terminal]

\* A final update is tried again after a transient failure; any other one is not.
Failed(e, x, status) ==
  LET again == x.terminal /\ status = "transient" /\ e.retries < RetryLimit
  IN IF status = "unsupported" THEN [e EXCEPT !.mode = "fallback", !.pending = Nothing]
     ELSE [e EXCEPT !.pending = Nothing, !.applied = x.rev, !.cooling = TRUE,
                    !.retries = IF again THEN @ + 1 ELSE @,
                    !.rev = IF again THEN @ + 1 ELSE @,
                    !.done = x.terminal /\ ~again]

\* Variant: an outcome that is not known is given up, and the effect may be made again.
UncertainForgets(e, status) == [e EXCEPT !.pending = Nothing]

Uncertain(e, status) ==
  [e EXCEPT !.pending.unknown = @ \/ status = "unknown",
            !.pending.polls = IF status = "sending" /\ @ < PollLimit THEN @ + 1 ELSE @]

\* The journal after a result of effect x; a result of another effect is ignored.
Settled(e, x, status) ==
  IF ~SameEffect(e.pending, x) \/ status = "other" THEN e
  ELSE CASE status = "succeeded" -> Succeeded(e, x)
         [] status \in {"failed", "unsupported", "transient"} -> Failed(e, x, status)
         [] OTHER -> Uncertain(e, status)

PollsAgain(e, x, status) == SameEffect(e.pending, x) /\ status = "sending" /\ e.pending.polls < PollLimit

\* The lookup is answered; the run goes on when nothing is pending any more.
LookedUp(p, status) ==
  /\ place[p] = "looking"
  /\ LET x == snap[p].pending IN
       /\ Says(x, status)
       /\ card' = Settled(card, x, status)
       /\ timer' = [timer EXCEPT ![p] = @ \/ PollsAgain(card, x, status)]
       /\ LET goes == card'.pending = Nothing /\ ~card'.done IN
            /\ Goto(p, IF goes THEN "mode" ELSE "idle")
            /\ snap' = [snap EXCEPT ![p] = IF goes THEN card' ELSE Absent]
  /\ UNCHANGED <<notes, life, wants, runs, mine, log, calm, ending>>

\* From the entry it has read, the run decides whether to go on.
ChooseMode(p) ==
  /\ place[p] = "mode"
  /\ LET stops == ~Behind(snap[p]) \/ (life[p] = "closing" /\ ~HasCard(snap[p])) IN
       /\ Goto(p, IF stops THEN "idle" ELSE "pick")
       /\ snap' = [snap EXCEPT ![p] = IF stops THEN Absent ELSE @]
  /\ UNCHANGED <<card, notes, life, wants, timer, runs, mine, log, calm, ending>>

\* The surface is chosen once; a source that ended without a card gets none.
Pick(p) ==
  /\ place[p] = "pick"
  /\ \E m \in IF snap[p].mode = "none" /\ card.mode = "none" THEN {"native", "fallback"} ELSE {card.mode} :
       LET e == [card EXCEPT !.mode = m]
           stops == e.pending # Nothing \/ e.done \/ ~Behind(e)
           over == ~stops /\ e.terminal /\ ~HasCard(e)
       IN /\ card' = IF over THEN [e EXCEPT !.done = TRUE] ELSE e
          /\ Goto(p, IF stops \/ over THEN "idle" ELSE "dispatch")
  /\ snap' = [snap EXCEPT ![p] = Absent]
  /\ UNCHANGED <<notes, life, wants, timer, runs, mine, log, calm, ending>>

NextKind(e) ==
  IF e.mode = "native"
  THEN IF ~e.stream THEN "start" ELSE IF e.terminal THEN "stop" ELSE "append"
  ELSE IF e.posted THEN "edit" ELSE "send"

\* The effect is journalled and the request made.
Dispatch(p) ==
  /\ place[p] = "dispatch"
  /\ IF card.pending # Nothing \/ card.done \/ ~Behind(card)
     THEN Goto(p, "idle") /\ UNCHANGED <<card, snap, log>>
     ELSE LET x == [Nothing EXCEPT !.kind = NextKind(card), !.rev = card.rev, !.terminal = card.terminal]
          IN /\ card' = [card EXCEPT !.pending = x]
             /\ snap' = [snap EXCEPT ![p] = card']
             /\ log' = Append(log, [kind |-> x.kind, rev |-> x.rev, terminal |-> x.terminal, fate |-> "flying"])
             /\ Goto(p, "asked")
  /\ UNCHANGED <<notes, life, wants, timer, runs, mine, calm, ending>>

\* Variant: a newer revision is not scheduled after the answer.
AnswerOnly(p, status) ==
  /\ place[p] = "asked"
  /\ LET x == snap[p].pending IN
       /\ Says(x, status)
       /\ card' = Settled(card, x, status)
       /\ timer' = [timer EXCEPT ![p] = @ \/ PollsAgain(card, x, status)]
  /\ Goto(p, "idle") /\ snap' = [snap EXCEPT ![p] = Absent]
  /\ UNCHANGED <<notes, life, wants, runs, mine, log, calm, ending>>

\* The request is answered; a newer revision is scheduled.
Answer(p, status) ==
  /\ place[p] = "asked"
  /\ LET x == snap[p].pending IN
       /\ Says(x, status)
       /\ card' = Settled(card, x, status)
       /\ timer' = [timer EXCEPT ![p] = @ \/ PollsAgain(card, x, status)
                                          \/ (card'.pending = Nothing /\ ~card'.done /\ Behind(card'))]
  /\ Goto(p, "idle") /\ snap' = [snap EXCEPT ![p] = Absent]
  /\ UNCHANGED <<notes, life, wants, runs, mine, log, calm, ending>>

\* What becomes of a request at the platform
Arrives(i, fate) ==
  /\ log[i].fate = "flying"
  /\ fate = "lost" => ~calm
  /\ log' = [log EXCEPT ![i].fate = fate]
  /\ UNCHANGED <<card, notes, life, wants, timer, runs, place, snap, mine, calm, ending>>

Calms ==
  /\ ~calm /\ calm' = TRUE
  /\ UNCHANGED <<card, notes, life, wants, timer, runs, place, snap, mine, log, ending>>

-----------------------------------------------------------------------------
(* Processes *)

\* recover: an entry that is not done is applied again.
StartUp(p) ==
  /\ life[p] = "new"
  /\ life' = [life EXCEPT ![p] = "up"]
  /\ \E allowed \in IF MayFail THEN BOOLEAN ELSE {TRUE} :
       LET goes == card.there /\ ~card.done /\ allowed IN
         /\ mine' = [mine EXCEPT ![p] = goes]
         /\ runs' = [runs EXCEPT ![p] = IF goes THEN 1 ELSE 0]
  /\ UNCHANGED <<card, notes, wants, timer, place, snap, log, calm, ending>>

\* close: no intent is left; a card in progress is told of the pause.
ShutDown(p) ==
  /\ life[p] = "up" /\ wants[p] = <<>>
  /\ life' = [life EXCEPT ![p] = "closing"]
  /\ LET tells == mine[p] /\ ~card.terminal /\ ~card.done /\ (HasCard(card) \/ card.pending # Nothing) IN
       wants' = [wants EXCEPT ![p] = IF tells THEN <<[terminal |-> FALSE, admit |-> FALSE, differs |-> TRUE]>> ELSE @]
  /\ UNCHANGED <<card, notes, timer, runs, place, snap, mine, log, calm, ending>>

\* The process ends: a crash, the end of the flush, or its five seconds are over.
Exit(p) ==
  /\ Live(p)
  /\ life' = [life EXCEPT ![p] = "down"]
  /\ wants' = [wants EXCEPT ![p] = <<>>] /\ timer' = [timer EXCEPT ![p] = FALSE]
  /\ runs' = [runs EXCEPT ![p] = 0] /\ mine' = [mine EXCEPT ![p] = FALSE]
  /\ Goto(p, "idle") /\ snap' = [snap EXCEPT ![p] = Absent]
  /\ UNCHANGED <<card, notes, log, calm, ending>>

Apply(p) ==
  \/ TimerFires(p) \/ Begin(p) \/ Proceed(p) \/ ChooseMode(p) \/ Pick(p) \/ Dispatch(p)
  \/ \E s \in Status : LookedUp(p, s) \/ Answer(p, s)

CardNext ==
  \/ \E p \in Gateways : \/ \E w \in Want : Notify(p, w)
                         \/ Save(p) \/ Unsaved(p) \/ Apply(p) \/ GivesUp(p)
                         \/ StartUp(p) \/ ShutDown(p) \/ Exit(p)
  \/ CoolsDown \/ Calms
  \/ \E i \in DOMAIN log : \E f \in {"lost", "landed", "failed"} : Arrives(i, f)

CardSpec == CardInit /\ [][CardNext]_cardVars

\* Intents are saved, runs go on, requests are answered, time passes.
CardFairness ==
  /\ \A p \in Gateways : WF_cardVars(Save(p)) /\ WF_cardVars(Apply(p))
  /\ WF_cardVars(CoolsDown)
  /\ \A i \in 1 .. MaxRev : WF_cardVars(i \in DOMAIN log /\ \E f \in {"landed", "failed"} : Arrives(i, f))

-----------------------------------------------------------------------------
(* No effect is dispatched while an earlier one may still arrive: its     *)
(* outcome is known.  None is dispatched twice, there is one card, and the  *)
(* final state is the last thing it shows.                                 *)
NeverReplays ==
  \A i, j \in DOMAIN log : i < j =>
    /\ log[i].fate \in {"landed", "failed"}
    /\ ~SameEffect(log[i], log[j])
    /\ log[i].fate = "landed" =>
         ~log[i].terminal /\ ~({log[i].kind, log[j].kind} \subseteq {"start", "send"})

(* The outcome of the pending effect will never be known.                  *)
Blocked == card.pending # Nothing /\ (HopeLost(card) \/ log[Index(card.pending)].fate = "lost")

(* A turn that ends after requests have stopped failing has its final      *)
(* state shown, refused for good or found needless, whatever went wrong    *)
(* before, unless an earlier outcome stays unknown or no gateway stays up.  *)
FinalShown == ending ~> (card.done \/ Blocked \/ \A p \in Gateways : life[p] # "up")
=============================================================================

------------------------- MODULE ConversationProofs -------------------------
(***************************************************************************)
(* What holds of a Companion group for every number of messages, failures,  *)
(* handlers, gateways, sessions and resets, and of a live call for every    *)
(* number of tool calls, responses and presses.                             *)
(***************************************************************************)
EXTENDS Companion, VoiceCall, TLAPS

-----------------------------------------------------------------------------
(***************************************************************************)
(* The Companion group: the inductive invariant.                            *)
(***************************************************************************)

TurnStates == {"none", "hydrating", "queued", "submitting", "submitted", "context_only",
               "delivered", "paused", "interrupted"}
Turn == [state : TurnStates, ctx : SUBSET (Group \cup {History}), fixed : BOOLEAN,
         framed : BOOLEAN, tries : 0 .. PauseLimit, seated : BOOLEAN, fenced : BOOLEAN,
         doubt : BOOLEAN]
RunnerPlaces == {"idle", "asking", "loading", "policy", "control", "seating", "ready",
                 "prompting", "waiting"}
Executors == Handlers \cup {Runner}

CompanionShape ==
  /\ says \in [Group -> {"ask", "quiet", "stop", "clear"}]
  /\ slot \in [Group -> Turn]
  /\ prelude \in [by : Group \cup {History}, of : SUBSET Group]
  /\ spent \subseteq Group \cup {History}
  /\ bonds \in Nat /\ bond \in 0 .. bonds /\ epoch \in Nat
  /\ line \subseteq Group /\ host \subseteq Group /\ cut \subseteq Group
  /\ runner \in [at : RunnerPlaces, on : Group, bond : Nat, epoch : Nat]
  /\ control \in [Executors -> [at : {"idle", "fencing", "replying"}, on : Group, hit : Group,
                                todo : SUBSET Group, met : SUBSET Group, shaky : BOOLEAN]]
  /\ era \in {"up", "closing", "down"} /\ reigns \in 0 .. MaxReigns
  /\ reached \in [Group -> 0 .. 2] /\ briefed \in BOOLEAN
  /\ wiped \in [texts : SUBSET Group, late : SUBSET Group]

Ended(t)   == t.state \in {"context_only", "delivered", "interrupted"}
Settled(t) == t.state = "paused" \/ Ended(t)
Alive(t)   == t.state \in {"queued", "submitting", "submitted"}

\* A turn is prepared, given its context, submitted and taken by the host in this order;
\* only what was submitted leaves a doubt, and none is left by an end.
TurnsAreFramed ==
  \A s \in Group :
    /\ slot[s].fixed => slot[s].framed
    /\ slot[s].framed => Seeded /\ slot[s].state \notin {"none", "hydrating"}
    /\ Alive(slot[s]) => slot[s].framed
    /\ slot[s].state \in {"submitting", "submitted"} \/ s \in host => slot[s].fixed
    /\ slot[s].state = "submitted" => s \in host
    /\ ~slot[s].fixed => slot[s].ctx = {}
    /\ slot[s].doubt => slot[s].fixed /\ Settled(slot[s])
    /\ slot[s].doubt /\ Ended(slot[s]) => slot[s].fenced

\* What is kept as context stays that, and is all that prompts carry and consume.
ContextIsKept ==
  /\ \A c \in Group : slot[c].state = "context_only" => ~slot[c].fixed /\ ~Addresses(c)
  /\ \A s \in Group : \A c \in slot[s].ctx \cap Group : slot[c].state = "context_only"
  /\ \A c \in spent \cap Group : slot[c].state = "context_only"

\* What the runner has found out stays true until it acts on it.
RunnerKnows ==
  LET s == runner.on IN
  /\ runner.at = "loading" => ~Seeded
  /\ runner.at = "policy" => Seeded
  /\ runner.at \in {"loading", "policy"} => ~slot[s].framed
  /\ runner.at \in {"seating", "ready"} =>
       slot[s].fixed /\ (slot[s].state = "queued" \/ Settled(slot[s]))
  /\ runner.at = "prompting" =>
       /\ slot[s].fixed
       /\ slot[s].state = "submitting" \/ (Settled(slot[s]) /\ Carries(s) \subseteq cut)
  /\ runner.at = "waiting" => slot[s].fixed /\ slot[s].ctx \subseteq spent

\* Until its context is chosen, the runner's turn precedes every other turn that has one
\* and may still be prompted.
RunnerIsFirst ==
  runner.at \in {"asking", "loading", "policy"} =>
    \A t \in Group \ {runner.on} : slot[t].fixed /\ Alive(slot[t]) => runner.on < t

\* A command's own turn waits for it, and what its snapshot holds is to be stopped, is
\* being stopped, or has ended, unless the host refused to confirm.
Obeyed(a) ==
  LET k == control[a] IN
  k.at # "idle" =>
    /\ Command(k.on) /\ Seeded /\ ~slot[k.on].fixed
    /\ slot[k.on].framed => Ended(slot[k.on]) \/ (runner.at = "control" /\ runner.on = k.on)
    /\ Ended(slot[k.on]) \/ (k.at = "fencing" /\ k.on \in k.todo)
    /\ k.at = "fencing" => /\ Settled(slot[k.hit]) /\ k.met # {}
                           /\ \A x \in k.todo : slot[x].state # "none"
                           /\ ~k.shaky => \A x \in k.met :
                                x \in k.todo \cup {k.hit} \/ Ended(slot[x])

ControlKnows ==
  /\ \A a \in Executors : Obeyed(a)
  /\ control[Runner].at # "idle" => runner.at = "control" /\ runner.on = control[Runner].on

\* Turns whose prompt the host has or may get.
Tells(s) == slot[s].fixed /\ (s \in host \/ Alive(slot[s]))

\* Two such prompts have nothing in common but what is cut.
ToldApart ==
  \A s, t \in Group : s # t /\ Tells(s) /\ Tells(t) => Carries(s) \cap Carries(t) \subseteq cut

\* What the host has been told is consumed, or cut, or its turn is still under way.
ToldIsSpent ==
  \A s \in host : \/ slot[s].ctx \subseteq spent \/ Carries(s) \subseteq cut
                  \/ slot[s].state \in {"submitting", "submitted"}

\* What reached the host is in a prompt that it has, and once.
Told ==
  \A x \in Group \ cut : /\ reached[x] <= 1
                         /\ reached[x] = 1 => \E s \in host : x \in Carries(s)

\* Every prompt carries the history, or a prompt before it did, or a /clear discarded it.
Briefing ==
  /\ \A s \in Group : slot[s].fixed => History \in slot[s].ctx \cup spent
  /\ \A s \in host : History \in slot[s].ctx => briefed
  /\ History \in spent => briefed \/ wiped.texts # {}
  /\ (\E s \in Group : reached[s] > 0) => (briefed \/ wiped.texts # {})

\* What a /clear found has ended and is consumed; a turn that came after it ended carries
\* nothing of it.
Cleared ==
  /\ wiped.texts # {} => Seeded /\ History \in spent
  /\ \A x \in wiped.texts : Ended(slot[x]) /\ (slot[x].state = "context_only" => x \in spent)
  /\ wiped.texts # {} =>
       \A r \in Group \ (wiped.late \cup wiped.texts) :
         slot[r].fixed => slot[r].ctx \cap (wiped.texts \cup {History}) = {}

CompanionInv ==
  /\ CompanionShape /\ TurnsAreFramed /\ ContextIsKept /\ RunnerKnows /\ RunnerIsFirst
  /\ ControlKnows /\ ToldApart /\ ToldIsSpent /\ Told /\ Briefing /\ Cleared

-----------------------------------------------------------------------------
(***************************************************************************)
(* The steps that neither choose a context nor tell anything: what they may *)
(* do to a turn, and what that leaves true.                                 *)
(***************************************************************************)

\* A turn keeps its context, and its state stays or goes on towards an end.
Softens(x) ==
  /\ slot'[x].ctx = slot[x].ctx /\ slot'[x].fixed = slot[x].fixed
  /\ slot'[x].doubt => slot'[x].fixed /\ Settled(slot'[x])
  /\ slot'[x].doubt /\ Ended(slot'[x]) => slot'[x].fenced
  /\ \/ /\ slot'[x].framed = slot[x].framed
        /\ \/ slot'[x].state = slot[x].state
           \/ slot[x].state \in {"none", "hydrating"} /\ slot'[x].state = "hydrating"
           \/ slot[x].state = "submitting" /\ x \in host /\ slot'[x].state = "submitted"
           \/ slot[x].state = "queued" /\ slot[x].fixed /\ slot'[x].state = "submitting"
           \/ /\ slot[x].state # "context_only"
              /\ slot'[x].state \in {"paused", "delivered", "interrupted"}
              /\ Ended(slot[x]) => Ended(slot'[x])
              /\ x \in host /\ slot[x].state \in {"submitting", "submitted"}
                   => slot[x].ctx \subseteq spent' \/ Carries(x) \subseteq cut'
     \/ /\ ~slot[x].framed /\ slot'[x].framed /\ Seeded
        /\ slot[x].state \in {"hydrating", "queued"}
        /\ \/ slot'[x].state \in {"queued", "interrupted"}
           \/ slot'[x].state = "context_only" /\ ~Addresses(x)

\* ... and nothing else that the prompts rest on changes, but that context that was told
\* or discarded is consumed.
Eases ==
  /\ UNCHANGED <<says, prelude, host, reached, briefed>>
  /\ slot' \in [Group -> Turn] /\ cut \subseteq cut' /\ cut' \subseteq Group
  /\ spent \subseteq spent' /\ spent' \subseteq Group \cup {History}
  /\ \A c \in spent' \cap Group : slot[c].state = "context_only"
  /\ wiped.texts \subseteq wiped'.texts
  /\ History \in spent' => History \in spent \/ briefed \/ wiped'.texts # {}
  /\ \A x \in Group : Softens(x)

\* A turn that is under way, or over, stays that.
LEMMA SoftensKeeps ==
  ASSUME CompanionShape, TurnsAreFramed, ContextIsKept, NEW x \in Group, Softens(x)
  PROVE  /\ Settled(slot[x]) => Settled(slot'[x])
         /\ Ended(slot[x]) => Ended(slot'[x])
         /\ slot[x].state = "context_only" <=>
              (slot'[x].state = "context_only" /\ slot[x].state \notin {"hydrating", "queued"})
         /\ slot[x].framed => slot'[x].framed
         /\ slot'[x].fixed /\ Alive(slot'[x]) => Alive(slot[x])
<1>1. slot[x] \in Turn
  BY DEF CompanionShape
<1>2. slot[x].fixed => slot[x].framed
  BY DEF TurnsAreFramed
<1> QED
  BY <1>1, <1>2 DEF Softens, Settled, Ended, Alive, Turn

\* What a step leaves true of every turn, when it softens them and nothing else.  The
\* texts of the turns match their states.
LEMMA EasesFramed ==
  ASSUME CompanionInv, Eases
  PROVE  TurnsAreFramed'
<1> SUFFICES ASSUME NEW s \in Group
             PROVE  /\ slot'[s].fixed => slot'[s].framed
                    /\ slot'[s].framed => Seeded' /\ slot'[s].state \notin {"none", "hydrating"}
                    /\ Alive(slot'[s]) => slot'[s].framed
                    /\ slot'[s].state \in {"submitting", "submitted"} \/ s \in host' =>
                         slot'[s].fixed
                    /\ slot'[s].state = "submitted" => s \in host'
                    /\ ~slot'[s].fixed => slot'[s].ctx = {}
                    /\ slot'[s].doubt => slot'[s].fixed /\ Settled(slot'[s])
                    /\ slot'[s].doubt /\ Ended(slot'[s]) => slot'[s].fenced
  BY DEF TurnsAreFramed, Alive, Settled, Ended
<1>1. Softens(s) /\ host' = host /\ prelude' = prelude
  BY DEF Eases
<1>2. /\ slot[s].fixed => slot[s].framed
      /\ slot[s].framed => Seeded /\ slot[s].state \notin {"none", "hydrating"}
      /\ Alive(slot[s]) => slot[s].framed
      /\ slot[s].state \in {"submitting", "submitted"} \/ s \in host => slot[s].fixed
      /\ slot[s].state = "submitted" => s \in host
      /\ ~slot[s].fixed => slot[s].ctx = {}
  BY DEF CompanionInv, TurnsAreFramed
<1>3. Seeded' <=> Seeded
  BY <1>1 DEF Seeded
<1> QED
  BY <1>1, <1>2, <1>3 DEF Softens, Alive, Ended, Settled

\* A prompt carries the same texts as before.
LEMMA EasesCarries ==
  ASSUME CompanionInv, Eases, NEW s \in Group
  PROVE  Carries(s)' = Carries(s)
<1>1. slot'[s].ctx = slot[s].ctx /\ prelude' = prelude
  BY DEF Eases, Softens
<1> QED
  BY <1>1 DEF Carries

\* ... the contexts that were kept are still kept;
LEMMA EasesContext ==
  ASSUME CompanionInv, Eases
  PROVE  ContextIsKept'
<1>1. \A x \in Group : Softens(x) /\ slot[x] \in Turn
  BY DEF Eases, CompanionInv, CompanionShape
<1>2. \A x \in Group : slot[x].fixed => slot[x].framed
  BY DEF CompanionInv, TurnsAreFramed
<1>3. \A c \in Group : slot[c].state = "context_only" => slot'[c].state = "context_only"
  BY <1>1 DEF Softens
<1>4. ASSUME NEW c \in Group, slot'[c].state = "context_only"
      PROVE  ~slot'[c].fixed /\ ~Addresses(c)'
  <2>1. slot[c].state = "context_only" \/ (~slot[c].framed /\ ~Addresses(c))
    BY <1>1, <1>4 DEF Softens
  <2>2. slot'[c].fixed = slot[c].fixed /\ says' = says
    BY <1>1 DEF Eases, Softens
  <2>3. slot[c].state = "context_only" => ~slot[c].fixed /\ ~Addresses(c)
    BY DEF CompanionInv, ContextIsKept
  <2> QED
    BY <1>2, <2>1, <2>2, <2>3 DEF Addresses
<1>5. ASSUME NEW s \in Group, NEW c \in slot'[s].ctx \cap Group
      PROVE  slot'[c].state = "context_only"
  <2>1. c \in slot[s].ctx \cap Group
    BY <1>1 DEF Softens
  <2>2. slot[c].state = "context_only"
    BY <2>1 DEF CompanionInv, ContextIsKept
  <2> QED
    BY <2>1, <2>2, <1>3
<1>6. \A c \in spent' \cap Group : slot'[c].state = "context_only"
  BY <1>3 DEF Eases
<1> QED
  BY <1>4, <1>5, <1>6 DEF ContextIsKept

\* ... no two prompts tell the same message;
LEMMA EasesApart ==
  ASSUME CompanionInv, Eases
  PROVE  ToldApart'
<1>1. \A x \in Group : (Tells(x))' => Tells(x)
  <2> SUFFICES ASSUME NEW x \in Group, (Tells(x))'
               PROVE  Tells(x)
    OBVIOUS
  <2>1. Softens(x) /\ host' = host
    BY DEF Eases
  <2>2. slot[x].fixed => slot[x].framed
    BY DEF CompanionInv, TurnsAreFramed
  <2> QED
    BY <2>1, <2>2 DEF Softens, Tells, Alive
<1>2. \A x \in Group : Carries(x)' = Carries(x)
  BY EasesCarries
<1>3. cut \subseteq cut' /\ ToldApart
  BY DEF Eases, CompanionInv
<1>4. ASSUME NEW s \in Group, NEW t \in Group, s # t, (Tells(s))', (Tells(t))'
      PROVE  Carries(s)' \cap Carries(t)' \subseteq cut'
  BY <1>1, <1>2, <1>3, <1>4 DEF ToldApart
<1> QED
  BY <1>4 DEF ToldApart

\* ... what a prompt carried is spent or cut;
LEMMA EasesSpent ==
  ASSUME CompanionInv, Eases
  PROVE  ToldIsSpent'
<1> SUFFICES ASSUME NEW s \in host'
             PROVE  \/ slot'[s].ctx \subseteq spent' \/ Carries(s)' \subseteq cut'
                    \/ slot'[s].state \in {"submitting", "submitted"}
  BY DEF ToldIsSpent
<1>1. s \in host /\ s \in Group /\ Softens(s)
  BY DEF Eases, CompanionInv, CompanionShape
<1>2. slot[s].fixed /\ slot[s].framed
  BY <1>1 DEF CompanionInv, TurnsAreFramed
<1>3. \/ slot[s].ctx \subseteq spent \/ Carries(s) \subseteq cut
      \/ slot[s].state \in {"submitting", "submitted"}
  BY <1>1 DEF CompanionInv, ToldIsSpent
<1>4. Carries(s)' = Carries(s) /\ cut \subseteq cut' /\ spent \subseteq spent'
  BY <1>1, EasesCarries DEF Eases
<1> QED
  BY <1>1, <1>2, <1>3, <1>4 DEF Softens

\* ... a message that was told is carried by a prompt the host has;
LEMMA EasesTold ==
  ASSUME CompanionInv, Eases
  PROVE  Told'
<1>1. /\ \A x \in Group : Carries(x)' = Carries(x)
      /\ cut \subseteq cut' /\ host' = host /\ reached' = reached /\ host \subseteq Group
  BY EasesCarries DEF Eases, CompanionInv, CompanionShape
<1>2. ASSUME NEW x \in Group \ cut', reached'[x] = 1
      PROVE  \E s \in host' : x \in Carries(s)'
  <2>1. PICK s \in host : x \in Carries(s)
    BY <1>1, <1>2 DEF CompanionInv, Told
  <2> QED
    BY <1>1, <2>1
<1>3. \A x \in Group \ cut' : reached'[x] <= 1
  BY <1>1 DEF CompanionInv, Told
<1> QED
  BY <1>2, <1>3 DEF Told

\* ... nothing is told before the history;
LEMMA EasesBriefing ==
  ASSUME CompanionInv, Eases
  PROVE  Briefing'
<1>1. /\ host' = host /\ reached' = reached /\ briefed' = briefed /\ host \subseteq Group
      /\ spent \subseteq spent' /\ wiped.texts \subseteq wiped'.texts
      /\ History \in spent' => History \in spent \/ briefed \/ wiped'.texts # {}
      /\ \A x \in Group : slot'[x].ctx = slot[x].ctx /\ slot'[x].fixed = slot[x].fixed
  BY DEF Eases, Softens, CompanionInv, CompanionShape
<1> QED
  BY <1>1 DEF Briefing, CompanionInv

\* ... what a /clear found stays cleared;
LEMMA EasesCleared ==
  ASSUME CompanionInv, Eases, wiped' = wiped
  PROVE  Cleared'
<1>1. /\ prelude' = prelude /\ spent \subseteq spent' /\ wiped.texts \subseteq Group
      /\ \A x \in Group : slot'[x].ctx = slot[x].ctx /\ slot'[x].fixed = slot[x].fixed
  BY DEF Eases, Softens, CompanionInv, CompanionShape
<1>2. ASSUME NEW x \in wiped.texts
      PROVE  Ended(slot'[x]) /\ (slot'[x].state = "context_only" => x \in spent')
  <2>1. /\ x \in Group /\ Softens(x) /\ Ended(slot[x])
        /\ slot[x].state = "context_only" => x \in spent
    BY <1>1 DEF Eases, CompanionInv, Cleared
  <2> QED
    BY <1>1, <2>1 DEF Softens, Ended
<1> QED
  BY <1>1, <1>2 DEF Cleared, CompanionInv, Seeded

\* The turns and the texts after such a step.
TextsInv == /\ TurnsAreFramed /\ ContextIsKept /\ ToldApart /\ ToldIsSpent /\ Told /\ Briefing

\* ... and all of that together.
LEMMA EasesTexts ==
  ASSUME CompanionInv, Eases
  PROVE  TextsInv'
<1> QED
  BY EasesFramed, EasesContext, EasesApart, EasesSpent, EasesTold, EasesBriefing DEF TextsInv

\* A command that is under way stays as it is.
LEMMA EasesObeyed ==
  ASSUME CompanionInv, Eases, NEW a \in Executors, control'[a] = control[a], control[a].at # "idle",
         slot'[control[a].on].framed =>
           \/ Ended(slot'[control[a].on]) \/ (runner'.at = "control" /\ runner'.on = control[a].on)
  PROVE  Obeyed(a)'
<1>0. /\ says' = says /\ prelude' = prelude
      /\ control[a] \in
           [at : {"idle", "fencing", "replying"}, on : Group, hit : Group,
            todo : SUBSET Group, met : SUBSET Group, shaky : BOOLEAN]
  BY DEF CompanionInv, CompanionShape, Eases
<1> DEFINE k == control[a]
<1>1. /\ Command(k.on) /\ Seeded /\ ~slot[k.on].fixed
      /\ Ended(slot[k.on]) \/ (k.at = "fencing" /\ k.on \in k.todo)
      /\ k.at = "fencing" => /\ Settled(slot[k.hit]) /\ k.met # {}
                             /\ \A x \in k.todo : slot[x].state # "none"
                             /\ ~k.shaky => \A x \in k.met :
                                  x \in k.todo \cup {k.hit} \/ Ended(slot[x])
  BY DEF CompanionInv, ControlKnows, Obeyed
<1>2. /\ k.on \in Group /\ k.hit \in Group /\ k.met \subseteq Group /\ k.todo \subseteq Group
  BY <1>0
<1>3. \A x \in Group : /\ Ended(slot[x]) => Ended(slot'[x])
                       /\ Settled(slot[x]) => Settled(slot'[x])
                       /\ slot[x].state # "none" => slot'[x].state # "none"
                       /\ slot'[x].fixed = slot[x].fixed
  BY SoftensKeeps DEF CompanionInv, Eases, Softens
<1>4. Command(k.on)' /\ Seeded' /\ ~slot'[k.on].fixed
  BY <1>0, <1>1, <1>2, <1>3 DEF Command, Seeded
<1>5. Ended(slot'[k.on]) \/ (k.at = "fencing" /\ k.on \in k.todo)
  BY <1>1, <1>2, <1>3
<1>6. k.at = "fencing" => /\ Settled(slot'[k.hit]) /\ k.met # {}
                          /\ \A x \in k.todo : slot'[x].state # "none"
                          /\ ~k.shaky => \A x \in k.met :
                               x \in k.todo \cup {k.hit} \/ Ended(slot'[x])
  BY <1>1, <1>2, <1>3
<1>7. /\ control'[a] = k /\ k' = k
      /\ slot'[k.on].framed =>
           \/ Ended(slot'[k.on]) \/ (runner'.at = "control" /\ runner'.on = k.on)
  OBVIOUS
<1> HIDE DEF k
<1> QED
  BY <1>4, <1>5, <1>6, <1>7 DEF Obeyed, Ended, Settled

\* A command that nobody moves knows as much as before.
LEMMA EasesControl ==
  ASSUME CompanionInv, Eases, control' = control,
         runner.at = "control" => runner' = runner,
         \A x \in Group : slot'[x].framed /\ ~slot[x].framed /\ ~Ended(slot'[x]) => ~Command(x)
  PROVE  ControlKnows'
<1>1. ASSUME NEW a \in Executors, control[a].at # "idle"
      PROVE  Obeyed(a)'
  <2>1. /\ Command(control[a].on) /\ control[a].on \in Group
        /\ slot[control[a].on].framed =>
             Ended(slot[control[a].on]) \/ (runner.at = "control" /\ runner.on = control[a].on)
    BY <1>1 DEF CompanionInv, CompanionShape, ControlKnows, Obeyed
  <2>2. Ended(slot[control[a].on]) => Ended(slot'[control[a].on])
    BY <2>1, SoftensKeeps DEF CompanionInv, Eases
  <2> QED
    BY <1>1, <2>1, <2>2, EasesObeyed
<1>2. control[Runner].at # "idle" => runner'.at = "control" /\ runner'.on = control[Runner].on
  BY DEF ControlKnows, CompanionInv
<1>3. \A a \in Executors : control[a].at = "idle" => Obeyed(a)'
  BY DEF Obeyed
<1> QED
  BY <1>1, <1>2, <1>3 DEF ControlKnows

\* The runner that does not move still knows what it knew.
LEMMA EasesRunner ==
  ASSUME CompanionInv, Eases, runner' = runner,
         runner.at = "prompting" /\ slot[runner.on].state = "submitting" =>
           slot'[runner.on].state = "submitting" \/ Carries(runner.on) \subseteq cut',
         \A x \in Group : slot'[x].framed = slot[x].framed,
         \A x \in Group : slot'[x].state \in {"submitting", "submitted"} =>
           slot'[x].state = slot[x].state
  PROVE  RunnerKnows' /\ RunnerIsFirst'
<1>1. /\ runner.on \in Group /\ Softens(runner.on) /\ Carries(runner.on)' = Carries(runner.on)
      /\ cut \subseteq cut' /\ spent \subseteq spent' /\ prelude' = prelude
  BY EasesCarries DEF Eases, CompanionInv, CompanionShape
<1>2. /\ Settled(slot[runner.on]) => Settled(slot'[runner.on])
      /\ slot'[runner.on].fixed = slot[runner.on].fixed
      /\ slot'[runner.on].ctx = slot[runner.on].ctx
  BY <1>1, SoftensKeeps DEF CompanionInv, Softens
<1>3. RunnerKnows'
  <2>1. Seeded' <=> Seeded
    BY <1>1 DEF Seeded
  <2>2. slot[runner.on].fixed => slot[runner.on].framed
    BY <1>1 DEF CompanionInv, TurnsAreFramed
  <2>3. runner.at \in {"seating", "ready"} =>
           slot'[runner.on].fixed
             /\ (slot'[runner.on].state = "queued" \/ Settled(slot'[runner.on]))
    BY <1>1, <1>2, <2>2 DEF CompanionInv, RunnerKnows, Softens, Settled, Ended
  <2>4. runner.at = "prompting" =>
       /\ slot'[runner.on].fixed
       /\ \/ slot'[runner.on].state = "submitting"
          \/ Settled(slot'[runner.on]) /\ Carries(runner.on) \subseteq cut'
    BY <1>1, <1>2, <2>2 DEF CompanionInv, RunnerKnows, Softens, Settled, Ended
  <2> QED
    BY <1>1, <1>2, <2>1, <2>3, <2>4 DEF CompanionInv, RunnerKnows, Settled, Ended
<1>4. RunnerIsFirst'
  <2>1. \A x \in Group : slot'[x].fixed /\ Alive(slot'[x]) => slot[x].fixed /\ Alive(slot[x])
    BY SoftensKeeps DEF Eases, Softens, CompanionInv
  <2> QED
    BY <2>1 DEF RunnerIsFirst, CompanionInv, Alive
<1> QED
  BY <1>3, <1>4

-----------------------------------------------------------------------------
(***************************************************************************)
(* The steps.                                                               *)
(***************************************************************************)

\* One turn is written.
LEMMA TurnIsWritten ==
  ASSUME CompanionShape, NEW s \in Group, NEW u \in Turn, slot' = [slot EXCEPT ![s] = u]
  PROVE  slot' \in [Group -> Turn] /\ slot'[s] = u /\ \A x \in Group \ {s} : slot'[x] = slot[x]
<1> QED
  BY DEF CompanionShape

\* A turn that is not written is as it was.
LEMMA UnwrittenSoftens ==
  ASSUME TurnsAreFramed, NEW x \in Group, slot'[x] = slot[x]
  PROVE  Softens(x)
<1> QED
  BY DEF Softens, TurnsAreFramed, Settled, Ended

\* One turn is written and softens.
LEMMA WrittenEases ==
  ASSUME CompanionInv, NEW s \in Group, NEW u \in Turn, slot' = [slot EXCEPT ![s] = u],
         Softens(s), UNCHANGED <<says, prelude, host, reached, briefed>>,
         cut \subseteq cut', cut' \subseteq Group, spent' = spent, wiped' = wiped
  PROVE  Eases
<1>1. slot' \in [Group -> Turn] /\ \A x \in Group \ {s} : Softens(x)
  BY TurnIsWritten, UnwrittenSoftens DEF CompanionInv
<1>2. /\ spent \subseteq Group \cup {History}
      /\ \A c \in spent \cap Group : slot[c].state = "context_only"
  BY DEF CompanionInv, CompanionShape, ContextIsKept
<1> QED
  BY <1>1, <1>2 DEF Eases

\* No turn is written.
LEMMA UnwrittenEases ==
  ASSUME CompanionInv, slot' = slot, UNCHANGED <<says, prelude, host, reached, briefed>>,
         cut \subseteq cut', cut' \subseteq Group, spent' = spent, wiped' = wiped
  PROVE  Eases
<1>1. slot' \in [Group -> Turn] /\ \A x \in Group : Softens(x)
  BY UnwrittenSoftens DEF CompanionInv, CompanionShape
<1>2. /\ spent \subseteq Group \cup {History}
      /\ \A c \in spent \cap Group : slot[c].state = "context_only"
  BY DEF CompanionInv, CompanionShape, ContextIsKept
<1> QED
  BY <1>1, <1>2 DEF Eases

\* A step that eases and leaves the commands alone.
LEMMA EasyStep ==
  ASSUME CompanionInv, CompanionShape', Eases, wiped' = wiped, control' = control,
         RunnerKnows', RunnerIsFirst', runner.at = "control" => runner' = runner,
         \A x \in Group : slot'[x].framed /\ ~slot[x].framed /\ ~Ended(slot'[x]) => ~Command(x)
  PROVE  CompanionInv'
<1>1. TextsInv' /\ Cleared' /\ ControlKnows'
  BY EasesTexts, EasesCleared, EasesControl
<1> QED
  BY <1>1 DEF CompanionInv, TextsInv

\* A runner that rests knows nothing.
LEMMA RestingKnows ==
  ASSUME runner' = Resting \/ runner'.at \in {"idle", "control"}
  PROVE  RunnerKnows' /\ RunnerIsFirst'
<1>1. runner'.at \in {"idle", "control"}
  BY DEF Resting
<1> QED
  BY <1>1 DEF RunnerKnows, RunnerIsFirst

\* A runner that rests is a runner.
LEMMA RestingShape ==
  Resting \in [at : RunnerPlaces, on : Group, bond : Nat, epoch : Nat]
<1> QED
  BY CompanionAssumption DEF Resting, RunnerPlaces, Trigger, Group

\* A turn is leased.
LEMMA LeasesStep ==
  ASSUME CompanionInv, NEW s \in Group, Leases(s)
  PROVE  CompanionInv'
<1>1. /\ runner.at = "idle" /\ Leasable(s) /\ runner' = [Resting EXCEPT !.at = "asking", !.on = s]
      /\ slot' = slot /\ control' = control /\ cut' = cut
      /\ UNCHANGED <<says, prelude, host, reached, briefed, spent, wiped>>
  BY DEF Leases, tales
<1>2. Eases
  BY <1>1, UnwrittenEases DEF CompanionInv, CompanionShape
<1>3. runner' \in [at : RunnerPlaces, on : Group, bond : Nat, epoch : Nat]
      /\ runner'.at = "asking" /\ runner'.on = s
  BY <1>1 DEF Resting, RunnerPlaces
<1>4. CompanionShape'
  BY <1>1, <1>3 DEF CompanionInv, CompanionShape, Leases, tales, seat, reign
<1>5. RunnerKnows'
  BY <1>3 DEF RunnerKnows
<1>6. RunnerIsFirst'
  <2> SUFFICES ASSUME NEW t \in Group \ {s}, Alive(slot[t])
               PROVE  s < t
    BY <1>1, <1>3 DEF RunnerIsFirst, Alive
  <2>1. t # Trigger /\ (s = Trigger \/ s < t)
    BY <1>1 DEF Leasable, Pending, Alive
  <2> QED
    BY <2>1, CompanionAssumption DEF Trigger, Group
<1> QED
  BY <1>1, <1>2, <1>4, <1>5, <1>6, EasyStep

\* A paused turn is completed or aborted at the host.
LEMMA RescueStep ==
  ASSUME CompanionInv, NEW s \in Group, Rescue(s)
  PROVE  CompanionInv'
<1>1. /\ runner.at = "idle" /\ runner' = runner /\ control' = control /\ cut' = cut
      /\ UNCHANGED <<says, prelude, host, reached, briefed, spent, wiped>>
      /\ slot[s].state = "paused"
  BY DEF Rescue, tales
<1>2. slot[s] \in Turn
  BY DEF CompanionInv, CompanionShape
<1>3. PICK u \in Turn : /\ slot' = [slot EXCEPT ![s] = u]
                        /\ u.ctx = slot[s].ctx /\ u.fixed = slot[s].fixed
                        /\ u.framed = slot[s].framed
                        /\ u.state \in {"paused", "delivered"} /\ u.fenced
                        /\ u.doubt = slot[s].doubt
  <2>1. CASE slot' = [slot EXCEPT ![s].fenced = TRUE]
    <3> [slot[s] EXCEPT !.fenced = TRUE] \in Turn
      BY <1>2 DEF Turn, TurnStates
    <3> WITNESS [slot[s] EXCEPT !.fenced = TRUE] \in Turn
    <3> QED
      BY <2>1, <1>1, <1>2 DEF Turn
  <2>2. CASE slot' = [slot EXCEPT ![s].fenced = TRUE, ![s].state = "delivered"]
    <3> [slot[s] EXCEPT !.fenced = TRUE, !.state = "delivered"] \in Turn
      BY <1>2 DEF Turn, TurnStates
    <3> WITNESS [slot[s] EXCEPT !.fenced = TRUE, !.state = "delivered"] \in Turn
    <3> QED
      BY <2>2, <1>1, <1>2 DEF Turn
  <2> QED
    BY <2>1, <2>2 DEF Rescue
<1>4. slot' \in [Group -> Turn] /\ slot'[s] = u /\ \A x \in Group \ {s} : slot'[x] = slot[x]
  BY <1>3, TurnIsWritten DEF CompanionInv
<1>5. Softens(s)
  <2>1. slot[s].doubt => slot[s].fixed
    BY DEF CompanionInv, TurnsAreFramed
  <2> QED
    BY <1>1, <1>3, <1>4, <2>1 DEF Softens, Settled, Ended
<1>6. Eases
  BY <1>1, <1>3, <1>5, WrittenEases DEF CompanionInv, CompanionShape
<1>7. CompanionShape'
  BY <1>1, <1>4 DEF CompanionInv, CompanionShape, Rescue, tales, seat, reign
<1>8. RunnerKnows' /\ RunnerIsFirst'
  BY <1>1, RestingKnows
<1>9. \A x \in Group : slot'[x].framed = slot[x].framed
  BY <1>3, <1>4
<1> QED
  BY <1>1, <1>6, <1>7, <1>8, <1>9, EasyStep

\* A turn's state is written.
LEMMA StateIsWritten ==
  ASSUME CompanionShape, NEW s \in Group, NEW x \in TurnStates, State(s, x)
  PROVE  \E u \in Turn : /\ slot' = [slot EXCEPT ![s] = u] /\ u.state = x
                         /\ u.ctx = slot[s].ctx /\ u.fixed = slot[s].fixed
                         /\ u.framed = slot[s].framed
                         /\ u.fenced = slot[s].fenced /\ u.doubt = slot[s].doubt
<1>1. slot[s] \in Turn
  BY DEF CompanionShape
<1> [slot[s] EXCEPT !.state = x] \in Turn
  BY <1>1 DEF Turn
<1> WITNESS [slot[s] EXCEPT !.state = x] \in Turn
<1> QED
  BY <1>1 DEF State, Turn, CompanionShape

\* The runner leaves a turn as it is.
LEMMA LeavesStep ==
  ASSUME CompanionInv, NEW s \in Group, Leaves(s)
  PROVE  CompanionInv'
<1>1. /\ runner.at # "control" /\ runner' = Resting /\ slot' = slot /\ control' = control
      /\ cut' = cut /\ UNCHANGED <<says, prelude, host, reached, briefed, spent, wiped>>
  BY DEF Leaves, RunnerAt, tales
<1>2. Eases
  BY <1>1, UnwrittenEases DEF CompanionInv, CompanionShape
<1>3. CompanionShape'
  BY <1>1, RestingShape DEF CompanionInv, CompanionShape, Leaves, tales, seat, reign
<1>4. RunnerKnows' /\ RunnerIsFirst'
  BY <1>1, RestingKnows
<1> QED
  BY <1>1, <1>2, <1>3, <1>4, EasyStep

\* What a retry may write.
LEMMA RetryWrites ==
  ASSUME CompanionInv, NEW s \in Group, Retry(s), UNCHANGED <<spent, host>>,
         slot[s].state = "submitted" \/ ~Alive(slot[s]) \/ slot[s].state = "queued"
  PROVE  \E u \in Turn :
           /\ slot' = [slot EXCEPT ![s] = u] /\ Softens(s) /\ u.framed = slot[s].framed
                         /\ cut \subseteq cut' /\ cut' \subseteq Group
<1>0. slot[s] \in Turn /\ Pending(slot[s]) /\ cut \subseteq Group /\ Carries(s) \subseteq Group
      /\ prelude.of \subseteq Group /\ PauseLimit \in Nat
  BY CompanionAssumption DEF Retry, CompanionInv, CompanionShape, Carries
<1>1. /\ slot[s].doubt => slot[s].fixed /\ Settled(slot[s])
      /\ slot[s].doubt /\ Ended(slot[s]) => slot[s].fenced
  BY DEF CompanionInv, TurnsAreFramed
<1>2. CASE /\ slot[s].tries < PauseLimit /\ cut' = cut
           /\ slot' = [slot EXCEPT ![s].tries = @ + 1]
  <2> DEFINE u == [slot[s] EXCEPT !.tries = @ + 1]
  <2>1. u \in Turn /\ u.ctx = slot[s].ctx /\ u.fixed = slot[s].fixed /\ u.framed = slot[s].framed
        /\ u.state = slot[s].state /\ u.doubt = slot[s].doubt /\ u.fenced = slot[s].fenced
    BY <1>0, <1>2 DEF Turn
  <2>2. slot' = [slot EXCEPT ![s] = u] /\ slot'[s] = u
    BY <1>2 DEF CompanionInv, CompanionShape
  <2> HIDE DEF u
  <2>3. Softens(s)
    BY <2>1, <2>2, <1>1 DEF Softens, Settled, Ended
  <2> QED
    BY <2>1, <2>2, <2>3, <1>2, <1>0
<1>3. CASE UNCHANGED <<slot, cut>>
  <2>1. Softens(s) /\ slot' = [slot EXCEPT ![s] = slot[s]]
    BY <1>3, UnwrittenSoftens DEF CompanionInv, CompanionShape
  <2> QED
    BY <2>1, <1>3, <1>0
<1>4. CASE /\ slot' = [slot EXCEPT ![s].state = "paused",
                ![s].fenced = @ \/ (slot[s].state \in {"hydrating", "queued"} /\ ~slot[s].doubt)]
           /\ cut' = (IF Loose(slot[s]) THEN cut \cup Carries(s) ELSE cut)
  <2> DEFINE f == slot[s].fenced \/ (slot[s].state \in {"hydrating", "queued"} /\ ~slot[s].doubt)
             u == [slot[s] EXCEPT !.state = "paused", !.fenced = f]
  <2>0. f \in BOOLEAN
    BY <1>0 DEF Turn
  <2> HIDE DEF f
  <2>1. u \in Turn /\ u.ctx = slot[s].ctx /\ u.fixed = slot[s].fixed /\ u.framed = slot[s].framed
        /\ u.state = "paused" /\ u.doubt = slot[s].doubt
    BY <1>0, <2>0 DEF Turn, TurnStates
  <2>2. slot' = [slot EXCEPT ![s] = u] /\ slot'[s] = u
    BY <1>4 DEF CompanionInv, CompanionShape, f
  <2> HIDE DEF u
  <2>3. slot[s].state \in {"submitting", "submitted"} =>
          slot[s].ctx \subseteq spent' \/ Carries(s) \subseteq cut'
    BY <1>4 DEF Loose
  <2>4. ~Ended(slot[s]) /\ slot[s].state # "context_only"
    BY <1>0 DEF Pending, Ended
  <2>5. Softens(s)
    BY <2>1, <2>2, <2>3, <2>4, <1>1 DEF Softens, Settled, Ended
  <2>6. cut \subseteq cut' /\ cut' \subseteq Group
    BY <1>4, <1>0
  <2> QED
    BY <2>1, <2>2, <2>5, <2>6
<1> QED
  BY <1>2, <1>3, <1>4 DEF Retry

\* A try that failed softens the turn and lets the runner rest.
LEMMA RetryEases ==
  ASSUME CompanionInv, NEW s \in Group, Retry(s),
         UNCHANGED <<spent, host, says, prelude, reached, briefed, wiped>>,
         slot[s].state # "submitting"
  PROVE  /\ Eases /\ \A x \in Group : slot'[x].framed = slot[x].framed
         /\ line' \subseteq Group /\ runner' = Resting
<1>1. PICK u \in Turn : /\ slot' = [slot EXCEPT ![s] = u] /\ Softens(s) /\ u.framed = slot[s].framed
                        /\ cut \subseteq cut' /\ cut' \subseteq Group
  BY RetryWrites DEF Alive
<1>2. Eases
  BY <1>1, WrittenEases
<1>3. \A x \in Group : slot'[x].framed = slot[x].framed
  BY <1>1, TurnIsWritten DEF CompanionInv
<1>4. line' \subseteq Group /\ runner' = Resting
  BY DEF Retry, CompanionInv, CompanionShape
<1> QED
  BY <1>2, <1>3, <1>4

\* An await of the runner fails.
LEMMA FailsStep ==
  ASSUME CompanionInv, NEW s \in Group, Fails(s)
  PROVE  CompanionInv'
<1>1. /\ runner.at # "control" /\ Retry(s) /\ control' = control /\ slot[s].state # "submitting"
      /\ UNCHANGED <<says, prelude, host, reached, briefed, spent, wiped>>
  BY DEF Fails, RunnerAt
<1>2. /\ Eases /\ \A x \in Group : slot'[x].framed = slot[x].framed
      /\ line' \subseteq Group /\ runner' = Resting
  BY <1>1, RetryEases
<1>3. CompanionShape'
  BY <1>1, <1>2, RestingShape DEF CompanionInv, CompanionShape, Fails, seat, reign, Eases
<1>4. RunnerKnows' /\ RunnerIsFirst'
  BY <1>2, RestingKnows
<1> QED
  BY <1>1, <1>2, <1>3, <1>4, EasyStep

\* The agent's answer is delivered.
LEMMA AnswersStep ==
  ASSUME CompanionInv, NEW s \in Group, Answers(s)
  PROVE  CompanionInv'
<1>1. /\ runner.at = "waiting" /\ runner.on = s /\ runner' = Resting /\ control' = control
      /\ cut' = cut
      /\ UNCHANGED <<says, prelude, host, reached, briefed, spent, wiped>>
      /\ slot[s].state = "submitted" /\ State(s, "delivered")
  BY DEF Answers, RunnerAt, tales
<1>2. PICK u \in Turn :
        /\ slot' = [slot EXCEPT ![s] = u] /\ u.state = "delivered"
        /\ u.ctx = slot[s].ctx /\ u.fixed = slot[s].fixed /\ u.framed = slot[s].framed
        /\ u.fenced = slot[s].fenced /\ u.doubt = slot[s].doubt
  BY <1>1, StateIsWritten DEF TurnStates, CompanionInv
<1>3. slot' \in [Group -> Turn] /\ slot'[s] = u /\ \A x \in Group \ {s} : slot'[x] = slot[x]
  BY <1>2, TurnIsWritten DEF CompanionInv
<1>4. Softens(s)
  <2>1. ~slot[s].doubt
    BY <1>1 DEF CompanionInv, TurnsAreFramed, Settled, Ended
  <2>2. slot[s].ctx \subseteq spent'
    BY <1>1 DEF CompanionInv, RunnerKnows
  <2> QED
    BY <1>1, <1>2, <1>3, <2>1, <2>2 DEF Softens, Settled, Ended
<1>5. Eases
  BY <1>1, <1>2, <1>4, WrittenEases DEF CompanionInv, CompanionShape
<1>6. CompanionShape'
  BY <1>1, <1>3, RestingShape DEF CompanionInv, CompanionShape, Answers, tales, seat, reign
<1>7. RunnerKnows' /\ RunnerIsFirst'
  BY <1>1, RestingKnows
<1>8. \A x \in Group : slot'[x].framed = slot[x].framed
  BY <1>2, <1>3
<1> QED
  BY <1>1, <1>5, <1>6, <1>7, <1>8, EasyStep

\* The gateway closes.
LEMMA ClosesStep ==
  ASSUME CompanionInv, Closes
  PROVE  CompanionInv'
<1>1. /\ runner' = runner /\ slot' = slot /\ control' = control
      /\ cut' = cut /\ UNCHANGED <<says, prelude, host, reached, briefed, spent, wiped>>
  BY DEF Closes, tales
<1>2. Eases
  BY <1>1, UnwrittenEases DEF CompanionInv, CompanionShape
<1>3. CompanionShape'
  BY <1>1 DEF CompanionInv, CompanionShape, Closes, tales, seat, reign
<1>4. RunnerKnows' /\ RunnerIsFirst'
  BY <1>1, <1>2, EasesRunner
<1> QED
  BY <1>1, <1>2, <1>3, <1>4, EasyStep

\* The next gateway opens.
LEMMA ReopensStep ==
  ASSUME CompanionInv, Reopens
  PROVE  CompanionInv'
<1>1. /\ runner' = runner /\ slot' = slot /\ control' = control
      /\ cut' = cut /\ UNCHANGED <<says, prelude, host, reached, briefed, spent, wiped>>
  BY DEF Reopens, tales
<1>2. Eases
  BY <1>1, UnwrittenEases DEF CompanionInv, CompanionShape
<1>3. CompanionShape'
  <2>1. reigns' \in 0 .. MaxReigns
    BY CompanionAssumption DEF CompanionInv, CompanionShape, Reopens
  <2>2. line' \subseteq Group
    BY DEF Reopens
  <2> QED
    BY <1>1, <2>1, <2>2 DEF CompanionInv, CompanionShape, Reopens, tales, seat
<1>4. RunnerKnows' /\ RunnerIsFirst'
  BY <1>1, <1>2, EasesRunner
<1> QED
  BY <1>1, <1>2, <1>3, <1>4, EasyStep

\* A session is looked for, or made.
LEMMA SeatsStep ==
  ASSUME CompanionInv, NEW s \in Group, Seats(s)
  PROVE  CompanionInv'
<1>1. /\ runner.at = "seating" /\ runner.on = s /\ control' = control
      /\ UNCHANGED <<says, prelude, host, reached, briefed, spent, wiped>>
  BY DEF Seats, RunnerAt
<1>2. slot[s].fixed /\ (slot[s].state = "queued" \/ Settled(slot[s]))
  BY <1>1 DEF CompanionInv, RunnerKnows
<1>3. CASE Retry(s) /\ UNCHANGED <<bond, bonds>>
  <2>1. slot[s].state # "submitting"
    BY <1>2 DEF Settled, Ended
  <2>2. /\ Eases /\ \A x \in Group : slot'[x].framed = slot[x].framed
        /\ line' \subseteq Group /\ runner' = Resting
    BY <1>1, <1>3, <2>1, RetryEases
  <2>3. CompanionShape'
    BY <1>1, <1>3, <2>2, RestingShape DEF CompanionInv, CompanionShape, Seats, reign, Eases
  <2>4. RunnerKnows' /\ RunnerIsFirst'
    BY <2>2, RestingKnows
  <2> QED
    BY <1>1, <2>2, <2>3, <2>4, EasyStep
<1>4. CASE /\ UNCHANGED <<slot, line, cut>> /\ runner'.at \in {"seating", "ready"} /\ runner'.on = s
           /\ runner' \in [at : RunnerPlaces, on : Group, bond : Nat, epoch : Nat]
           /\ bonds' \in Nat /\ bond' \in 0 .. bonds'
  <2>1. Eases
    BY <1>1, <1>4, UnwrittenEases DEF CompanionInv, CompanionShape
  <2>2. CompanionShape'
    BY <1>1, <1>4 DEF CompanionInv, CompanionShape, Seats, reign
  <2>3. RunnerKnows' /\ RunnerIsFirst'
    BY <1>2, <1>4 DEF RunnerKnows, RunnerIsFirst, Settled, Ended
  <2> QED
    BY <1>1, <1>4, <2>1, <2>2, <2>3, EasyStep
<1>5. /\ runner \in [at : RunnerPlaces, on : Group, bond : Nat, epoch : Nat] /\ bonds \in Nat
      /\ bond \in 0 .. bonds
  BY DEF CompanionInv, CompanionShape
<1>6. \/ Retry(s) /\ UNCHANGED <<bond, bonds>>
      \/ Goes("ready") /\ UNCHANGED <<slot, line, cut, bond, bonds>>
      \/ runner' = [runner EXCEPT !.bond = bond] /\ UNCHANGED <<slot, line, cut, bond, bonds>>
      \/ bond' = 0 /\ runner' = [runner EXCEPT !.bond = 0] /\ UNCHANGED <<slot, line, cut, bonds>>
      \/ /\ bonds' = bonds + 1 /\ bond' = bonds + 1
         /\ runner' = [runner EXCEPT !.at = "ready", !.bond = bonds + 1]
         /\ UNCHANGED <<slot, line, cut>>
  BY DEF Seats
<1>7. CASE Goes("ready") /\ UNCHANGED <<slot, line, cut, bond, bonds>>
  BY <1>1, <1>4, <1>5, <1>7 DEF Goes, RunnerPlaces
<1>8. CASE runner' = [runner EXCEPT !.bond = bond] /\ UNCHANGED <<slot, line, cut, bond, bonds>>
  BY <1>1, <1>4, <1>5, <1>8
<1>9. CASE bond' = 0 /\ runner' = [runner EXCEPT !.bond = 0] /\ UNCHANGED <<slot, line, cut, bonds>>
  BY <1>1, <1>4, <1>5, <1>9
<1>10. CASE /\ bonds' = bonds + 1 /\ bond' = bonds + 1
            /\ runner' = [runner EXCEPT !.at = "ready", !.bond = bonds + 1]
            /\ UNCHANGED <<slot, line, cut>>
  <2>1. bonds' \in Nat /\ bond' \in 0 .. bonds'
    BY <1>5, <1>10
  <2>2. runner' \in [at : RunnerPlaces, on : Group, bond : Nat, epoch : Nat]
        /\ runner'.at = "ready" /\ runner'.on = s
    <3>1. bonds + 1 \in Nat
      BY <1>5
    <3> QED
      BY <1>1, <1>5, <1>10, <3>1 DEF RunnerPlaces
  <2> QED
    BY <2>1, <2>2, <1>4, <1>10
<1> QED
  BY <1>3, <1>6, <1>7, <1>8, <1>9, <1>10

\* What an accepted prompt carried is consumed.
LEMMA TellingEases ==
  ASSUME CompanionInv, NEW s \in host, NEW u \in Turn, slot' = [slot EXCEPT ![s] = u],
         u.state = "submitted", slot[s].state \in {"submitting", "submitted"},
         u.ctx = slot[s].ctx, u.fixed = slot[s].fixed, u.framed = slot[s].framed,
         u.fenced = slot[s].fenced, u.doubt = slot[s].doubt,
         UNCHANGED <<says, prelude, host, reached, briefed, cut, wiped>>,
         spent' = spent \cup slot[s].ctx
  PROVE  /\ Eases /\ \A x \in Group : slot'[x].framed = slot[x].framed
         /\ slot'[s].fixed /\ slot'[s].ctx \subseteq spent'
<1>1. s \in Group /\ slot[s] \in Turn
  BY DEF CompanionInv, CompanionShape
<1>2. slot' \in [Group -> Turn] /\ slot'[s] = u /\ \A x \in Group \ {s} : slot'[x] = slot[x]
  BY <1>1, TurnIsWritten DEF CompanionInv
<1>3. slot[s].fixed /\ ~slot[s].doubt
  BY <1>1 DEF CompanionInv, TurnsAreFramed, Settled, Ended
<1>4. Softens(s)
  BY <1>1, <1>2, <1>3 DEF Softens, Settled, Ended
<1>5. \A x \in Group : Softens(x)
  BY <1>2, <1>4, UnwrittenSoftens DEF CompanionInv
<1>6. /\ spent \subseteq spent' /\ spent' \subseteq Group \cup {History}
      /\ \A c \in spent' \cap Group : slot[c].state = "context_only"
  BY <1>1 DEF CompanionInv, CompanionShape, ContextIsKept, Turn
<1>7. History \in spent' => History \in spent \/ briefed
  BY DEF CompanionInv, Briefing
<1>8. cut \subseteq Group
  BY DEF CompanionInv, CompanionShape
<1>9. Eases
  BY <1>2, <1>5, <1>6, <1>7, <1>8 DEF Eases
<1> QED
  BY <1>2, <1>3, <1>9

\* The request returned, or the host was found to have the prompt.
LEMMA SubmittedStep ==
  ASSUME CompanionInv, NEW s \in Group, Submitted(s)
  PROVE  CompanionInv'
<1>1. /\ runner.at = "prompting" /\ runner.on = s /\ s \in host /\ control' = control
      /\ UNCHANGED <<says, prelude, host, reached, briefed, cut, wiped>>
  BY DEF Submitted, RunnerAt, tales
<1>2. CASE slot[s].state = "submitting"
  <2>1. State(s, "submitted") /\ spent' = spent \cup slot[s].ctx /\ Goes("waiting")
    BY <1>2 DEF Submitted
  <2>2. PICK u \in Turn :
        /\ slot' = [slot EXCEPT ![s] = u] /\ u.state = "submitted"
        /\ u.ctx = slot[s].ctx /\ u.fixed = slot[s].fixed /\ u.framed = slot[s].framed
        /\ u.fenced = slot[s].fenced /\ u.doubt = slot[s].doubt
    BY <2>1, StateIsWritten DEF TurnStates, CompanionInv
  <2>3. /\ Eases /\ \A x \in Group : slot'[x].framed = slot[x].framed
        /\ slot'[s].fixed /\ slot'[s].ctx \subseteq spent'
    BY <1>1, <1>2, <2>1, <2>2, TellingEases
  <2>4. /\ runner' \in [at : RunnerPlaces, on : Group, bond : Nat, epoch : Nat]
        /\ runner'.at = "waiting" /\ runner'.on = s
    BY <1>1, <2>1 DEF Goes, RunnerPlaces, CompanionInv, CompanionShape
  <2>5. CompanionShape'
    BY <1>1, <2>3, <2>4 DEF CompanionInv, CompanionShape, Submitted, tales, seat, reign, Eases
  <2>6. RunnerKnows' /\ RunnerIsFirst'
    BY <2>3, <2>4 DEF RunnerKnows, RunnerIsFirst
  <2> QED
    BY <1>1, <2>3, <2>5, <2>6, EasyStep
<1>3. CASE slot[s].state # "submitting"
  <2>1. runner' = Resting /\ UNCHANGED <<slot, spent>>
    BY <1>3 DEF Submitted
  <2>2. Eases
    BY <1>1, <2>1, UnwrittenEases DEF CompanionInv, CompanionShape
  <2>3. CompanionShape'
    BY <1>1, <2>1, RestingShape DEF CompanionInv, CompanionShape, Submitted, tales, seat, reign
  <2>4. RunnerKnows' /\ RunnerIsFirst'
    BY <2>1, RestingKnows
  <2> QED
    BY <1>1, <2>1, <2>2, <2>3, <2>4, EasyStep
<1> QED
  BY <1>2, <1>3

\* A turn that may have been submitted before a restart is looked for at the host.
LEMMA ResumesStep ==
  ASSUME CompanionInv, NEW s \in Group, Resumes(s)
  PROVE  CompanionInv'
<1>1. /\ runner.at = "asking" /\ runner.on = s /\ control' = control
      /\ UNCHANGED <<says, prelude, host, reached, briefed, wiped>>
  BY DEF Resumes, RunnerAt
<1>2. CASE /\ slot[s].state = "submitted" \/ (slot[s].state = "submitting" /\ s \in host)
           /\ State(s, "submitted") /\ spent' = spent \cup slot[s].ctx /\ Goes("waiting")
           /\ UNCHANGED cut
  <2>1. s \in host
    BY <1>2 DEF CompanionInv, TurnsAreFramed
  <2>2. PICK u \in Turn :
        /\ slot' = [slot EXCEPT ![s] = u] /\ u.state = "submitted"
        /\ u.ctx = slot[s].ctx /\ u.fixed = slot[s].fixed /\ u.framed = slot[s].framed
        /\ u.fenced = slot[s].fenced /\ u.doubt = slot[s].doubt
    BY <1>2, StateIsWritten DEF TurnStates, CompanionInv
  <2>3. /\ Eases /\ \A x \in Group : slot'[x].framed = slot[x].framed
        /\ slot'[s].fixed /\ slot'[s].ctx \subseteq spent'
    BY <1>1, <1>2, <2>1, <2>2, TellingEases
  <2>4. /\ runner' \in [at : RunnerPlaces, on : Group, bond : Nat, epoch : Nat]
        /\ runner'.at = "waiting" /\ runner'.on = s
    BY <1>1, <1>2 DEF Goes, RunnerPlaces, CompanionInv, CompanionShape
  <2>5. CompanionShape'
    BY <1>1, <2>3, <2>4 DEF CompanionInv, CompanionShape, Resumes, seat, reign, Eases
  <2>6. RunnerKnows' /\ RunnerIsFirst'
    BY <2>3, <2>4 DEF RunnerKnows, RunnerIsFirst
  <2> QED
    BY <1>1, <2>3, <2>5, <2>6, EasyStep
<1>3. CASE /\ slot[s].state = "submitting" /\ State(s, "paused") /\ runner' = Resting
           /\ cut' = (IF s \in host THEN cut \cup Carries(s) ELSE cut) /\ UNCHANGED spent
  <2>1. PICK u \in Turn :
        /\ slot' = [slot EXCEPT ![s] = u] /\ u.state = "paused"
        /\ u.ctx = slot[s].ctx /\ u.fixed = slot[s].fixed /\ u.framed = slot[s].framed
        /\ u.fenced = slot[s].fenced /\ u.doubt = slot[s].doubt
    BY <1>3, StateIsWritten DEF TurnStates, CompanionInv
  <2>2. slot' \in [Group -> Turn] /\ slot'[s] = u /\ \A x \in Group \ {s} : slot'[x] = slot[x]
    BY <2>1, TurnIsWritten DEF CompanionInv
  <2>3. slot[s].fixed /\ ~slot[s].doubt /\ cut \subseteq cut' /\ cut' \subseteq Group
    BY <1>3 DEF CompanionInv, CompanionShape, TurnsAreFramed, Settled, Ended, Carries
  <2>4. Softens(s)
    BY <1>3, <2>1, <2>2, <2>3 DEF Softens, Settled, Ended
  <2>5. Eases
    BY <1>1, <1>3, <2>1, <2>3, <2>4, WrittenEases
  <2>6. CompanionShape'
    BY <1>1, <1>3, <2>2, <2>3, RestingShape DEF CompanionInv, CompanionShape, Resumes, seat, reign
  <2>7. RunnerKnows' /\ RunnerIsFirst'
    BY <1>3, RestingKnows
  <2>8. \A x \in Group : slot'[x].framed = slot[x].framed
    BY <2>1, <2>2
  <2> QED
    BY <1>1, <1>3, <2>5, <2>6, <2>7, <2>8, EasyStep
<1>4. CASE /\ slot[s].state \in {"paused", "interrupted"} /\ s \in host
           /\ spent' = spent \cup slot[s].ctx /\ Goes("waiting") /\ UNCHANGED <<slot, cut>>
  <2>1. slot[s] \in Turn /\ slot[s].fixed
    BY <1>4 DEF CompanionInv, CompanionShape, TurnsAreFramed
  <2>2. /\ spent \subseteq spent' /\ spent' \subseteq Group \cup {History}
        /\ \A c \in spent' \cap Group : slot[c].state = "context_only"
    BY <1>4, <2>1 DEF CompanionInv, CompanionShape, ContextIsKept, Turn
  <2>3. History \in spent' => History \in spent \/ briefed
    BY <1>4 DEF CompanionInv, Briefing
  <2>4. \A x \in Group : Softens(x)
    BY <1>4, UnwrittenSoftens DEF CompanionInv
  <2>5. slot' \in [Group -> Turn] /\ cut \subseteq Group
    BY <1>4 DEF CompanionInv, CompanionShape
  <2>6. Eases
    BY <1>1, <1>4, <2>2, <2>3, <2>4, <2>5 DEF Eases
  <2>7. /\ runner' \in [at : RunnerPlaces, on : Group, bond : Nat, epoch : Nat]
        /\ runner'.at = "waiting" /\ runner'.on = s
    BY <1>1, <1>4 DEF Goes, RunnerPlaces, CompanionInv, CompanionShape
  <2>8. CompanionShape'
    BY <1>1, <1>4, <2>6, <2>7 DEF CompanionInv, CompanionShape, Resumes, seat, reign, Eases
  <2>9. RunnerKnows' /\ RunnerIsFirst'
    BY <1>4, <2>1, <2>7 DEF RunnerKnows, RunnerIsFirst
  <2> QED
    BY <1>1, <1>4, <2>6, <2>8, <2>9, EasyStep
<1> QED
  BY <1>2, <1>3, <1>4 DEF Resumes

\* The checkpoint before the prompt.
LEMMA SubmitsStep ==
  ASSUME CompanionInv, NEW s \in Group, Submits(s)
  PROVE  CompanionInv'
<1>1. /\ runner.at = "ready" /\ runner.on = s /\ control' = control /\ slot[s].state = "queued"
      /\ UNCHANGED <<says, prelude, host, reached, briefed, spent, cut, wiped>> /\ Goes("prompting")
      /\ slot' = [slot EXCEPT ![s].state = "submitting", ![s].seated = TRUE]
  BY DEF Submits, RunnerAt, tales
<1>2. slot[s] \in Turn /\ slot[s].fixed
  BY <1>1 DEF CompanionInv, CompanionShape, RunnerKnows
<1>3. PICK u \in Turn : /\ slot' = [slot EXCEPT ![s] = u]
                        /\ u.ctx = slot[s].ctx /\ u.fixed = slot[s].fixed
                        /\ u.framed = slot[s].framed
                        /\ u.state = "submitting" /\ u.doubt = slot[s].doubt
  <2> [slot[s] EXCEPT !.state = "submitting", !.seated = TRUE] \in Turn
    BY <1>2 DEF Turn, TurnStates
  <2> WITNESS [slot[s] EXCEPT !.state = "submitting", !.seated = TRUE] \in Turn
  <2> QED
    BY <1>1, <1>2 DEF Turn
<1>4. slot' \in [Group -> Turn] /\ slot'[s] = u /\ \A x \in Group \ {s} : slot'[x] = slot[x]
  BY <1>3, TurnIsWritten DEF CompanionInv
<1>5. ~slot[s].doubt
  BY <1>1 DEF CompanionInv, TurnsAreFramed, Settled, Ended
<1>6. Softens(s)
  BY <1>1, <1>2, <1>3, <1>4, <1>5 DEF Softens, Settled, Ended
<1>7. Eases
  BY <1>1, <1>3, <1>6, WrittenEases DEF CompanionInv, CompanionShape
<1>8. /\ runner' \in [at : RunnerPlaces, on : Group, bond : Nat, epoch : Nat]
      /\ runner'.at = "prompting" /\ runner'.on = s
  BY <1>1 DEF Goes, RunnerPlaces, CompanionInv, CompanionShape
<1>9. CompanionShape'
  BY <1>1, <1>4, <1>8 DEF CompanionInv, CompanionShape, Submits, tales, seat, reign
<1>10. RunnerKnows' /\ RunnerIsFirst'
  BY <1>2, <1>3, <1>4, <1>8 DEF RunnerKnows, RunnerIsFirst
<1>11. \A x \in Group : slot'[x].framed = slot[x].framed
  BY <1>3, <1>4
<1> QED
  BY <1>1, <1>7, <1>9, <1>10, <1>11, EasyStep

\* The request failed.
LEMMA DoubtsStep ==
  ASSUME CompanionInv, NEW s \in Group, Doubts(s)
  PROVE  CompanionInv'
<1>1. /\ runner.at = "prompting" /\ runner.on = s /\ control' = control /\ runner' = Resting
      /\ UNCHANGED <<says, prelude, host, reached, briefed, spent, wiped>>
      /\ cut' = (IF s \in host THEN cut \cup Carries(s) ELSE cut)
  BY DEF Doubts, RunnerAt
<1>2. slot[s] \in Turn /\ slot[s].fixed /\ cut \subseteq cut' /\ cut' \subseteq Group
  BY <1>1 DEF CompanionInv, CompanionShape, RunnerKnows, Carries
<1>3. ASSUME slot[s].state = "submitting"
      PROVE  Eases /\ \A x \in Group : slot'[x].framed = slot[x].framed
  <2>1. PICK f \in BOOLEAN :
          slot' = [slot EXCEPT ![s].state = "paused", ![s].doubt = TRUE, ![s].fenced = f]
    BY <1>3 DEF Doubts
  <2>2. PICK u \in Turn : /\ slot' = [slot EXCEPT ![s] = u]
                          /\ u.ctx = slot[s].ctx /\ u.fixed = slot[s].fixed
                          /\ u.framed = slot[s].framed
                          /\ u.state = "paused"
    <3> [slot[s] EXCEPT !.state = "paused", !.doubt = TRUE, !.fenced = f] \in Turn
      BY <1>2 DEF Turn, TurnStates
    <3> WITNESS [slot[s] EXCEPT !.state = "paused", !.doubt = TRUE, !.fenced = f] \in Turn
    <3> QED
      BY <1>2, <2>1 DEF Turn
  <2>3. slot' \in [Group -> Turn] /\ slot'[s] = u /\ \A x \in Group \ {s} : slot'[x] = slot[x]
    BY <2>2, TurnIsWritten DEF CompanionInv
  <2>4. Softens(s)
    BY <1>1, <1>2, <1>3, <2>2, <2>3 DEF Softens, Settled, Ended
  <2>5. Eases /\ \A x \in Group : slot'[x].framed = slot[x].framed
    BY <1>1, <1>2, <2>2, <2>3, <2>4, WrittenEases
  <2> QED
    BY <2>5
<1>4. ASSUME slot[s].state # "submitting"
      PROVE  Eases /\ \A x \in Group : slot'[x].framed = slot[x].framed
  <2>1. slot' = slot
    BY <1>4 DEF Doubts
  <2> QED
    BY <1>1, <1>2, <2>1, UnwrittenEases
<1>5. Eases /\ \A x \in Group : slot'[x].framed = slot[x].framed
  BY <1>3, <1>4
<1>6. CompanionShape'
  BY <1>1, <1>2, <1>5, RestingShape DEF CompanionInv, CompanionShape, Doubts, seat, reign, Eases
<1>7. RunnerKnows' /\ RunnerIsFirst'
  BY <1>1, RestingKnows
<1> QED
  BY <1>1, <1>5, <1>6, <1>7, EasyStep

\* The history is loaded before any turn is prepared.
LEMMA LoadsStep ==
  ASSUME CompanionInv, NEW s \in Group, Loads(s)
  PROVE  CompanionInv'
<1>1. /\ runner.at = "loading" /\ runner.on = s /\ control' = control /\ slot' = slot /\ cut' = cut
      /\ UNCHANGED <<says, spent, host, reached, briefed, wiped>> /\ Goes("policy")
  BY DEF Loads, RunnerAt, tales
<1>2. PICK later \in SUBSET Later : prelude' = [by |-> s, of |-> {Trigger} \cup later]
  BY DEF Loads
<1>3. prelude' \in [by : Group \cup {History}, of : SUBSET Group] /\ Seeded'
  BY <1>2, CompanionAssumption DEF Later, Group, Trigger, Seeded
<1>4. /\ runner' \in [at : RunnerPlaces, on : Group, bond : Nat, epoch : Nat]
      /\ runner'.at = "policy" /\ runner'.on = s
  BY <1>1 DEF Goes, RunnerPlaces, CompanionInv, CompanionShape
<1>5. ~Seeded /\ ~slot[s].framed
  BY <1>1 DEF CompanionInv, RunnerKnows
<1>6. /\ \A x \in Group : ~slot[x].fixed /\ ~slot[x].framed
      /\ host = {} /\ wiped.texts = {}
      /\ \A a \in Executors : control[a].at = "idle"
  BY <1>5 DEF CompanionInv, CompanionShape, TurnsAreFramed, ControlKnows, Obeyed, Cleared
<1>7. CompanionShape'
  BY <1>1, <1>3, <1>4 DEF CompanionInv, CompanionShape, Loads, tales, seat, reign
<1>8. TurnsAreFramed'
  BY <1>1, <1>3, <1>6 DEF CompanionInv, TurnsAreFramed
<1>9. ContextIsKept'
  BY <1>1 DEF CompanionInv, ContextIsKept, Addresses
<1>10. RunnerKnows' /\ RunnerIsFirst'
  BY <1>1, <1>3, <1>4, <1>6 DEF RunnerKnows, RunnerIsFirst
<1>11. ControlKnows'
  BY <1>1, <1>6 DEF ControlKnows, Obeyed, Executors
<1>12. ToldApart' /\ ToldIsSpent'
  BY <1>1, <1>6 DEF ToldApart, Tells, ToldIsSpent
<1>13. Told'
  BY <1>1, <1>6 DEF CompanionInv, Told
<1>14. Briefing' /\ Cleared'
  BY <1>1, <1>6 DEF CompanionInv, Briefing, Cleared
<1> QED
  BY <1>7, <1>8, <1>9, <1>10, <1>11, <1>12, <1>13, <1>14 DEF CompanionInv

\* The host takes a prompt.
LEMMA TakesStep ==
  ASSUME CompanionInv, NEW s \in Group, Takes(s)
  PROVE  CompanionInv'
<1>1. /\ runner.at = "prompting" /\ runner.on = s /\ s \notin host /\ host' = host \cup {s}
      /\ UNCHANGED <<says, slot, prelude, spent, seat, line, runner, control, reign, cut, wiped>>
      /\ reached' = [x \in Group |->
           IF x \in Carries(s) /\ reached[x] < 2 THEN reached[x] + 1 ELSE reached[x]]
      /\ briefed' = (briefed \/ History \in slot[s].ctx)
  BY DEF Takes, RunnerAt
<1>2. /\ slot[s].fixed
      /\ slot[s].state = "submitting" \/ (Settled(slot[s]) /\ Carries(s) \subseteq cut)
  BY <1>1 DEF CompanionInv, RunnerKnows
<1>3. \A x \in Group : Carries(x)' = Carries(x)
  BY <1>1 DEF Carries
<1>4. CompanionShape'
  <2>1. reached' \in [Group -> 0 .. 2] /\ briefed' \in BOOLEAN
    BY <1>1 DEF CompanionInv, CompanionShape
  <2> QED
    BY <1>1, <2>1 DEF CompanionInv, CompanionShape, seat, reign
<1>5. TurnsAreFramed'
  BY <1>1, <1>2 DEF CompanionInv, TurnsAreFramed, Seeded, Settled, Ended, Alive
<1>6. ContextIsKept'
  BY <1>1 DEF CompanionInv, ContextIsKept, Addresses
<1>7. RunnerKnows' /\ RunnerIsFirst'
  BY <1>1, <1>2, <1>3 DEF RunnerKnows, RunnerIsFirst, Settled, Ended
<1>8. ControlKnows'
  BY <1>1 DEF CompanionInv, ControlKnows, Obeyed, Command, Seeded, Settled, Ended
<1>9. ToldApart'
  <2> SUFFICES ASSUME NEW x \in Group, NEW y \in Group, x # y, (Tells(x))', (Tells(y))'
               PROVE  Carries(x)' \cap Carries(y)' \subseteq cut'
    BY DEF ToldApart
  <2>1. \A z \in Group : (Tells(z))' => Tells(z) \/ (z = s /\ Carries(s) \subseteq cut)
    BY <1>1, <1>2 DEF Tells, Alive
  <2> QED
    BY <1>1, <1>3, <2>1 DEF CompanionInv, ToldApart
<1>10. ToldIsSpent'
  <2>1. host \subseteq Group
    BY DEF CompanionInv, CompanionShape
  <2> QED
    BY <1>1, <1>2, <1>3, <2>1 DEF CompanionInv, ToldIsSpent
<1>11. Told'
  <2> SUFFICES ASSUME NEW x \in Group \ cut
               PROVE  reached'[x] <= 1 /\ (reached'[x] = 1 => \E y \in host' : x \in Carries(y)')
    BY <1>1 DEF Told
  <2>1. /\ reached[x] <= 1 /\ reached[x] \in 0 .. 2
        /\ reached[x] = 1 => \E y \in host : x \in Carries(y)
    BY DEF CompanionInv, CompanionShape, Told
  <2>2. host \subseteq Group
    BY DEF CompanionInv, CompanionShape
  <2>3. CASE x \in Carries(s)
    <3>1. slot[s].state = "submitting"
      BY <1>2, <2>3
    <3>2. Tells(s) /\ \A y \in host : Tells(y)
      BY <3>1, <1>2 DEF Tells, Alive, CompanionInv, CompanionShape, TurnsAreFramed
    <3>3. \A y \in host : x \notin Carries(y)
      BY <1>1, <2>2, <2>3, <3>2 DEF CompanionInv, ToldApart
    <3>4. reached'[x] = 1
      BY <1>1, <2>1, <2>3, <3>3
    <3> QED
      BY <1>1, <1>3, <2>3, <3>4
  <2>4. CASE x \notin Carries(s)
    <3>1. reached'[x] = reached[x]
      BY <1>1, <2>4
    <3> QED
      BY <1>1, <1>3, <2>1, <2>2, <3>1
  <2> QED
    BY <2>3, <2>4
<1>12. Briefing'
  <2>1. briefed' \/ wiped'.texts # {}
    BY <1>1, <1>2 DEF CompanionInv, Briefing
  <2> QED
    BY <1>1, <2>1 DEF CompanionInv, Briefing
<1>13. Cleared'
  BY <1>1 DEF CompanionInv, Cleared, Seeded, Ended
<1> QED
  BY <1>4, <1>5, <1>6, <1>7, <1>8, <1>9, <1>10, <1>11, <1>12, <1>13 DEF CompanionInv

\* A context that is chosen now has nothing in common with a prompt whose own context is
\* consumed.
LEMMA FreshIsApart ==
  ASSUME CompanionInv, NEW s \in Group, NEW t \in Group, s # t, Seeded, prelude' = prelude,
         slot[s].state # "context_only", slot'[s].ctx = Context,
         slot[t].fixed, slot[t].ctx \subseteq spent
  PROVE  Carries(t) \cap Carries(s)' = {}
<1>2. History \notin Group
  BY CompanionAssumption DEF Group
<1>5. slot[t] \in Turn /\ slot[t].ctx \subseteq Group \cup {History}
  BY DEF CompanionInv, CompanionShape, Turn
<1>1. /\ s \notin slot[t].ctx /\ t \notin Context
      /\ slot[t].ctx \cap Context = {}
      /\ slot[t].ctx \subseteq Group \cup {History} /\ Context \subseteq Group \cup {History}
  <2>1. s \notin slot[t].ctx
    BY DEF CompanionInv, ContextIsKept
  <2>2. t \notin Context
    BY <1>2 DEF CompanionInv, ContextIsKept, Context
  <2>3. slot[t].ctx \cap Context = {} /\ Context \subseteq Group \cup {History}
    BY DEF Context
  <2> QED
    BY <1>5, <2>1, <2>2, <2>3
<1>3. Carries(t) = (({t} \cup (slot[t].ctx \cap Group)) \ prelude.of)
              \cup (IF History \in slot[t].ctx THEN prelude.of ELSE {})
  BY DEF Carries
<1>4. Carries(s)' = (({s} \cup (Context \cap Group)) \ prelude.of)
              \cup (IF History \in Context THEN prelude.of ELSE {})
  BY DEF Carries
<1> HIDE DEF Context
<1> QED
  BY <1>1, <1>2, <1>3, <1>4

\* The runner chooses the context of its turn.
LEMMA IncludesStep ==
  ASSUME CompanionInv, CompanionShape', NEW s \in Group, runner.on = s,
         runner.at \in {"asking", "policy"}, Seeded,
         NEW u \in Turn, slot' = [slot EXCEPT ![s] = u],
         u.fixed, u.framed, u.state = "queued", u.doubt = slot[s].doubt,
         u.ctx = IF slot[s].fixed THEN slot[s].ctx ELSE Context,
         slot[s].state \in {"hydrating", "queued"}, slot[s].framed \/ ~Command(s),
         cut' = cut \cup UNION {Carries(x) :
           x \in {x \in Group : x > s /\ slot[x].fixed /\ Pending(slot[x])}},
         runner'.at = "seating", runner'.on = s,
         UNCHANGED <<says, prelude, host, reached, briefed, spent, wiped, control>>
  PROVE  CompanionInv'
<1>1. slot' \in [Group -> Turn] /\ slot'[s] = u /\ \A x \in Group \ {s} : slot'[x] = slot[x]
  BY TurnIsWritten DEF CompanionInv
<1>2. /\ ~slot[s].doubt /\ ~Ended(slot[s]) /\ ~Settled(slot[s]) /\ ~Ended(u) /\ ~Settled(u)
      /\ Pending(slot[s]) /\ s \notin wiped.texts
  BY DEF CompanionInv, TurnsAreFramed, Cleared, Settled, Ended, Pending
<1>3. Context \subseteq Group \cup {History}
      /\ \A c \in Context \cap Group : c \notin spent /\ slot[c].state = "context_only"
  BY CompanionAssumption DEF Context, Group
<1>4. \A x \in Group : slot[x].fixed =>
         slot'[x].fixed /\ slot'[x].ctx = slot[x].ctx /\ Carries(x)' = Carries(x)
  BY <1>1 DEF Carries
<1>5. TurnsAreFramed'
  BY <1>1, <1>2 DEF CompanionInv, TurnsAreFramed, Seeded, Settled, Ended, Alive
<1>6. ContextIsKept'
  <2>1. \A c \in Group : slot[c].state = "context_only" <=> slot'[c].state = "context_only"
    BY <1>1
  <2>2. ASSUME NEW x \in Group, NEW c \in slot'[x].ctx \cap Group
        PROVE  slot[c].state = "context_only"
    BY <1>1, <1>3, <2>2 DEF CompanionInv, ContextIsKept
  <2> QED
    BY <1>1, <2>1, <2>2 DEF CompanionInv, ContextIsKept, Addresses
<1>7. RunnerKnows' /\ RunnerIsFirst'
  BY <1>1 DEF RunnerKnows, RunnerIsFirst
<1>8. ControlKnows'
  <2>1. ASSUME NEW a \in Executors, control[a].at # "idle"
        PROVE  control[a].on # s
    BY <1>2, <2>1 DEF CompanionInv, ControlKnows, Obeyed
  <2>2. ASSUME NEW a \in Executors, control[a].at # "idle"
        PROVE  Obeyed(a)'
    <3>1. /\ control[a].on \in Group /\ control[a].hit \in Group /\ control[a].met \subseteq Group
      BY DEF CompanionInv, CompanionShape
    <3>2. Obeyed(a) /\ control[a].on # s /\ slot'[control[a].on] = slot[control[a].on]
      BY <1>1, <2>1, <2>2, <3>1 DEF CompanionInv, ControlKnows
    <3>3. ~(runner.at = "control")
      OBVIOUS
    <3>4. control[a].at = "fencing" => slot'[control[a].hit] = slot[control[a].hit]
      BY <1>1, <1>2, <2>2, <3>1, <3>2 DEF Obeyed
    <3>5. \A x \in Group : Ended(slot'[x]) <=> Ended(slot[x])
      BY <1>1, <1>2
    <3> QED
      BY <2>2, <3>1, <3>2, <3>3, <3>4, <3>5 DEF Obeyed, Command, Seeded, Settled, Ended
  <2>3. control[Runner].at = "idle"
    BY DEF CompanionInv, ControlKnows
  <2> QED
    BY <2>2, <2>3 DEF ControlKnows, Obeyed
<1>9. ToldApart'
  <2>1. ASSUME NEW t \in Group, t # s, (Tells(t))'
        PROVE  Carries(t)' \cap Carries(s)' \subseteq cut'
    <3>1. Tells(t) /\ Carries(t)' = Carries(t)
      BY <1>1, <2>1, <1>4 DEF Tells, Alive
    <3>2. CASE Alive(slot[t])
      <4>1. s < t
        BY <2>1, <3>1, <3>2 DEF CompanionInv, RunnerIsFirst, Tells
      <4>2. t > s /\ Pending(slot[t]) /\ slot[t].fixed
        BY <3>1, <3>2, <4>1 DEF Alive, Pending, Tells
      <4>3. Carries(t) \subseteq cut'
        BY <4>2
      <4> QED
        BY <4>3, <3>1
    <3>3. CASE ~Alive(slot[t])
      <4>1. t \in host /\ slot[t].fixed
        BY <3>1, <3>3 DEF Tells
      <4>2. slot[t].ctx \subseteq spent \/ Carries(t) \subseteq cut
        BY <4>1, <3>3 DEF CompanionInv, ToldIsSpent, Alive
      <4>3. CASE slot[s].fixed
        <5>1. Tells(s) /\ Carries(s)' = Carries(s)
          BY <4>3, <1>4 DEF Tells, Alive, CompanionInv, TurnsAreFramed
        <5> QED
          BY <5>1, <3>1, <2>1 DEF CompanionInv, ToldApart
      <4>4. CASE ~slot[s].fixed /\ slot[t].ctx \subseteq spent
        <5>1. slot'[s].ctx = Context
          BY <1>1, <4>4
        <5>2. Carries(t) \cap Carries(s)' = {}
          BY <5>1, <4>1, <4>4, <2>1, FreshIsApart
        <5> QED
          BY <5>2, <3>1
      <4> QED
        BY <4>2, <4>3, <4>4, <3>1
    <3> QED
      BY <3>2, <3>3
  <2>2. ASSUME NEW x \in Group \ {s}, NEW y \in Group \ {s}, x # y, (Tells(x))', (Tells(y))'
        PROVE  Carries(x)' \cap Carries(y)' \subseteq cut'
    <3>1. Tells(x) /\ Tells(y) /\ Carries(x)' = Carries(x) /\ Carries(y)' = Carries(y)
      BY <1>1, <2>2, <1>4 DEF Tells, Alive
    <3> QED
      BY <3>1, <2>2 DEF CompanionInv, ToldApart
  <2> QED
    BY <2>1, <2>2 DEF ToldApart
<1>10. ToldIsSpent'
  <2> SUFFICES ASSUME NEW x \in host
               PROVE  \/ slot'[x].ctx \subseteq spent \/ Carries(x)' \subseteq cut'
                      \/ slot'[x].state \in {"submitting", "submitted"}
    BY DEF ToldIsSpent
  <2>1. x \in Group /\ slot[x].fixed
    BY DEF CompanionInv, CompanionShape, TurnsAreFramed
  <2>2. slot'[x].state = slot[x].state \/ x = s
    BY <1>1, <2>1
  <2> QED
    BY <1>4, <2>1, <2>2 DEF CompanionInv, ToldIsSpent
<1>11. Told'
  <2>1. host \subseteq Group /\ \A x \in host : slot[x].fixed
    BY DEF CompanionInv, CompanionShape, TurnsAreFramed
  <2> QED
    BY <2>1, <1>4 DEF CompanionInv, Told
<1>12. Briefing'
  <2>1. \A x \in host : x \in Group /\ slot[x].fixed
    BY DEF CompanionInv, CompanionShape, TurnsAreFramed
  <2>2. \A x \in Group : slot'[x].fixed => History \in slot'[x].ctx \cup spent
    BY <1>1 DEF CompanionInv, Briefing, Context
  <2>3. \A x \in host : History \in slot'[x].ctx => briefed
    BY <1>4, <2>1 DEF CompanionInv, Briefing
  <2> QED
    BY <2>2, <2>3 DEF CompanionInv, Briefing
<1>13. Cleared'
  <2>1. \A x \in wiped.texts : x \in Group /\ slot'[x] = slot[x]
    BY <1>1, <1>2 DEF CompanionInv, CompanionShape
  <2>2. ASSUME wiped.texts # {}, NEW r \in Group \ (wiped.late \cup wiped.texts), slot'[r].fixed
        PROVE  slot'[r].ctx \cap (wiped.texts \cup {History}) = {}
    <3>1. CASE slot[r].fixed
      BY <3>1, <1>4, <2>2 DEF CompanionInv, Cleared
    <3>2. CASE ~slot[r].fixed
      <4>1. r = s /\ slot'[r].ctx = Context
        BY <3>2, <1>1, <2>2
      <4>2. History \notin Context
        BY <2>2, CompanionAssumption DEF Context, CompanionInv, Cleared, Group
      <4>3. \A x \in wiped.texts : x \notin Context
        BY <1>3, <2>1 DEF CompanionInv, Cleared
      <4> QED
        BY <4>1, <4>2, <4>3
    <3> QED
      BY <3>1, <3>2
  <2>3. Seeded'
    BY DEF Seeded
  <2> QED
    BY <2>1, <2>2, <2>3 DEF CompanionInv, Cleared, Ended
<1> QED
  BY <1>5, <1>6, <1>7, <1>8, <1>9, <1>10, <1>11, <1>12, <1>13 DEF CompanionInv

\* The process ends.
LEMMA DownStep ==
  ASSUME CompanionInv, Down
  PROVE  CompanionInv'
<1>1. /\ runner' = Resting /\ control' = [a \in Handlers \cup {Runner} |-> Calm] /\ epoch' = 0
      /\ cut' = cut /\ UNCHANGED <<says, prelude, host, reached, briefed, spent, wiped>>
  BY DEF Down, tales
<1>2. Eases
  <2>1. CASE slot' = slot
    BY <1>1, <2>1, UnwrittenEases DEF CompanionInv, CompanionShape
  <2>2. CASE /\ runner.on \in host /\ slot[runner.on].state = "submitting"
             /\ State(runner.on, "submitted")
    <3> DEFINE s == runner.on
    <3>1. s \in Group
      BY DEF CompanionInv, CompanionShape
    <3>2. PICK u \in Turn :
            /\ slot' = [slot EXCEPT ![s] = u] /\ u.state = "submitted"
            /\ u.ctx = slot[s].ctx /\ u.fixed = slot[s].fixed /\ u.framed = slot[s].framed
            /\ u.fenced = slot[s].fenced /\ u.doubt = slot[s].doubt
      BY <2>2, <3>1, StateIsWritten DEF TurnStates, CompanionInv
    <3>3. slot'[s] = u
      BY <3>1, <3>2, TurnIsWritten DEF CompanionInv
    <3>4. ~slot[s].doubt
      BY <2>2, <3>1 DEF CompanionInv, TurnsAreFramed, Settled, Ended
    <3> HIDE DEF s
    <3>5. Softens(s)
      BY <2>2, <3>2, <3>3, <3>4 DEF Softens, Settled, Ended, s
    <3> QED
      BY <1>1, <3>1, <3>2, <3>5, WrittenEases DEF CompanionInv, CompanionShape
  <2> QED
    BY <2>1, <2>2 DEF Down
<1>3. CompanionShape'
  <2>1. Calm \in [at : {"idle", "fencing", "replying"}, on : Group, hit : Group,
                  todo : SUBSET Group, met : SUBSET Group, shaky : BOOLEAN]
    BY CompanionAssumption DEF Calm, Trigger, Group
  <2>2. control' \in [Executors -> [at : {"idle", "fencing", "replying"}, on : Group, hit : Group,
                                    todo : SUBSET Group, met : SUBSET Group, shaky : BOOLEAN]]
    BY <1>1, <2>1 DEF Executors
  <2> QED
    BY <1>1, <1>2, <2>2, RestingShape DEF CompanionInv, CompanionShape, Down, Eases
<1>4. RunnerKnows' /\ RunnerIsFirst'
  BY <1>1, RestingKnows
<1>5. ControlKnows'
  <2>1. \A a \in Executors : control'[a].at = "idle"
    BY <1>1 DEF Executors, Calm
  <2> QED
    BY <2>1 DEF ControlKnows, Obeyed, Executors
<1>6. TextsInv' /\ Cleared'
  BY <1>1, <1>2, EasesTexts, EasesCleared
<1> QED
  BY <1>3, <1>4, <1>5, <1>6 DEF CompanionInv, TextsInv

\* The runner begins a turn.
LEMMA PicksStep ==
  ASSUME CompanionInv, NEW s \in Group, Picks(s)
  PROVE  CompanionInv'
<1>1. /\ runner.at = "asking" /\ runner.on = s /\ control' = control
      /\ UNCHANGED <<says, prelude, host, reached, briefed, spent, wiped>>
      /\ slot[s].state \in {"hydrating", "queued"}
  BY DEF Picks, RunnerAt
<1>2. /\ slot[s] \in Turn /\ runner \in [at : RunnerPlaces, on : Group, bond : Nat, epoch : Nat]
      /\ ~slot[s].doubt
  BY <1>1 DEF CompanionInv, CompanionShape, TurnsAreFramed, Settled, Ended
<1>3. CASE slot[s].framed /\ Includes(s, slot)
  <2> DEFINE c == IF slot[s].fixed THEN slot[s].ctx ELSE Context
             u == [slot[s] EXCEPT !.ctx = c, !.fixed = TRUE]
  <2>1. c \subseteq Group \cup {History}
    BY <1>2 DEF Context, Turn
  <2> HIDE DEF c
  <2>2. /\ u \in Turn /\ u.fixed /\ u.framed /\ u.state = slot[s].state /\ u.doubt = slot[s].doubt
        /\ u.ctx = c
    BY <1>2, <1>3, <2>1 DEF Turn
  <2>3. slot' = [slot EXCEPT ![s] = u]
    BY <1>2, <1>3 DEF Includes, c, Turn
  <2> HIDE DEF u
  <2>4. u.state = "queued" /\ Seeded
    BY <1>1, <1>3, <2>2 DEF CompanionInv, TurnsAreFramed
  <2>5. cut' = cut \cup UNION {Carries(x) :
          x \in {x \in Group : x > s /\ slot[x].fixed /\ Pending(slot[x])}}
    BY <1>3 DEF Includes
  <2>6. /\ runner' \in [at : RunnerPlaces, on : Group, bond : Nat, epoch : Nat]
        /\ runner'.at = "seating" /\ runner'.on = s
    <3>1. bond \in Nat /\ epoch \in Nat
      BY DEF CompanionInv, CompanionShape
    <3>2. runner' = [runner EXCEPT !.at = "seating", !.bond = bond, !.epoch = epoch]
      BY <1>3 DEF Includes
    <3> QED
      BY <1>1, <1>2, <3>1, <3>2 DEF RunnerPlaces
  <2>7. slot' \in [Group -> Turn] /\ cut' \subseteq Group
    BY <2>2, <2>3, <2>5, TurnIsWritten DEF CompanionInv, CompanionShape, Carries
  <2>8. CompanionShape'
    BY <1>1, <2>6, <2>7 DEF CompanionInv, CompanionShape, Picks, seat, reign
  <2>9. u.ctx = IF slot[s].fixed THEN slot[s].ctx ELSE Context
    BY <2>2 DEF c
  <2> QED
    BY <1>1, <1>2, <1>3, <2>2, <2>3, <2>4, <2>5, <2>6, <2>8, <2>9, IncludesStep
<1>4. CASE /\ ~slot[s].framed /\ UNCHANGED <<slot, cut>>
           /\ \/ ~Seeded /\ Goes("loading")
              \/ Seeded /\ Goes("policy")
  <2>1. /\ runner' \in [at : RunnerPlaces, on : Group, bond : Nat, epoch : Nat]
        /\ runner'.on = s
        /\ \/ runner'.at = "loading" /\ ~Seeded
           \/ runner'.at = "policy" /\ Seeded
    BY <1>1, <1>2, <1>4 DEF Goes, RunnerPlaces
  <2>2. Eases
    BY <1>1, <1>4, UnwrittenEases DEF CompanionInv, CompanionShape
  <2>3. CompanionShape'
    BY <1>1, <1>4, <2>1 DEF CompanionInv, CompanionShape, Picks, seat, reign
  <2>4. RunnerKnows'
    BY <1>1, <1>4, <2>1 DEF RunnerKnows, Seeded
  <2>5. RunnerIsFirst'
    BY <1>1, <1>4, <2>1 DEF RunnerIsFirst, CompanionInv, Alive
  <2> QED
    BY <1>1, <1>4, <2>2, <2>3, <2>4, <2>5, EasyStep
<1>5. CASE /\ ~slot[s].framed /\ Repeats(s) /\ State(s, "delivered") /\ runner' = Resting
           /\ UNCHANGED cut
  <2>1. PICK u \in Turn :
        /\ slot' = [slot EXCEPT ![s] = u] /\ u.state = "delivered"
        /\ u.ctx = slot[s].ctx /\ u.fixed = slot[s].fixed /\ u.framed = slot[s].framed
        /\ u.fenced = slot[s].fenced /\ u.doubt = slot[s].doubt
    BY <1>5, StateIsWritten DEF TurnStates, CompanionInv
  <2>2. slot' \in [Group -> Turn] /\ slot'[s] = u /\ \A x \in Group \ {s} : slot'[x] = slot[x]
    BY <2>1, TurnIsWritten DEF CompanionInv
  <2>3. Softens(s)
    BY <1>1, <1>2, <2>1, <2>2 DEF Softens, Settled, Ended
  <2>4. Eases
    BY <1>1, <1>5, <2>1, <2>3, WrittenEases DEF CompanionInv, CompanionShape
  <2>5. CompanionShape'
    BY <1>1, <1>5, <2>2, RestingShape DEF CompanionInv, CompanionShape, Picks, seat, reign
  <2>6. RunnerKnows' /\ RunnerIsFirst'
    BY <1>5, RestingKnows
  <2>7. \A x \in Group : slot'[x].framed = slot[x].framed
    BY <2>1, <2>2
  <2> QED
    BY <1>1, <1>5, <2>4, <2>5, <2>6, <2>7, EasyStep
<1> QED
  BY <1>3, <1>4, <1>5 DEF Picks

-----------------------------------------------------------------------------
(***************************************************************************)
(* A command.                                                               *)
(***************************************************************************)

\* What the steps of a command do to a turn t.
Stopped(t, u) ==
  /\ Pending(t) /\ ~Runs(t) /\ u.state = "interrupted" /\ u.fenced
  /\ u.ctx = t.ctx /\ u.fixed = t.fixed /\ u.framed = t.framed /\ u.doubt = t.doubt
Halted(t, u) ==
  /\ Runs(t) /\ u.state = "paused" /\ u.doubt
  /\ u.ctx = t.ctx /\ u.fixed = t.fixed /\ u.framed = t.framed

\* Stopping a set of turns, none of which runs, ends each of them and no other.
LEMMA StopsAllStops ==
  ASSUME NEW e \in [Group -> Turn], NEW S \in SUBSET Group, \A x \in S : ~Runs(e[x])
  PROVE  /\ StopsAll(e, S) \in [Group -> Turn]
         /\ \A x \in Group : \/ StopsAll(e, S)[x] = e[x] /\ (x \in S => ~Pending(e[x]))
                             \/ x \in S /\ Stopped(e[x], StopsAll(e, S)[x])
<1> DEFINE f == StopsAll(e, S)
<1>1. \A x \in Group : f[x] = IF x \in S /\ Pending(e[x])
             THEN [e[x] EXCEPT !.state = "interrupted", !.fenced = TRUE] ELSE e[x]
  BY DEF StopsAll
<1>2. ASSUME NEW x \in Group
      PROVE  /\ f[x] \in Turn
             /\ \/ f[x] = e[x] /\ (x \in S => ~Pending(e[x]))
                \/ x \in S /\ Stopped(e[x], f[x])
  <2>1. e[x] \in Turn
    OBVIOUS
  <2>2. CASE x \in S /\ Pending(e[x])
    <3>1. f[x] = [e[x] EXCEPT !.state = "interrupted", !.fenced = TRUE]
      BY <1>1, <2>2
    <3> HIDE DEF f
    <3>2. f[x] \in Turn /\ f[x].state = "interrupted" /\ f[x].fenced
          /\ f[x].ctx = e[x].ctx /\ f[x].fixed = e[x].fixed /\ f[x].framed = e[x].framed
          /\ f[x].doubt = e[x].doubt
      BY <2>1, <3>1 DEF Turn, TurnStates
    <3> QED
      BY <2>2, <3>2 DEF Stopped
  <2>3. CASE ~(x \in S /\ Pending(e[x]))
    BY <1>1, <2>1, <2>3
  <2> QED
    BY <2>2, <2>3
<1>3. f \in [Group -> Turn]
  BY <1>2 DEF StopsAll
<1> QED
  BY <1>2, <1>3

\* One of the turns is halted, and the host asked to confirm.
Waits(a, s, todo, e, shaky, met) ==
  \E x \in todo, left \in SUBSET todo :
    /\ Halted(e[x], slot'[x])
    /\ \A y \in todo \ (left \cup {x}) : ~Pending(slot'[y])
    /\ control' = [control EXCEPT ![a] =
         [at |-> "fencing", on |-> s, hit |-> x, todo |-> left, met |-> met, shaky |-> shaky]]

\* One step of a command's sweep: it has stopped the last of its turns, or halts one that
\* may be running.
LEMMA SweepWrites ==
  ASSUME CompanionShape, NEW e \in [Group -> Turn], NEW todo \in SUBSET Group,
         NEW a, NEW s, NEW shaky, NEW met, Sweep(a, s, todo, e, shaky, met)
  PROVE  /\ slot' \in [Group -> Turn] /\ cut \subseteq cut' /\ cut' \subseteq Group
         /\ \A x \in Group : \/ slot'[x] = e[x]
                             \/ x \in todo /\ Stopped(e[x], slot'[x])
                             \/ /\ x \in todo /\ Halted(e[x], slot'[x])
                                /\ Loose(e[x]) => Carries(x) \subseteq cut'
         /\ \/ /\ CommandEnds(a, s, shaky, met)
               /\ \A x \in todo : ~Runs(e[x]) /\ ~Pending(slot'[x])
            \/ /\ UNCHANGED <<bond, spent, wiped>>
               /\ runner' = IF a = Runner THEN [runner EXCEPT !.at = "control"] ELSE runner
               /\ Waits(a, s, todo, e, shaky, met)
<1> DEFINE running == {x \in todo : Runs(e[x])}
<1>0. cut \subseteq Group /\ \A x \in Group : Carries(x) \subseteq Group
  BY DEF CompanionShape, Carries
<1>1. CASE running = {} /\ slot' = StopsAll(e, todo) /\ CommandEnds(a, s, shaky, met) /\ cut' = cut
  <2>1. \A x \in todo : ~Runs(e[x])
    BY <1>1
  <2>2. /\ slot' \in [Group -> Turn]
        /\ \A x \in Group : \/ slot'[x] = e[x] /\ (x \in todo => ~Pending(e[x]))
                            \/ x \in todo /\ Stopped(e[x], slot'[x])
    BY <1>1, <2>1, StopsAllStops
  <2>3. \A x \in todo : ~Pending(slot'[x])
    BY <2>2 DEF Stopped, Pending
  <2> QED
    BY <1>0, <1>1, <2>1, <2>2, <2>3
<1>2. ASSUME NEW x \in running, NEW first \in SUBSET (todo \ running),
             slot' = [StopsAll(e, first) EXCEPT ![x].state = "paused", ![x].doubt = TRUE],
             control' = [control EXCEPT ![a] =
               [at |-> "fencing", on |-> s, hit |-> x, todo |-> todo \ (first \cup {x}),
                met |-> met, shaky |-> shaky]],
             cut' = IF Loose(e[x]) THEN cut \cup Carries(x) ELSE cut,
             runner' = IF a = Runner THEN [runner EXCEPT !.at = "control"] ELSE runner,
             UNCHANGED <<bond, spent, wiped>>
      PROVE  /\ slot' \in [Group -> Turn] /\ cut \subseteq cut' /\ cut' \subseteq Group
             /\ \A y \in Group : \/ slot'[y] = e[y]
                                 \/ y \in todo /\ Stopped(e[y], slot'[y])
                                 \/ /\ y \in todo /\ Halted(e[y], slot'[y])
                                    /\ Loose(e[y]) => Carries(y) \subseteq cut'
             /\ x \in todo /\ todo \ (first \cup {x}) \subseteq todo
             /\ Halted(e[x], slot'[x])
             /\ \A y \in todo \ ((todo \ (first \cup {x})) \cup {x}) : ~Pending(slot'[y])
  <2> DEFINE f == StopsAll(e, first)
  <2>1. \A y \in first : ~Runs(e[y]) /\ first \subseteq Group
    OBVIOUS
  <2>2. /\ f \in [Group -> Turn]
        /\ \A y \in Group : \/ f[y] = e[y] /\ (y \in first => ~Pending(e[y]))
                            \/ y \in first /\ Stopped(e[y], f[y])
    BY <2>1, StopsAllStops
  <2> HIDE DEF f
  <2>3. slot' = [f EXCEPT ![x].state = "paused", ![x].doubt = TRUE]
    BY <1>2 DEF f
  <2>4. x \in todo /\ Runs(e[x]) /\ x \notin first /\ x \in Group
    OBVIOUS
  <2>5. f[x] = e[x] /\ f[x] \in Turn
    BY <2>2, <2>4
  <2> DEFINE u == [f[x] EXCEPT !.state = "paused", !.doubt = TRUE]
  <2>6. u \in Turn /\ Halted(e[x], u)
    BY <2>4, <2>5 DEF Turn, TurnStates, Halted
  <2>7. slot' = [f EXCEPT ![x] = u]
    BY <2>2, <2>3, <2>4
  <2> HIDE DEF u
  <2>8. slot' \in [Group -> Turn] /\ slot'[x] = u /\ \A y \in Group \ {x} : slot'[y] = f[y]
    BY <2>2, <2>4, <2>6, <2>7
  <2>9. \A y \in first : ~Pending(slot'[y])
    BY <2>2, <2>4, <2>8 DEF Stopped, Pending
  <2>10. cut \subseteq cut' /\ cut' \subseteq Group /\ (Loose(e[x]) => Carries(x) \subseteq cut')
    BY <1>0, <1>2, <2>4
  <2> QED
    BY <2>2, <2>4, <2>6, <2>8, <2>9, <2>10
<1>3. \/ running = {} /\ slot' = StopsAll(e, todo) /\ CommandEnds(a, s, shaky, met) /\ cut' = cut
      \/ \E x \in running, first \in SUBSET (todo \ running) :
           /\ slot' = [StopsAll(e, first) EXCEPT ![x].state = "paused", ![x].doubt = TRUE]
           /\ control' = [control EXCEPT ![a] =
                [at |-> "fencing", on |-> s, hit |-> x, todo |-> todo \ (first \cup {x}),
                 met |-> met, shaky |-> shaky]]
           /\ cut' = IF Loose(e[x]) THEN cut \cup Carries(x) ELSE cut
           /\ runner' = IF a = Runner THEN [runner EXCEPT !.at = "control"] ELSE runner
           /\ UNCHANGED <<bond, spent, wiped>>
  BY DEF Sweep
<1> HIDE DEF running
<1>4. CASE ~(/\ running = {} /\ slot' = StopsAll(e, todo)
             /\ CommandEnds(a, s, shaky, met) /\ cut' = cut)
  <2>1. PICK x \in running, first \in SUBSET (todo \ running) :
           /\ slot' = [StopsAll(e, first) EXCEPT ![x].state = "paused", ![x].doubt = TRUE]
           /\ control' = [control EXCEPT ![a] =
                [at |-> "fencing", on |-> s, hit |-> x, todo |-> todo \ (first \cup {x}),
                 met |-> met, shaky |-> shaky]]
           /\ cut' = IF Loose(e[x]) THEN cut \cup Carries(x) ELSE cut
           /\ runner' = IF a = Runner THEN [runner EXCEPT !.at = "control"] ELSE runner
           /\ UNCHANGED <<bond, spent, wiped>>
    BY <1>3, <1>4
  <2>2. /\ slot' \in [Group -> Turn] /\ cut \subseteq cut' /\ cut' \subseteq Group
        /\ \A y \in Group : \/ slot'[y] = e[y]
                            \/ y \in todo /\ Stopped(e[y], slot'[y])
                            \/ /\ y \in todo /\ Halted(e[y], slot'[y])
                               /\ Loose(e[y]) => Carries(y) \subseteq cut'
        /\ x \in todo /\ todo \ (first \cup {x}) \subseteq todo
        /\ Halted(e[x], slot'[x])
        /\ \A y \in todo \ ((todo \ (first \cup {x})) \cup {x}) : ~Pending(slot'[y])
    BY <1>2, <2>1
  <2> QED
    BY <2>1, <2>2 DEF Waits
<1> QED
  BY <1>1, <1>4

\* The turns that a step of the command s works on: as they are, but that its own turn was
\* just received or framed, or one whose end the host confirmed was just stopped.
Views(e, s) ==
  \A x \in Group :
    /\ e[x].ctx = slot[x].ctx /\ e[x].fixed = slot[x].fixed /\ e[x].doubt = slot[x].doubt
    /\ \/ e[x] = slot[x]
       \/ /\ x = s /\ slot[x].state \in {"none", "hydrating"}
          /\ e[x].state = "hydrating" /\ e[x].framed = slot[x].framed
       \/ /\ x = s /\ slot[x].state \in {"hydrating", "queued"} /\ ~slot[x].framed
          /\ e[x].state = "queued" /\ e[x].framed
       \/ /\ Settled(slot[x]) /\ e[x].framed = slot[x].framed /\ e[x].fenced
          /\ \/ e[x].state = "interrupted" /\ slot[x].state # "context_only"
             \/ e[x].state = slot[x].state /\ Ended(slot[x])

\* What a sweep writes softens every turn.
LEMMA SweepSoftens ==
  ASSUME CompanionShape, TurnsAreFramed, Seeded, NEW e \in [Group -> Turn], NEW s, Views(e, s),
         NEW x \in Group,
         spent \subseteq spent',
         \/ slot'[x] = e[x]
         \/ Stopped(e[x], slot'[x])
         \/ /\ Halted(e[x], slot'[x])
            /\ Loose(e[x]) => Carries(x) \subseteq cut'
  PROVE  Softens(x)
<1>1. /\ slot[x].fixed => slot[x].framed
      /\ slot[x].framed => slot[x].state \notin {"none", "hydrating"}
      /\ Alive(slot[x]) => slot[x].framed
      /\ slot[x].state \in {"submitting", "submitted"} => slot[x].fixed
      /\ slot[x].doubt => slot[x].fixed /\ Settled(slot[x])
      /\ slot[x].doubt /\ Ended(slot[x]) => slot[x].fenced
  BY DEF TurnsAreFramed
<1>2. /\ e[x].ctx = slot[x].ctx /\ e[x].fixed = slot[x].fixed /\ e[x].doubt = slot[x].doubt
      /\ \/ e[x] = slot[x]
         \/ /\ slot[x].state \in {"none", "hydrating"}
            /\ e[x].state = "hydrating" /\ e[x].framed = slot[x].framed
         \/ /\ slot[x].state \in {"hydrating", "queued"} /\ ~slot[x].framed
            /\ e[x].state = "queued" /\ e[x].framed
         \/ /\ Settled(slot[x]) /\ e[x].framed = slot[x].framed /\ e[x].fenced
            /\ \/ e[x].state = "interrupted" /\ slot[x].state # "context_only"
               \/ e[x].state = slot[x].state /\ Ended(slot[x])
  BY DEF Views
<1>3. CASE slot'[x] = e[x]
  BY <1>1, <1>2, <1>3 DEF Softens, Settled, Ended, Alive
<1>4. CASE Stopped(e[x], slot'[x])
  <2>1. /\ slot'[x].ctx = slot[x].ctx /\ slot'[x].fixed = slot[x].fixed
        /\ slot'[x].doubt = slot[x].doubt
        /\ slot'[x].framed = e[x].framed /\ slot'[x].state = "interrupted" /\ slot'[x].fenced
        /\ e[x].state \notin {"submitting", "submitted", "context_only"} /\ ~Ended(e[x])
    BY <1>2, <1>4 DEF Stopped, Runs, Pending, Ended
  <2> QED
    BY <1>1, <1>2, <2>1 DEF Softens, Settled, Ended, Alive
<1>5. CASE Halted(e[x], slot'[x]) /\ (Loose(e[x]) => Carries(x) \subseteq cut')
  <2>1. /\ slot'[x].ctx = slot[x].ctx /\ slot'[x].fixed = slot[x].fixed /\ slot'[x].doubt
        /\ slot'[x].framed = e[x].framed /\ slot'[x].state = "paused"
        /\ e[x].state \in {"submitting", "submitted"} \/ (e[x].doubt /\ ~e[x].fenced)
    BY <1>2, <1>5 DEF Halted, Runs
  <2>2. e[x] = slot[x] /\ slot[x].fixed /\ ~Ended(slot[x])
    BY <1>1, <1>2, <2>1 DEF Settled, Ended
  <2>3. slot[x].state \in {"submitting", "submitted"} =>
          slot[x].ctx \subseteq spent' \/ Carries(x) \subseteq cut'
    BY <1>5, <2>2 DEF Loose
  <2> QED
    BY <1>1, <2>1, <2>2, <2>3 DEF Softens, Settled, Ended, Alive
<1> QED
  BY <1>3, <1>4, <1>5

\* What a command's step leaves true of everything but the commands and the runner.
LEMMA SweepEases ==
  ASSUME CompanionInv, NEW s \in Group, Command(s), Seeded,
         NEW e \in [Group -> Turn], Views(e, s),
         NEW todo \in SUBSET Group, \A x \in todo : e[x].state # "none",
         NEW shaky \in BOOLEAN, NEW met \in SUBSET Group, met # {},
         ~shaky => \A x \in met : x \in todo \/ Ended(e[x]),
         NEW a, Sweep(a, s, todo, e, shaky, met),
         UNCHANGED <<says, prelude, host, reached, briefed>>
  PROVE  Eases /\ Cleared' /\ bond' \in 0 .. bonds
         /\ wiped' \in [texts : SUBSET Group, late : SUBSET Group]
<1>1. /\ slot' \in [Group -> Turn] /\ cut \subseteq cut' /\ cut' \subseteq Group
      /\ \A x \in Group : \/ slot'[x] = e[x]
                          \/ x \in todo /\ Stopped(e[x], slot'[x])
                          \/ /\ x \in todo /\ Halted(e[x], slot'[x])
                             /\ Loose(e[x]) => Carries(x) \subseteq cut'
      /\ \/ /\ CommandEnds(a, s, shaky, met)
            /\ \A x \in todo : ~Runs(e[x]) /\ ~Pending(slot'[x])
         \/ UNCHANGED <<bond, spent, wiped>>
  BY SweepWrites DEF CompanionInv
<1>2. /\ spent \subseteq Group \cup {History}
      /\ \A c \in spent \cap Group : slot[c].state = "context_only"
      /\ bond \in 0 .. bonds /\ bonds \in Nat
      /\ wiped \in [texts : SUBSET Group, late : SUBSET Group]
  BY DEF CompanionInv, CompanionShape, ContextIsKept
<1>3. ASSUME UNCHANGED <<bond, spent, wiped>>
      PROVE  Eases /\ Cleared' /\ bond' \in 0 .. bonds
             /\ wiped' \in [texts : SUBSET Group, late : SUBSET Group]
  <2>1. \A x \in Group : Softens(x)
    BY <1>1, <1>3, SweepSoftens DEF CompanionInv
  <2>2. Eases
    BY <1>1, <1>2, <1>3, <2>1 DEF Eases
  <2> QED
    BY <1>2, <1>3, <2>2, EasesCleared
<1>4. ASSUME ~shaky, ResetEnds(met), \A x \in todo : ~Pending(slot'[x])
      PROVE  Eases /\ Cleared' /\ bond' \in 0 .. bonds
             /\ wiped' \in [texts : SUBSET Group, late : SUBSET Group]
  <2>1. /\ spent' = spent \cup Context /\ bond' = 0
        /\ wiped' = [texts |-> wiped.texts \cup met,
                     late |-> (wiped.late \cup {x \in Group : slot[x].state # "none"}) \ met]
    BY <1>4 DEF ResetEnds
  <2>2. /\ wiped'.texts = wiped.texts \cup met
        /\ wiped'.late = (wiped.late \cup {x \in Group : slot[x].state # "none"}) \ met
        /\ wiped' \in [texts : SUBSET Group, late : SUBSET Group]
    BY <1>2, <2>1
  <2>3. \A x \in Group : Softens(x)
    BY <1>1, <2>1, SweepSoftens DEF CompanionInv
  <2>4. /\ History \in spent' /\ spent' \subseteq Group \cup {History}
        /\ \A c \in spent' \cap Group : slot[c].state = "context_only"
    <3>1. Context = {c \in Group \ spent : slot[c].state = "context_only"} \cup ({History} \ spent)
      BY DEF Context
    <3>2. History \notin Group
      BY CompanionAssumption DEF Group
    <3> QED
      BY <1>2, <2>1, <3>1, <3>2
  <2>5. Eases
    BY <1>1, <2>1, <2>2, <2>3, <2>4 DEF Eases
  <2>6. ASSUME NEW x \in wiped'.texts
        PROVE  Ended(slot'[x]) /\ (slot'[x].state = "context_only" => x \in spent')
    <3>1. x \in Group /\ Softens(x)
      BY <1>2, <2>2, <2>3
    <3>2. x \in wiped.texts => Ended(slot'[x])
      BY <3>1 DEF CompanionInv, Cleared, Softens, Ended
    <3>3. x \in met /\ x \in todo => Ended(slot'[x])
      <4>1. SUFFICES ASSUME x \in met, x \in todo
                     PROVE  Ended(slot'[x])
        OBVIOUS
      <4>2. ~Pending(slot'[x]) /\ slot'[x] \in Turn
        BY <1>1, <1>4, <3>1, <4>1
      <4>3. slot'[x].state # "none"
        BY <1>1, <3>1, <4>1 DEF Stopped, Halted
      <4> QED
        BY <4>2, <4>3 DEF Pending, Ended, Turn, TurnStates
    <3>4. x \in met /\ Ended(e[x]) => Ended(slot'[x])
      <4>1. e[x].doubt /\ Ended(e[x]) => e[x].fenced
        BY <3>1 DEF CompanionInv, TurnsAreFramed, Views, Settled, Ended
      <4>2. Ended(e[x]) => ~Runs(e[x]) /\ ~Pending(e[x])
        BY <4>1 DEF Runs, Pending, Ended
      <4> QED
        BY <1>1, <3>1, <4>2 DEF Stopped, Halted
    <3>5. slot'[x].state = "context_only" => x \in spent'
      <4>1. SUFFICES ASSUME slot'[x].state = "context_only"
                     PROVE  x \in spent'
        OBVIOUS
      <4>2. slot[x].state = "context_only"
        BY <1>1, <3>1, <4>1 DEF Views, Stopped, Halted
      <4> QED
        BY <2>1, <3>1, <4>2 DEF Context
    <3> QED
      BY <1>4, <2>2, <3>2, <3>3, <3>4, <3>5
  <2>7. ASSUME NEW r \in Group \ (wiped'.late \cup wiped'.texts), slot'[r].fixed
        PROVE  FALSE
    <3>1. slot[r].state = "none" /\ slot[r].fixed
      BY <2>2, <2>3, <2>7 DEF Softens
    <3> QED
      BY <3>1 DEF CompanionInv, TurnsAreFramed
  <2>8. Seeded'
    BY DEF Seeded
  <2>9. Cleared'
    BY <2>4, <2>6, <2>7, <2>8 DEF Cleared, Ended
  <2> QED
    BY <1>2, <2>1, <2>2, <2>5, <2>9
<1>5. CASE CommandEnds(a, s, shaky, met) /\ \A x \in todo : ~Pending(slot'[x])
  <2>1. (~shaky /\ ResetEnds(met)) \/ UNCHANGED <<bond, spent, wiped>>
    BY <1>5 DEF CommandEnds
  <2> QED
    BY <1>3, <1>4, <1>5, <2>1
<1> QED
  BY <1>1, <1>3, <1>5

\* A step of a command, at its begin or when the host has answered.
LEMMA SweepStep ==
  ASSUME CompanionInv, NEW s \in Group, Command(s), Seeded, ~slot[s].fixed,
         NEW e \in [Group -> Turn], Views(e, s),
         NEW todo \in SUBSET Group, \A x \in todo : e[x].state # "none",
         s \in todo \/ Ended(e[s]),
         NEW shaky \in BOOLEAN, NEW met \in SUBSET Group, met # {},
         ~shaky => \A x \in met : x \in todo \/ Ended(e[x]),
         NEW a \in Executors, Sweep(a, s, todo, e, shaky, met),
         UNCHANGED <<says, prelude, bonds, reign, host, reached, briefed>>,
         epoch' \in Nat, line' \subseteq Group,
         IF a = Runner THEN runner.on = s /\ runner.at \in {"policy", "control"}
         ELSE /\ \A x \in Group : e[x].framed = slot[x].framed
              /\ slot[s].framed => Ended(slot[s]) \/ (runner.at = "control" /\ runner.on = s)
  PROVE  CompanionInv'
<1>1. /\ slot' \in [Group -> Turn] /\ cut \subseteq cut' /\ cut' \subseteq Group
      /\ \A x \in Group : \/ slot'[x] = e[x]
                          \/ x \in todo /\ Stopped(e[x], slot'[x])
                          \/ /\ x \in todo /\ Halted(e[x], slot'[x])
                             /\ Loose(e[x]) => Carries(x) \subseteq cut'
      /\ \/ /\ CommandEnds(a, s, shaky, met)
            /\ \A x \in todo : ~Runs(e[x]) /\ ~Pending(slot'[x])
         \/ /\ UNCHANGED <<bond, spent, wiped>>
            /\ runner' = IF a = Runner THEN [runner EXCEPT !.at = "control"] ELSE runner
            /\ Waits(a, s, todo, e, shaky, met)
  <2>1. CompanionShape
    BY DEF CompanionInv
  <2>2. /\ slot' \in [Group -> Turn] /\ cut \subseteq cut' /\ cut' \subseteq Group
        /\ \A x \in Group : \/ slot'[x] = e[x]
                            \/ x \in todo /\ Stopped(e[x], slot'[x])
                            \/ /\ x \in todo /\ Halted(e[x], slot'[x])
                               /\ Loose(e[x]) => Carries(x) \subseteq cut'
    BY <2>1, SweepWrites
  <2>3. \/ /\ CommandEnds(a, s, shaky, met)
           /\ \A x \in todo : ~Runs(e[x]) /\ ~Pending(slot'[x])
        \/ /\ UNCHANGED <<bond, spent, wiped>>
           /\ runner' = IF a = Runner THEN [runner EXCEPT !.at = "control"] ELSE runner
           /\ Waits(a, s, todo, e, shaky, met)
    BY <2>1, SweepWrites
  <2> QED
    BY <2>2, <2>3
<1>2. Eases /\ Cleared' /\ bond' \in 0 .. bonds
      /\ wiped' \in [texts : SUBSET Group, late : SUBSET Group]
  BY SweepEases
<1>3. TextsInv'
  BY <1>2, EasesTexts
<1>4. /\ ~slot'[s].fixed /\ (Command(s))' /\ Seeded'
      /\ e[s].doubt = slot[s].doubt /\ ~slot[s].doubt /\ ~Runs(e[s])
      /\ Ended(e[s]) => Ended(slot'[s])
      /\ \A x \in Group : e[x] \in Turn /\ slot'[x] \in Turn
  <2>1. ~slot[s].doubt /\ e[s].doubt = slot[s].doubt
        /\ slot[s].state \notin {"submitting", "submitted"}
    BY DEF CompanionInv, TurnsAreFramed, Views
  <2>2. e[s].state \notin {"submitting", "submitted"}
    BY <2>1 DEF Views
  <2>3. ~Runs(e[s])
    BY <2>1, <2>2 DEF Runs
  <2>4. Ended(e[s]) => Ended(slot'[s])
    BY <1>1, <2>3 DEF Stopped, Halted, Ended
  <2>5. ~slot'[s].fixed /\ (Command(s))' /\ Seeded'
    BY <1>2 DEF Eases, Softens, Command, Seeded
  <2> QED
    BY <1>1, <2>1, <2>3, <2>4, <2>5
<1>5. \A x \in todo : ~Pending(slot'[x]) => Ended(slot'[x])
  <2>1. \A x \in todo : slot'[x].state # "none"
    BY <1>1 DEF Stopped, Halted
  <2> QED
    BY <1>4, <2>1 DEF Pending, Ended, Turn, TurnStates
<1>6. control \in [Executors -> [at : {"idle", "fencing", "replying"}, on : Group, hit : Group,
                                 todo : SUBSET Group, met : SUBSET Group, shaky : BOOLEAN]]
      /\ runner \in [at : RunnerPlaces, on : Group, bond : Nat, epoch : Nat]
  BY DEF CompanionInv, CompanionShape
<1>7. ASSUME NEW k \in [at : {"idle", "fencing", "replying"}, on : Group, hit : Group,
                        todo : SUBSET Group, met : SUBSET Group, shaky : BOOLEAN],
             control' = [control EXCEPT ![a] = k],
             k.at # "idle" =>
               /\ k.on = s /\ (Ended(slot'[s]) \/ (k.at = "fencing" /\ s \in k.todo))
               /\ k.at = "fencing" => /\ Settled(slot'[k.hit]) /\ k.met # {}
                                      /\ \A x \in k.todo : slot'[x].state # "none"
                                      /\ ~k.shaky => \A x \in k.met :
                                           x \in k.todo \cup {k.hit} \/ Ended(slot'[x])
               /\ a = Runner => runner' = [runner EXCEPT !.at = "control"],
             a # Runner => runner' = runner,
             a = Runner => \/ runner' = [runner EXCEPT !.at = "control"]
                           \/ runner' = Resting /\ k.at = "idle" /\ Ended(slot'[s])
      PROVE  CompanionInv'
  <2>1. /\ control' \in [Executors -> [at : {"idle", "fencing", "replying"}, on : Group,
                                       hit : Group, todo : SUBSET Group,
                                       met : SUBSET Group, shaky : BOOLEAN]]
        /\ control'[a] = k /\ \A b \in Executors \ {a} : control'[b] = control[b]
    BY <1>6, <1>7
  <2>2. runner' \in [at : RunnerPlaces, on : Group, bond : Nat, epoch : Nat]
    BY <1>6, <1>7, RestingShape DEF RunnerPlaces
  <2>3. CompanionShape'
    BY <1>1, <1>2, <2>1, <2>2 DEF CompanionInv, CompanionShape, Eases, reign
  <2>4. a = Runner => runner' = Resting \/ (runner'.at = "control" /\ runner'.on = s)
    BY <1>6, <1>7
  <2>5. RunnerKnows' /\ RunnerIsFirst'
    <3>1. CASE a = Runner
      BY <3>1, <2>4, RestingKnows
    <3>2. CASE a # Runner
      <4>1. \A x \in Group : slot'[x].framed = slot[x].framed
        BY <1>1, <3>2 DEF Stopped, Halted
      <4>2. \A x \in Group : slot'[x].state \in {"submitting", "submitted"} =>
              slot'[x].state = slot[x].state
        <5> SUFFICES ASSUME NEW x \in Group, slot'[x].state \in {"submitting", "submitted"}
                     PROVE  slot'[x].state = slot[x].state
          OBVIOUS
        <5>1. slot'[x] = e[x]
          BY <1>1 DEF Stopped, Halted
        <5> QED
          BY <5>1 DEF Views, Ended
      <4>3. ASSUME NEW x \in Group, slot[x].state = "submitting"
            PROVE  slot'[x].state = "submitting" \/ Carries(x) \subseteq cut'
        <5>1. e[x] = slot[x]
          BY <4>3 DEF Views, Settled, Ended
        <5> QED
          BY <1>1, <4>3, <5>1 DEF Stopped, Halted, Loose, Runs
      <4> QED
        BY <1>2, <1>6, <1>7, <3>2, <4>1, <4>2, <4>3, EasesRunner
    <3> QED
      BY <3>1, <3>2
  <2>6. ControlKnows'
    <3>1. Obeyed(a)'
      <4>1. CASE k.at = "idle"
        BY <2>1, <4>1 DEF Obeyed
      <4>2. CASE k.at # "idle"
        <5>1. slot'[s].framed => Ended(slot'[s]) \/ (runner'.at = "control" /\ runner'.on = s)
          <6>1. CASE a = Runner
            BY <1>6, <1>7, <4>2, <6>1
          <6>2. CASE a # Runner
            <7>1. slot'[s].framed = slot[s].framed /\ (Ended(slot[s]) => Ended(slot'[s]))
              BY <1>1, <1>2, <6>2, SoftensKeeps DEF Stopped, Halted, CompanionInv, Eases
            <7> QED
              BY <7>1, <6>2, <1>7
          <6> QED
            BY <6>1, <6>2
        <5>2. /\ k.on = s /\ (Ended(slot'[s]) \/ (k.at = "fencing" /\ s \in k.todo))
              /\ k.at = "fencing" => /\ Settled(slot'[k.hit]) /\ k.met # {}
                                     /\ \A x \in k.todo : slot'[x].state # "none"
                                     /\ ~k.shaky => \A x \in k.met :
                                          x \in k.todo \cup {k.hit} \/ Ended(slot'[x])
          BY <1>7, <4>2
        <5> QED
          BY <1>4, <2>1, <5>1, <5>2 DEF Obeyed, Ended, Settled, Command, Seeded
      <4> QED
        BY <4>1, <4>2
    <3>2. ASSUME NEW b \in Executors \ {a}
          PROVE  Obeyed(b)'
      <4>1. control'[b] = control[b]
        BY <2>1
      <4>2. CASE control[b].at = "idle"
        BY <4>1, <4>2 DEF Obeyed
      <4>3. CASE control[b].at # "idle"
        <5> DEFINE t == control[b].on
        <5>1. /\ t \in Group /\ Command(t)
              /\ slot[t].framed => Ended(slot[t]) \/ (runner.at = "control" /\ runner.on = t)
          BY <1>6, <4>3 DEF CompanionInv, ControlKnows, Obeyed
        <5>2. Ended(slot[t]) => Ended(slot'[t])
          BY <1>2, <5>1, SoftensKeeps DEF CompanionInv, Eases
        <5>3. slot'[t].framed => Ended(slot'[t]) \/ (runner'.at = "control" /\ runner'.on = t)
          <6>1. CASE a = Runner
            <7>1. slot'[t].framed => slot[t].framed \/ t = s
              BY <1>1, <5>1 DEF Stopped, Halted, Views
            <7>2. slot'[t].framed /\ ~Ended(slot'[t]) => t = s
              BY <5>1, <5>2, <6>1, <7>1
            <7> QED
              BY <1>6, <1>7, <6>1, <7>2
          <6>2. CASE a # Runner
            <7>1. slot'[t].framed = slot[t].framed
              BY <1>1, <5>1, <6>2 DEF Stopped, Halted
            <7> QED
              BY <1>7, <5>1, <5>2, <6>2, <7>1
          <6> QED
            BY <6>1, <6>2
        <5> QED
          BY <1>2, <4>1, <4>3, <5>3, EasesObeyed
      <4> QED
        BY <4>2, <4>3
    <3>3. control'[Runner].at # "idle" => runner'.at = "control" /\ runner'.on = control'[Runner].on
      <4>1. CASE a = Runner
        BY <1>6, <1>7, <2>1, <4>1
      <4>2. CASE a # Runner
        BY <1>7, <2>1, <4>2 DEF CompanionInv, ControlKnows, Executors
      <4> QED
        BY <4>1, <4>2
    <3> QED
      BY <3>1, <3>2, <3>3 DEF ControlKnows
  <2> QED
    BY <1>2, <1>3, <2>3, <2>5, <2>6 DEF CompanionInv, TextsInv
<1>8. CASE CommandEnds(a, s, shaky, met) /\ \A x \in todo : ~Pending(slot'[x])
  <2>1. Ended(slot'[s])
    BY <1>4, <1>5, <1>8
  <2>2. Calm \in [at : {"idle", "fencing", "replying"}, on : Group, hit : Group,
                  todo : SUBSET Group, met : SUBSET Group, shaky : BOOLEAN] /\ Calm.at = "idle"
    BY CompanionAssumption DEF Calm, Trigger, Group
  <2>3. CASE /\ control' = [control EXCEPT ![a] = Calm]
             /\ runner' = IF a = Runner THEN Resting ELSE runner
    BY <1>7, <2>1, <2>2, <2>3
  <2>4. CASE /\ control' = [control EXCEPT ![a] = [Calm EXCEPT !.at = "replying", !.on = s]]
             /\ runner' = IF a = Runner THEN [runner EXCEPT !.at = "control"] ELSE runner
    <3> DEFINE k == [Calm EXCEPT !.at = "replying", !.on = s]
    <3>1. /\ k \in [at : {"idle", "fencing", "replying"}, on : Group, hit : Group,
                    todo : SUBSET Group, met : SUBSET Group, shaky : BOOLEAN]
          /\ k.at = "replying" /\ k.on = s
      BY <2>2
    <3> HIDE DEF k
    <3> QED
      BY <1>7, <2>1, <2>4, <3>1 DEF k
  <2> QED
    BY <1>8, <2>3, <2>4 DEF CommandEnds
<1>9. CASE /\ runner' = IF a = Runner THEN [runner EXCEPT !.at = "control"] ELSE runner
           /\ Waits(a, s, todo, e, shaky, met)
  <2>1. PICK x \in todo, left \in SUBSET todo :
                /\ Halted(e[x], slot'[x])
                /\ \A y \in todo \ (left \cup {x}) : ~Pending(slot'[y])
                /\ control' = [control EXCEPT ![a] =
                     [at |-> "fencing", on |-> s, hit |-> x, todo |-> left,
                      met |-> met, shaky |-> shaky]]
    BY <1>9 DEF Waits
  <2> DEFINE k == [at |-> "fencing", on |-> s, hit |-> x, todo |-> left, met |-> met,
             shaky |-> shaky]
  <2>2. k \in [at : {"idle", "fencing", "replying"}, on : Group, hit : Group,
               todo : SUBSET Group, met : SUBSET Group, shaky : BOOLEAN]
    OBVIOUS
  <2>3. k.at = "fencing" /\ k.on = s /\ k.hit = x /\ k.todo = left /\ k.met = met /\ k.shaky = shaky
    OBVIOUS
  <2>4. Settled(slot'[x])
    BY <2>1 DEF Halted, Settled
  <2>5. Ended(slot'[s]) \/ s \in left
    <3>1. s # x
      BY <1>4, <2>1 DEF Halted
    <3> QED
      BY <1>4, <1>5, <2>1, <3>1
  <2>6. \A y \in left : slot'[y].state # "none"
    BY <1>1 DEF Stopped, Halted
  <2>7. ~shaky => \A y \in met : y \in left \cup {x} \/ Ended(slot'[y])
    <3> SUFFICES ASSUME ~shaky, NEW y \in met, y \notin left \cup {x}
                 PROVE  Ended(slot'[y])
      OBVIOUS
    <3>1. CASE y \in todo
      BY <1>5, <2>1, <3>1
    <3>2. CASE Ended(e[y])
      <4>1. e[y].doubt => e[y].fenced
        BY <3>2 DEF CompanionInv, TurnsAreFramed, Views, Settled, Ended
      <4> QED
        BY <1>1, <3>2, <4>1 DEF Stopped, Halted, Runs, Pending, Ended
    <3> QED
      BY <3>1, <3>2
  <2> HIDE DEF k
  <2>8. control' = [control EXCEPT ![a] = k]
    BY <2>1 DEF k
  <2> QED
    BY <1>7, <1>9, <2>2, <2>3, <2>4, <2>5, <2>6, <2>7, <2>8
<1> QED
  BY <1>1, <1>8, <1>9

\* The host has answered whether a halted turn's execution ended.
LEMMA FencesStep ==
  ASSUME CompanionInv, NEW a \in Executors, Fences(a)
  PROVE  CompanionInv'
<1> DEFINE k == control[a]
           f == [slot EXCEPT ![k.hit].fenced = TRUE]
           g == StopsAll(f, {k.hit})
<1>1. /\ k.at = "fencing"
      /\ UNCHANGED <<says, prelude, bonds, epoch, line, reign, host, reached, briefed>>
      /\ \/ Sweep(a, k.on, k.todo, g, k.shaky, k.met)
         \/ Sweep(a, k.on, k.todo, slot, TRUE, k.met)
  BY DEF Fences
<1>2. k \in [at : {"idle", "fencing", "replying"}, on : Group, hit : Group,
             todo : SUBSET Group, met : SUBSET Group, shaky : BOOLEAN]
      /\ slot \in [Group -> Turn] /\ epoch \in Nat /\ line \subseteq Group
  BY DEF CompanionInv, CompanionShape
<1>3. /\ Command(k.on) /\ Seeded /\ ~slot[k.on].fixed
      /\ slot[k.on].framed => Ended(slot[k.on]) \/ (runner.at = "control" /\ runner.on = k.on)
      /\ Ended(slot[k.on]) \/ k.on \in k.todo
      /\ Settled(slot[k.hit]) /\ k.met # {}
      /\ \A x \in k.todo : slot[x].state # "none"
      /\ ~k.shaky => \A x \in k.met : x \in k.todo \cup {k.hit} \/ Ended(slot[x])
  BY <1>1 DEF CompanionInv, ControlKnows, Obeyed
<1>4. a = Runner => runner.at = "control" /\ runner.on = k.on
  BY <1>1 DEF CompanionInv, ControlKnows
<1>5. g \in [Group -> Turn] /\ Views(g, k.on) /\ (\A x \in Group : g[x].framed = slot[x].framed)
      /\ (\A x \in Group : Ended(slot[x]) \/ x = k.hit => Ended(g[x]))
      /\ (\A x \in k.todo : g[x].state # "none")
  <2>1. k.hit \in Group
    BY <1>2
  <2> DEFINE u == [slot[k.hit] EXCEPT !.fenced = TRUE]
  <2>2. /\ u \in Turn /\ u.fenced /\ u.state = slot[k.hit].state /\ u.ctx = slot[k.hit].ctx
        /\ u.fixed = slot[k.hit].fixed /\ u.framed = slot[k.hit].framed
        /\ u.doubt = slot[k.hit].doubt
    <3> HIDE DEF k
    <3>1. slot[k.hit] \in Turn
      BY <1>2, <2>1
    <3> QED
      BY <3>1 DEF Turn
  <2>3. f = [slot EXCEPT ![k.hit] = u]
    BY <1>2, <2>1
  <2> HIDE DEF u
  <2>4. f \in [Group -> Turn] /\ f[k.hit] = u /\ \A x \in Group \ {k.hit} : f[x] = slot[x]
    BY <1>2, <2>1, <2>2, <2>3
  <2> HIDE DEF f
  <2>5. ~Runs(f[k.hit])
    BY <1>3, <2>2, <2>4 DEF Runs, Settled, Ended
  <2>6. /\ g \in [Group -> Turn]
        /\ \A x \in Group : \/ g[x] = f[x] /\ (x \in {k.hit} => ~Pending(f[x]))
                            \/ x \in {k.hit} /\ Stopped(f[x], g[x])
    BY <2>1, <2>4, <2>5, StopsAllStops
  <2> HIDE DEF g, k
  <2>7. \A x \in Group \ {k.hit} : g[x] = slot[x]
    BY <2>4, <2>6
  <2>8. /\ g[k.hit].ctx = slot[k.hit].ctx /\ g[k.hit].fixed = slot[k.hit].fixed
        /\ g[k.hit].framed = slot[k.hit].framed /\ g[k.hit].doubt = slot[k.hit].doubt
        /\ g[k.hit].fenced
        /\ \/ g[k.hit].state = "interrupted" /\ slot[k.hit].state # "context_only"
           \/ g[k.hit].state = slot[k.hit].state /\ Ended(slot[k.hit])
    <3>1. slot[k.hit].state = "paused" => Pending(f[k.hit])
      BY <2>2, <2>4 DEF Pending
    <3>2. CASE g[k.hit] = f[k.hit] /\ ~Pending(f[k.hit])
      BY <3>1, <3>2, <1>3, <2>2, <2>4 DEF Settled
    <3>3. CASE Stopped(f[k.hit], g[k.hit])
      BY <3>3, <2>2, <2>4 DEF Stopped, Pending
    <3> QED
      BY <2>1, <2>6, <3>2, <3>3
  <2>9. Views(g, k.on)
    BY <1>3, <2>7, <2>8 DEF Views
  <2>10. Ended(g[k.hit])
    BY <2>8 DEF Ended
  <2>11. k.todo \subseteq Group
    BY <1>2
  <2>12. \A x \in k.todo : g[x].state # "none"
    BY <1>3, <2>7, <2>8, <2>11 DEF Ended
  <2>13. (\A x \in Group : g[x].framed = slot[x].framed)
         /\ (\A x \in Group : Ended(slot[x]) \/ x = k.hit => Ended(g[x]))
    BY <2>7, <2>8, <2>10
  <2> QED
    BY <2>6, <2>9, <2>12, <2>13
<1> HIDE DEF g, k
<1>6. CASE Sweep(a, k.on, k.todo, g, k.shaky, k.met)
  <2>1. k.on \in k.todo \/ Ended(g[k.on])
    BY <1>2, <1>3, <1>5
  <2>2. ~k.shaky => \A x \in k.met : x \in k.todo \/ Ended(g[x])
    BY <1>2, <1>3, <1>5
  <2>3. k.on \in Group /\ k.todo \in SUBSET Group /\ k.met \in SUBSET Group /\ k.shaky \in BOOLEAN
    BY <1>2
  <2>4. IF a = Runner THEN runner.on = k.on /\ runner.at \in {"policy", "control"}
        ELSE /\ \A x \in Group : g[x].framed = slot[x].framed
             /\ slot[k.on].framed =>
                  Ended(slot[k.on]) \/ (runner.at = "control" /\ runner.on = k.on)
    BY <1>3, <1>4, <1>5
  <2>5. epoch' \in Nat /\ line' \subseteq Group
    BY <1>1, <1>2
  <2> QED
    BY <1>1, <1>3, <1>5, <1>6, <2>1, <2>2, <2>3, <2>4, <2>5, SweepStep
<1>7. CASE Sweep(a, k.on, k.todo, slot, TRUE, k.met)
  <2>1. Views(slot, k.on)
    BY DEF Views
  <2>3. k.on \in Group /\ k.todo \in SUBSET Group /\ k.met \in SUBSET Group /\ TRUE \in BOOLEAN
    BY <1>2
  <2>4. IF a = Runner THEN runner.on = k.on /\ runner.at \in {"policy", "control"}
        ELSE /\ \A x \in Group : slot[x].framed = slot[x].framed
             /\ slot[k.on].framed =>
                  Ended(slot[k.on]) \/ (runner.at = "control" /\ runner.on = k.on)
    BY <1>3, <1>4
  <2>5. epoch' \in Nat /\ line' \subseteq Group
    BY <1>1, <1>2
  <2>6. k.on \in k.todo \/ Ended(slot[k.on])
    BY <1>3
  <2>7. ~TRUE => \A x \in k.met : x \in k.todo \/ Ended(slot[x])
    OBVIOUS
  <2> QED
    BY <1>1, <1>2, <1>3, <1>7, <2>1, <2>3, <2>4, <2>5, <2>6, <2>7, SweepStep
<1> QED
  BY <1>1, <1>6, <1>7

\* The reply to a command.
LEMMA RepliesStep ==
  ASSUME CompanionInv, NEW a \in Executors, Replies(a)
  PROVE  CompanionInv'
<1> DEFINE s == control[a].on
<1>1. /\ control[a].at = "replying" /\ control' = [control EXCEPT ![a] = Calm]
      /\ runner' = IF a = Runner THEN Resting ELSE runner
      /\ cut' = cut /\ UNCHANGED <<says, prelude, host, reached, briefed, spent, wiped>>
      /\ State(s, "delivered") \/ UNCHANGED slot
  BY DEF Replies, tales
<1>2. control \in [Executors -> [at : {"idle", "fencing", "replying"}, on : Group, hit : Group,
                                 todo : SUBSET Group, met : SUBSET Group, shaky : BOOLEAN]]
      /\ slot \in [Group -> Turn]
  BY DEF CompanionInv, CompanionShape
<1>3. s \in Group /\ Ended(slot[s]) /\ Command(s) /\ ~slot[s].fixed
  BY <1>1, <1>2 DEF CompanionInv, ControlKnows, Obeyed
<1>4. slot[s].state # "context_only"
  BY <1>3 DEF CompanionInv, ContextIsKept, Command, Addresses
<1> HIDE DEF s
<1>5. Eases /\ \A x \in Group : slot'[x].framed = slot[x].framed
             /\ (slot'[x].state \in {"submitting", "submitted"} => slot'[x].state = slot[x].state)
             /\ (slot[x].state = "submitting" => slot'[x].state = "submitting")
  <2>1. ASSUME State(s, "delivered")
        PROVE  Eases /\ \A x \in Group : slot'[x].framed = slot[x].framed
                 /\ (slot'[x].state \in {"submitting", "submitted"} =>
                      slot'[x].state = slot[x].state)
                 /\ (slot[x].state = "submitting" => slot'[x].state = "submitting")
    <3>1. PICK u \in Turn :
            /\ slot' = [slot EXCEPT ![s] = u] /\ u.state = "delivered"
            /\ u.ctx = slot[s].ctx /\ u.fixed = slot[s].fixed /\ u.framed = slot[s].framed
            /\ u.fenced = slot[s].fenced /\ u.doubt = slot[s].doubt
      BY <1>3, <2>1, StateIsWritten DEF TurnStates, CompanionInv
    <3>2. slot'[s] = u /\ \A x \in Group \ {s} : slot'[x] = slot[x]
      BY <1>3, <3>1, TurnIsWritten DEF CompanionInv
    <3>3. ~slot[s].doubt
      BY <1>3 DEF CompanionInv, TurnsAreFramed
    <3>4. Softens(s)
      BY <1>3, <1>4, <3>1, <3>2, <3>3 DEF Softens, Settled, Ended
    <3>5. Eases
      BY <1>1, <1>3, <3>1, <3>4, WrittenEases DEF CompanionInv, CompanionShape
    <3> QED
      BY <1>3, <3>1, <3>2, <3>5 DEF Ended
  <2>2. ASSUME UNCHANGED slot
        PROVE  Eases
    BY <1>1, <2>2, UnwrittenEases DEF CompanionInv, CompanionShape
  <2> QED
    BY <1>1, <2>1, <2>2
<1>6. Calm \in [at : {"idle", "fencing", "replying"}, on : Group, hit : Group,
                todo : SUBSET Group, met : SUBSET Group, shaky : BOOLEAN] /\ Calm.at = "idle"
  BY CompanionAssumption DEF Calm, Trigger, Group
<1>7. /\ control' \in [Executors -> [at : {"idle", "fencing", "replying"}, on : Group, hit : Group,
                                 todo : SUBSET Group, met : SUBSET Group, shaky : BOOLEAN]]
      /\ control'[a] = Calm /\ \A b \in Executors \ {a} : control'[b] = control[b]
  BY <1>1, <1>2, <1>6
<1>8. CompanionShape'
  BY <1>1, <1>5, <1>7, RestingShape DEF CompanionInv, CompanionShape, Replies, tales, seat,
    reign, Eases
<1>9. RunnerKnows' /\ RunnerIsFirst'
  <2>1. CASE a = Runner
    BY <1>1, <2>1, RestingKnows
  <2>2. CASE a # Runner
    <3>1. runner' = runner /\ runner.on \in Group
      BY <1>1, <2>2 DEF CompanionInv, CompanionShape
    <3> QED
      BY <1>5, <3>1, EasesRunner
  <2> QED
    BY <2>1, <2>2
<1>10. ControlKnows'
  <2>1. ASSUME NEW b \in Executors \ {a}, control[b].at # "idle"
        PROVE  Obeyed(b)'
    <3> DEFINE t == control[b].on
    <3>1. /\ t \in Group
          /\ slot[t].framed => Ended(slot[t]) \/ (runner.at = "control" /\ runner.on = t)
      BY <1>2, <2>1 DEF CompanionInv, ControlKnows, Obeyed
    <3>2. Ended(slot[t]) => Ended(slot'[t])
      BY <1>5, <3>1, SoftensKeeps DEF CompanionInv, Eases
    <3>3. a = Runner => runner.on = s
      BY <1>1 DEF CompanionInv, ControlKnows, s
    <3>4. slot'[t].framed => Ended(slot'[t]) \/ (runner'.at = "control" /\ runner'.on = t)
      BY <1>1, <1>3, <1>5, <3>1, <3>2, <3>3
    <3> QED
      BY <1>5, <1>7, <2>1, <3>4, EasesObeyed
  <2>2. \A b \in Executors : control'[b].at = "idle" => Obeyed(b)'
    BY DEF Obeyed
  <2>3. control'[Runner].at # "idle" => runner'.at = "control" /\ runner'.on = control'[Runner].on
    BY <1>1, <1>6, <1>7 DEF CompanionInv, ControlKnows, Executors
  <2> QED
    BY <1>6, <1>7, <2>1, <2>2, <2>3 DEF ControlKnows
<1>11. TextsInv' /\ Cleared'
  BY <1>1, <1>5, EasesTexts, EasesCleared
<1> QED
  BY <1>8, <1>9, <1>10, <1>11 DEF CompanionInv, TextsInv

\* A command is begun: what is stopped is what may still run.
LEMMA BeginsStep ==
  ASSUME CompanionInv, NEW s \in Group, Command(s), Seeded, ~slot[s].fixed,
         NEW e \in [Group -> Turn], Views(e, s), Pending(e[s]),
         NEW a \in Executors, CommandBegins(a, s, e),
         UNCHANGED <<says, prelude, bonds, line, reign, host, reached, briefed>>,
         IF a = Runner THEN runner.on = s /\ runner.at \in {"policy", "control"}
         ELSE /\ \A x \in Group : e[x].framed = slot[x].framed
              /\ slot[s].framed => Ended(slot[s]) \/ (runner.at = "control" /\ runner.on = s)
  PROVE  CompanionInv'
<1> DEFINE todo == {x \in Group : Pending(e[x])}
           met == {x \in Group : e[x].state # "none"}
<1>1. Sweep(a, s, todo, e, FALSE, met)
  BY DEF CommandBegins
<1>2. epoch' \in Nat /\ line' \subseteq Group
  BY DEF CommandBegins, CompanionInv, CompanionShape
<1>3. /\ todo \in SUBSET Group /\ met \in SUBSET Group /\ s \in todo /\ met # {}
      /\ \A x \in todo : e[x].state # "none"
      /\ \A x \in met : x \in todo \/ Ended(e[x])
  BY DEF Pending, Ended
<1> HIDE DEF todo, met
<1>4. FALSE \in BOOLEAN /\ (~FALSE => \A x \in met : x \in todo \/ Ended(e[x]))
  BY <1>3
<1> QED
  BY <1>1, <1>2, <1>3, <1>4, SweepStep

\* The runner's turn is framed under the sponsor's policy.
LEMMA FramesStep ==
  ASSUME CompanionInv, NEW s \in Group, Frames(s)
  PROVE  CompanionInv'
<1> DEFINE y == IF Addresses(s) THEN "queued" ELSE "context_only"
           w == [slot[s] EXCEPT !.framed = TRUE, !.state = y]
           e == [slot EXCEPT ![s].framed = TRUE,
                             ![s].state = IF Addresses(s) THEN "queued" ELSE "context_only"]
<1>1. /\ runner.at = "policy" /\ runner.on = s /\ slot[s].state \in {"hydrating", "queued"}
      /\ UNCHANGED <<says, prelude, bonds, line, reign, host, reached, briefed>>
  BY DEF Frames, RunnerAt
<1>2. /\ slot[s] \in Turn /\ runner \in [at : RunnerPlaces, on : Group, bond : Nat, epoch : Nat]
      /\ ~slot[s].doubt /\ ~slot[s].framed /\ ~slot[s].fixed /\ slot[s].ctx = {} /\ Seeded
      /\ slot \in [Group -> Turn]
  BY <1>1 DEF CompanionInv, CompanionShape, TurnsAreFramed, RunnerKnows, Settled, Ended
<1>3. /\ w \in Turn /\ w.framed /\ w.state = y /\ w.ctx = {} /\ ~w.fixed /\ ~w.doubt
      /\ w.ctx = slot[s].ctx /\ w.fixed = slot[s].fixed /\ w.doubt = slot[s].doubt
      /\ y \in {"queued", "context_only"} /\ (y = "context_only" <=> ~Addresses(s))
  BY <1>2 DEF Turn, TurnStates
<1>4. e = [slot EXCEPT ![s] = w]
  BY <1>2
<1> HIDE DEF w, y
<1>5. /\ e \in [Group -> Turn] /\ e[s] = w /\ \A x \in Group \ {s} : e[x] = slot[x]
  BY <1>2, <1>3, <1>4
<1>6. CASE slot' = e /\ ~Command(s) /\ runner' = Resting
           /\ UNCHANGED <<spent, bond, epoch, control, cut, wiped>>
  <2> HIDE DEF e
  <2>1. Softens(s)
    BY <1>1, <1>2, <1>3, <1>5, <1>6 DEF Softens, Settled, Ended
  <2>2. slot' = [slot EXCEPT ![s] = w] /\ cut \subseteq cut' /\ cut' \subseteq Group
    BY <1>4, <1>6 DEF CompanionInv, CompanionShape
  <2>3. Eases
    BY <1>1, <1>3, <1>6, <2>1, <2>2, WrittenEases
  <2>4. CompanionShape'
    BY <1>1, <1>5, <1>6, RestingShape DEF CompanionInv, CompanionShape, reign
  <2>5. RunnerKnows' /\ RunnerIsFirst'
    BY <1>6, RestingKnows
  <2>6. \A x \in Group : slot'[x].framed /\ ~slot[x].framed /\ ~Ended(slot'[x]) => ~Command(x)
    BY <1>5, <1>6
  <2> QED
    BY <1>1, <1>6, <2>3, <2>4, <2>5, <2>6, EasyStep
<1>7. CASE Command(s) /\ Addresses(s) /\ CommandBegins(Runner, s, e)
  <2> HIDE DEF e
  <2>1. w.state = "queued"
    BY <1>3, <1>7
  <2>2. Views(e, s) /\ Pending(e[s])
    BY <1>1, <1>2, <1>3, <1>5, <2>1 DEF Views, Pending
  <2>3. Runner \in Executors
    BY DEF Executors
  <2> QED
    BY <1>1, <1>2, <1>5, <1>7, <2>2, <2>3, BeginsStep
<1>8. CASE Addresses(s) /\ ~Command(s) /\ Includes(s, e)
           /\ UNCHANGED <<spent, bond, epoch, control, wiped>>
  <2> DEFINE u == [w EXCEPT !.ctx = Context, !.fixed = TRUE]
  <2>1. Context \subseteq Group \cup {History}
    BY DEF Context
  <2>2. u \in Turn /\ u.fixed /\ u.framed /\ u.state = "queued" /\ u.ctx = Context
        /\ u.doubt = w.doubt
    BY <1>3, <1>8, <2>1 DEF Turn
  <2>3. slot' = [slot EXCEPT ![s] = u]
    <3> HIDE DEF e
    <3>1. slot' = [e EXCEPT ![s] = u]
      BY <1>3, <1>5, <1>8 DEF Includes, Turn
    <3> HIDE DEF u
    <3> QED
      BY <1>2, <1>4, <3>1
  <2> HIDE DEF u, e
  <2>4. /\ cut' = cut \cup UNION {Carries(x) :
             x \in {x \in Group : x > s /\ slot[x].fixed /\ Pending(slot[x])}}
        /\ runner' = [runner EXCEPT !.at = "seating", !.bond = bond, !.epoch = epoch]
    BY <1>8 DEF Includes
  <2>5. /\ runner' \in [at : RunnerPlaces, on : Group, bond : Nat, epoch : Nat]
        /\ runner'.at = "seating" /\ runner'.on = s
    <3>1. bond \in Nat /\ epoch \in Nat
      BY DEF CompanionInv, CompanionShape
    <3> QED
      BY <1>1, <1>2, <2>4, <3>1 DEF RunnerPlaces
  <2>6. slot' \in [Group -> Turn] /\ cut' \subseteq Group
    BY <2>2, <2>3, <2>4, TurnIsWritten DEF CompanionInv, CompanionShape, Carries
  <2>7. CompanionShape'
    BY <1>1, <1>8, <2>5, <2>6 DEF CompanionInv, CompanionShape, reign
  <2>8. u.ctx = (IF slot[s].fixed THEN slot[s].ctx ELSE Context) /\ u.doubt = slot[s].doubt
    BY <1>2, <1>3, <2>2
  <2> QED
    BY <1>1, <1>2, <1>8, <2>2, <2>3, <2>4, <2>5, <2>7, <2>8, IncludesStep
<1>9. ~Addresses(s) => ~Command(s)
  BY DEF Addresses, Command
<1> QED
  BY <1>6, <1>7, <1>8, <1>9 DEF Frames

\* A webhook's message is received.
LEMMA AcceptStep ==
  ASSUME CompanionInv, NEW h \in Handlers, NEW s \in Group, Accept(h, s)
  PROVE  CompanionInv'
<1> DEFINE w == [slot[s] EXCEPT !.state = "hydrating"]
           e == [slot EXCEPT ![s].state = "hydrating"]
<1>1. /\ slot[s].state \in {"none", "hydrating"}
      /\ UNCHANGED <<says, prelude, bonds, reign, host, reached, briefed>>
  BY DEF Accept, Admits
<1>2. /\ slot[s] \in Turn /\ slot \in [Group -> Turn]
      /\ ~slot[s].doubt /\ ~slot[s].framed /\ ~slot[s].fixed
      /\ runner.on \in Group
  BY <1>1 DEF CompanionInv, CompanionShape, TurnsAreFramed, Settled, Ended
<1>3. /\ w \in Turn /\ w.state = "hydrating" /\ w.framed = slot[s].framed /\ w.ctx = slot[s].ctx
      /\ w.fixed = slot[s].fixed /\ w.doubt = slot[s].doubt /\ w.fenced = slot[s].fenced
  BY <1>2 DEF Turn, TurnStates
<1>4. e = [slot EXCEPT ![s] = w]
  BY <1>2
<1> HIDE DEF w
<1>5. e \in [Group -> Turn] /\ e[s] = w /\ \A x \in Group \ {s} : e[x] = slot[x]
  BY <1>2, <1>3, <1>4
<1>6. ASSUME NEW u \in Turn, slot' = [slot EXCEPT ![s] = u],
             u.ctx = slot[s].ctx, u.fixed = slot[s].fixed, u.framed = slot[s].framed,
             u.doubt = slot[s].doubt, u.state \in {"hydrating", "delivered"},
             line' \subseteq Group,
             UNCHANGED <<spent, bond, epoch, runner, control, cut, wiped>>
      PROVE  CompanionInv'
  <2>1. slot' \in [Group -> Turn] /\ slot'[s] = u /\ \A x \in Group \ {s} : slot'[x] = slot[x]
    BY <1>6, TurnIsWritten DEF CompanionInv
  <2>2. Softens(s)
    BY <1>1, <1>2, <1>6, <2>1 DEF Softens, Settled, Ended
  <2>3. Eases
    BY <1>1, <1>6, <2>2, WrittenEases DEF CompanionInv, CompanionShape
  <2>4. CompanionShape'
    BY <1>1, <1>6, <2>1 DEF CompanionInv, CompanionShape, reign
  <2>5. /\ \A x \in Group : slot'[x].framed = slot[x].framed
        /\ \A x \in Group : slot'[x].state \in {"submitting", "submitted"} =>
             slot'[x].state = slot[x].state
        /\ slot[runner.on].state = "submitting" => slot'[runner.on].state = "submitting"
    BY <1>1, <1>2, <1>6, <2>1
  <2>6. RunnerKnows' /\ RunnerIsFirst'
    BY <1>6, <2>3, <2>5, EasesRunner
  <2> QED
    BY <1>6, <2>3, <2>4, <2>5, <2>6, EasyStep
<1>7. CASE Repeats(s) /\ State(s, "delivered")
           /\ UNCHANGED <<spent, bond, epoch, line, runner, control, cut, wiped>>
  <2>1. PICK u \in Turn :
        /\ slot' = [slot EXCEPT ![s] = u] /\ u.state = "delivered"
        /\ u.ctx = slot[s].ctx /\ u.fixed = slot[s].fixed /\ u.framed = slot[s].framed
        /\ u.fenced = slot[s].fenced /\ u.doubt = slot[s].doubt
    BY <1>7, StateIsWritten DEF TurnStates, CompanionInv
  <2>2. line' \subseteq Group
    BY <1>7 DEF CompanionInv, CompanionShape
  <2> QED
    BY <1>6, <1>7, <2>1, <2>2
<1>8. CASE Seeded /\ Command(s) /\ CommandBegins(h, s, e) /\ UNCHANGED line
  <2> HIDE DEF e
  <2>1. Views(e, s) /\ Pending(e[s]) /\ \A x \in Group : e[x].framed = slot[x].framed
    BY <1>1, <1>2, <1>3, <1>5 DEF Views, Pending
  <2>2. h \in Executors /\ h # Runner
    BY CompanionAssumption DEF Executors
  <2> QED
    BY <1>1, <1>2, <1>5, <1>8, <2>1, <2>2, BeginsStep
<1>9. CASE /\ slot' = e
           /\ line' = IF runner.at # "idle" /\ runner.on = s THEN line ELSE line \cup {s}
           /\ UNCHANGED <<spent, bond, epoch, runner, control, cut, wiped>>
  <2> HIDE DEF e
  <2>1. line' \subseteq Group
    BY <1>9 DEF CompanionInv, CompanionShape
  <2> QED
    BY <1>3, <1>4, <1>6, <1>9, <2>1
<1> QED
  BY <1>7, <1>8, <1>9 DEF Accept, Admits

-----------------------------------------------------------------------------
(***************************************************************************)
(* The invariant holds, and what it gives.                                  *)
(***************************************************************************)

\* It holds before any message came.
LEMMA CompanionStarts ==
  ASSUME CompanionInit
  PROVE  CompanionInv
<1>1. Blank \in Turn /\ Blank.state = "none" /\ ~Blank.fixed /\ ~Blank.framed /\ ~Blank.doubt
      /\ Blank.ctx = {}
  BY CompanionAssumption DEF Blank, Turn, TurnStates
<1>2. /\ Calm \in [at : {"idle", "fencing", "replying"}, on : Group, hit : Group,
                todo : SUBSET Group, met : SUBSET Group, shaky : BOOLEAN] /\ Calm.at = "idle"
  BY CompanionAssumption DEF Calm, Trigger, Group
<1> DEFINE c == Calm
           b == Blank
<1>3. /\ \A s \in Group : slot[s] = b /\ reached[s] = 0
      /\ \A a \in Executors : control[a] = c
      /\ slot \in [Group -> {b}] /\ control \in [Executors -> {c}]
  BY DEF CompanionInit, Executors
<1> HIDE DEF c, b
<1>4. slot \in [Group -> Turn]
      /\ control \in [Executors -> [at : {"idle", "fencing", "replying"}, on : Group, hit : Group,
                todo : SUBSET Group, met : SUBSET Group, shaky : BOOLEAN]]
  BY <1>1, <1>2, <1>3 DEF c, b
<1>5. CompanionShape
  <2>1. runner \in [at : RunnerPlaces, on : Group, bond : Nat, epoch : Nat]
    BY RestingShape DEF CompanionInit
  <2>2. /\ prelude \in [by : Group \cup {History}, of : SUBSET Group]
        /\ wiped \in [texts : SUBSET Group, late : SUBSET Group]
    BY DEF CompanionInit
  <2>3. reigns \in 0 .. MaxReigns
    BY CompanionAssumption DEF CompanionInit
  <2>4. reached \in [Group -> 0 .. 2]
    BY DEF CompanionInit
  <2>5. /\ says \in [Group -> {"ask", "quiet", "stop", "clear"}] /\ spent = {} /\ bonds = 0
        /\ bond = 0
        /\ epoch = 0 /\ line = {} /\ host = {} /\ cut = {} /\ era = "up" /\ briefed = FALSE
    BY DEF CompanionInit
  <2>6. bonds \in Nat /\ bond \in 0 .. bonds /\ epoch \in Nat
    BY <2>5
  <2>7. /\ spent \subseteq Group \cup {History} /\ line \subseteq Group /\ host \subseteq Group
        /\ cut \subseteq Group
    BY <2>5
  <2>8. era \in {"up", "closing", "down"} /\ briefed \in BOOLEAN
    BY <2>5
  <2> HIDE DEF Group
  <2> QED
    BY <1>4, <2>1, <2>2, <2>3, <2>4, <2>5, <2>6, <2>7, <2>8 DEF CompanionShape
<1>6. \A s \in Group : /\ slot[s].state = "none" /\ ~slot[s].fixed /\ ~slot[s].framed
                       /\ ~slot[s].doubt /\ slot[s].ctx = {}
  BY <1>1, <1>3 DEF b
<1>7. host = {} /\ spent = {} /\ wiped.texts = {}
  BY DEF CompanionInit
<1>8. runner.at = "idle"
  BY DEF CompanionInit, Resting
<1>9. TurnsAreFramed /\ ContextIsKept
  BY <1>6, <1>7 DEF TurnsAreFramed, ContextIsKept, Alive, Ended, Settled
<1>10. RunnerKnows /\ RunnerIsFirst
  BY <1>8 DEF RunnerKnows, RunnerIsFirst
<1>11. \A a \in Executors : control[a].at = "idle"
  BY <1>2, <1>3 DEF c
<1>12. ControlKnows
  BY <1>11 DEF ControlKnows, Obeyed, Executors
<1>13. ToldApart /\ ToldIsSpent
  BY <1>6, <1>7 DEF ToldApart, ToldIsSpent, Tells
<1>14. Told /\ Briefing
  BY <1>3, <1>6, <1>7 DEF Told, Briefing
<1>15. Cleared
  BY <1>7 DEF Cleared
<1> QED
  BY <1>5, <1>9, <1>10, <1>12, <1>13, <1>14, <1>15 DEF CompanionInv

\* A step that changes nothing keeps it.
LEMMA CompanionStutters ==
  ASSUME CompanionInv, UNCHANGED companionVars
  PROVE  CompanionInv'
<1>1. /\ UNCHANGED <<says, slot, prelude, spent, bond, bonds, epoch, line, runner, control>>
      /\ UNCHANGED <<era, reigns, host, reached, briefed, cut, wiped>>
  BY DEF companionVars
<1>2. \A s \in Group : Carries(s)' = Carries(s)
  BY <1>1 DEF Carries
<1>3. CompanionShape' /\ TurnsAreFramed' /\ ContextIsKept'
  BY <1>1 DEF CompanionInv, CompanionShape, TurnsAreFramed, ContextIsKept, Addresses, Seeded
<1>4. RunnerKnows' /\ RunnerIsFirst'
  BY <1>1 DEF CompanionInv, RunnerKnows, RunnerIsFirst, Seeded, Carries
<1>5. ControlKnows'
  BY <1>1 DEF CompanionInv, ControlKnows, Obeyed, Command, Seeded
<1>6. ToldApart' /\ ToldIsSpent'
  BY <1>1 DEF CompanionInv, ToldApart, ToldIsSpent, Tells, Carries
<1>7. Told' /\ Briefing' /\ Cleared'
  BY <1>1 DEF CompanionInv, Told, Briefing, Cleared, Carries, Seeded
<1> QED
  BY <1>3, <1>4, <1>5, <1>6, <1>7 DEF CompanionInv

\* Every step of the group keeps it.
LEMMA CompanionSteps ==
  ASSUME CompanionInv, [CompanionNext]_companionVars
  PROVE  CompanionInv'
<1>1. ASSUME NEW h \in Handlers, NEW s \in Group, Accept(h, s)
      PROVE  CompanionInv'
  BY <1>1, AcceptStep
<1>2. ASSUME NEW a \in Executors, Fences(a) \/ Replies(a)
      PROVE  CompanionInv'
  BY <1>2, FencesStep, RepliesStep
<1>3. ASSUME NEW s \in Group, \/ Leases(s) \/ Rescue(s) \/ Leaves(s) \/ Fails(s) \/ Resumes(s)
                              \/ Picks(s) \/ Loads(s)
      PROVE  CompanionInv'
  BY <1>3, LeasesStep, RescueStep, LeavesStep, FailsStep, ResumesStep, PicksStep, LoadsStep
<1>4. ASSUME NEW s \in Group, \/ Frames(s) \/ Seats(s) \/ Submits(s) \/ Takes(s) \/ Submitted(s)
                              \/ Doubts(s) \/ Answers(s)
      PROVE  CompanionInv'
  BY <1>4, FramesStep, SeatsStep, SubmitsStep, TakesStep, SubmittedStep, DoubtsStep, AnswersStep
<1>5. ASSUME Closes \/ Down \/ Reopens
      PROVE  CompanionInv'
  BY <1>5, ClosesStep, DownStep, ReopensStep
<1> QED
  BY <1>1, <1>2, <1>3, <1>4, <1>5, CompanionStutters DEF CompanionNext, Executors

\* A companion session never leaves its invariant, for any number of messages, bindings,
\* failed tries, restarts and commands.
THEOREM CompanionIsInvariant == CompanionSpec => []CompanionInv
<1>1. CompanionInit => CompanionInv
  BY CompanionStarts
<1>2. CompanionInv /\ [CompanionNext]_companionVars => CompanionInv'
  BY CompanionSteps
<1> QED
  BY <1>1, <1>2, PTL DEF CompanionSpec

\* Every reachable state of a companion session is well typed.
THEOREM CompanionIsTyped == CompanionSpec => []CompanionTypeOK
<1>1. CompanionInv => CompanionTypeOK
  BY DEF CompanionInv, CompanionShape, CompanionTypeOK, Turn, TurnStates, RunnerPlaces, Executors
<1> QED
  BY <1>1, CompanionIsInvariant, PTL

\* No message of the group is told to the agent twice, and none before the history (see
\* ToldOnce for what a stop may cut off).
THEOREM NothingIsToldTwice == CompanionSpec => []ToldOnce
<1>1. CompanionInv => ToldOnce
  BY DEF CompanionInv, ToldOnce, Told, Briefing
<1> QED
  BY <1>1, CompanionIsInvariant, PTL

\* What a prompt tells that a /clear had found belongs to a turn that came while it ran.
LEMMA TakesIsClean ==
  ASSUME CompanionInv, NEW r \in Group, Takes(r), NEW s \in wiped.texts \ cut,
         reached'[s] > reached[s]
  PROVE  runner.on \in wiped.late
<1>1. runner.at = "prompting" /\ runner.on = r /\ s \in Group /\ reached \in [Group -> 0 .. 2]
  BY DEF Takes, RunnerAt, CompanionInv, CompanionShape
<1>2. s \in Carries(r)
  BY <1>1 DEF Takes
<1>3. slot[r].fixed /\ (slot[r].state = "submitting" \/ Carries(r) \subseteq cut)
  BY <1>1 DEF CompanionInv, RunnerKnows
<1>4. slot[r].state = "submitting"
  BY <1>2, <1>3
<1>5. r \notin wiped.texts
  BY <1>4 DEF CompanionInv, Cleared, Ended
<1>6. r \in wiped.late \/ slot[r].ctx \cap (wiped.texts \cup {History}) = {}
  BY <1>1, <1>3, <1>5 DEF CompanionInv, Cleared
<1>7. s # r
  BY <1>5
<1>8. History \in slot[r].ctx \/ s \in slot[r].ctx
  BY <1>2, <1>7 DEF Carries
<1> QED
  BY <1>1, <1>6, <1>8

\* What a /clear found is told after it only with a message that came while it ran.
THEOREM ClearsStayClean == CompanionSpec => CutIsClean
<1>1. ASSUME CompanionInv, [CompanionNext]_companionVars
      PROVE  \/ \A s \in wiped.texts \ cut : reached'[s] > reached[s] => runner.on \in wiped.late
             \/ UNCHANGED companionVars
  <2> SUFFICES ASSUME NEW s \in wiped.texts \ cut, reached'[s] > reached[s]
               PROVE  runner.on \in wiped.late
    OBVIOUS
  <2>1. s \in Group /\ reached[s] \in 0 .. 2
    <3>1. wiped.texts \subseteq Group /\ reached \in [Group -> 0 .. 2]
      BY <1>1 DEF CompanionInv, CompanionShape
    <3> QED
      BY <3>1
  <2>2. reached' # reached
    BY <2>1
  <2>3. \E r \in Group : Takes(r)
    BY <1>1, <2>2 DEF CompanionNext, companionVars, Accept, Admits, Fences, Replies, Leases, Rescue,
      Leaves, Fails, Resumes, Picks, Loads, Frames, Seats, Submits, Submitted, Doubts, Answers,
      Closes, Down, Reopens, tales
  <2> QED
    BY <1>1, <2>3, TakesIsClean
<1> QED
  BY <1>1, CompanionIsInvariant, PTL DEF CompanionSpec, CutIsClean

-----------------------------------------------------------------------------
(***************************************************************************)
(* A live call.                                                             *)
(***************************************************************************)

Upgrading == phase \in {"upgrade", "parties", "try1", "try2", "shake"}
OnCall == phase \in {"join", "live"}

\* What a call may have of a realtime session, by its phase.
SessionShape ==
  /\ phase \in {"upgrade", "parties"} => rt = "none"
  /\ phase \in {"try1", "try2"} => rt \in {"opening", "ready", "rejected"}
  /\ phase = "shake" => rt \in {"none", "ready", "closed"}
  /\ OnCall => rt \in {"none", "ready", "dead", "closed"}
  /\ phase \in {"stored", "post", "failed", "refused"} => rt \in {"none", "closed"}
  /\ phase = "over" => rt \in {"none", "closed"} \/ (sock = "gone" /\ rt = "ready")

\* As long as the call lasts, the work that is pending is what was begun and not finished.
WorkIsPending ==
  /\ Upgrading => \A w \in Work : jobs[w] = "idle" /\ w \notin pending
  /\ OnCall => \A w \in Work : w \in pending <=> jobs[w] \in {"running", "answered"}

VoiceShape ==
  /\ phase \in {"upgrade", "parties", "try1", "try2", "shake", "join", "live", "stored", "post",
                "over", "failed", "refused"}
  /\ sock \in {"raw", "gone", "open", "closing", "closed"}
  /\ rt \in {"none", "opening", "ready", "rejected", "dead", "closed"}
  /\ ended \in BOOLEAN /\ armed \in BOOLEAN /\ requested \in BOOLEAN /\ delivered \in BOOLEAN
  /\ follow \in {"none", "actions", "reflection"}
  /\ pending \subseteq Work
  /\ owners \in Seq(Work \cup {NoOwner}) /\ asked \in Nat
  /\ owned \in [Work -> (SUBSET All) \cup {NoResponse}]
  /\ jobs \in [Work -> {"idle", "running", "answered", "finished"}]
  /\ actions \in 0 .. MaxActions
  /\ bounds \in [presses : 0 .. MaxPresses, own : 0 .. MaxOwn]

VoiceInv == VoiceShape /\ SessionShape /\ WorkIsPending

\* A call that begins.
LEMMA VoiceStarts ==
  ASSUME VoiceInit
  PROVE  VoiceInv
<1>1. owned \in [Work -> (SUBSET All) \cup {NoResponse}]
      /\ jobs \in [Work -> {"idle", "running", "answered", "finished"}]
  BY DEF VoiceInit
<1>2. owners \in Seq(Work \cup {NoOwner})
  BY DEF VoiceInit
<1>3. bounds \in [presses : 0 .. MaxPresses, own : 0 .. MaxOwn] /\ actions \in 0 .. MaxActions
  BY WorkAssumption DEF VoiceInit
<1>4. VoiceShape
  BY <1>1, <1>2, <1>3 DEF VoiceInit, VoiceShape
<1> QED
  BY <1>4 DEF VoiceInit, VoiceInv, SessionShape, WorkIsPending, Upgrading, OnCall

\* The upgrade, the join, the end of the call and what follows it.
LEMMA CallMoves ==
  ASSUME VoiceInv,
         \/ Authenticates \/ PartiesKnown \/ SessionAnswers \/ TryWorks \/ TryFails \/ CallerGone
         \/ Handshake \/ CallJoins \/ CallEnds \/ SessionDies \/ SocketEnds
         \/ FetchesTranscript \/ FollowUpEnds
  PROVE  VoiceInv' /\ delivered' = delivered
<1> USE DEF VoiceInv, VoiceShape, SessionShape, WorkIsPending, Upgrading, OnCall, callTools, callEnd
<1>1. CASE Authenticates
  BY <1>1 DEF Authenticates
<1>2. CASE PartiesKnown
  BY <1>2 DEF PartiesKnown
<1>3. CASE SessionAnswers
  BY <1>3 DEF SessionAnswers
<1>4. CASE TryWorks
  BY <1>4 DEF TryWorks
<1>5. CASE TryFails
  BY <1>5 DEF TryFails
<1>6. CASE CallerGone
  BY <1>6 DEF CallerGone
<1>7. CASE Handshake
  BY <1>7 DEF Handshake
<1>8. CASE CallJoins
  BY <1>8 DEF CallJoins
<1>9. CASE CallEnds
  BY <1>9 DEF CallEnds, Connected
<1>10. CASE SessionDies
  BY <1>10 DEF SessionDies
<1>11. CASE SocketEnds
  BY <1>11 DEF SocketEnds
<1>12. CASE FetchesTranscript
  BY <1>12 DEF FetchesTranscript
<1>13. CASE FollowUpEnds
  BY <1>13 DEF FollowUpEnds
<1> QED
  BY <1>1, <1>2, <1>3, <1>4, <1>5, <1>6, <1>7, <1>8, <1>9, <1>10, <1>11, <1>12, <1>13

\* A call is torn down, with its session.
LEMMA CallCloses ==
  ASSUME VoiceInv, CallFails \/ TearsDown
  PROVE  VoiceInv' /\ delivered' = delivered
<1>1. /\ phase' \in {"failed", "stored"} /\ sock' = "closed" /\ CloseRealtime
      /\ UNCHANGED <<ended, follow, bounds>>
  BY DEF CallFails, TearsDown, callEnd
<1>2. rt' \in {"none", "closed"}
  BY <1>1 DEF CloseRealtime
<1>3. owned' \in [Work -> (SUBSET All) \cup {NoResponse}] /\ owners' \in Seq(Work \cup {NoOwner})
  BY <1>1 DEF CloseRealtime
<1>4. /\ pending' = {} /\ asked' = 0 /\ UNCHANGED <<armed, requested, delivered, jobs, actions>>
  BY <1>1 DEF CloseRealtime
<1>5. VoiceShape'
  BY <1>1, <1>2, <1>3, <1>4 DEF VoiceInv, VoiceShape
<1> QED
  BY <1>1, <1>2, <1>4, <1>5 DEF VoiceInv, SessionShape, WorkIsPending, Upgrading, OnCall

\* The end of a piece of work: the press that waited for the last one is done.
LEMMA WorkIsOver ==
  ASSUME VoiceInv, NEW w \in Work, ~Upgrading, WorkEnds(w),
         UNCHANGED <<phase, rt, armed, requested, callEnd, bounds, actions>>,
         owners' \in Seq(Work \cup {NoOwner}), asked' \in Nat,
         owned' \in [Work -> (SUBSET All) \cup {NoResponse}]
  PROVE  /\ VoiceInv'
         /\ delivered' /\ ~delivered => pending' = {}
<1>1. /\ pending' = pending \ {w} /\ jobs' = [jobs EXCEPT ![w] = "finished"]
      /\ delivered' = (delivered \/ (requested /\ ~delivered /\ pending' = {}))
      /\ sock' = IF requested /\ ~delivered /\ pending' = {} /\ sock = "open"
                 THEN "closing" ELSE sock
  BY DEF WorkEnds, HangsUp
<1>2. jobs' \in [Work -> {"idle", "running", "answered", "finished"}] /\ pending' \subseteq Work
  BY <1>1 DEF VoiceInv, VoiceShape
<1>3. VoiceShape'
  BY <1>1, <1>2 DEF VoiceInv, VoiceShape, callEnd
<1>4. SessionShape'
  BY <1>1 DEF VoiceInv, SessionShape, OnCall
<1>5. WorkIsPending'
  BY <1>1 DEF VoiceInv, VoiceShape, WorkIsPending, Upgrading, OnCall
<1> QED
  BY <1>1, <1>3, <1>4, <1>5 DEF VoiceInv, VoiceShape

\* The model's tools, and the responses of the realtime server.
LEMMA ToolsMove ==
  ASSUME VoiceInv,
         \/ CreatedAsked \/ CreatedOwn \/ Presses \/ WindowPasses \/ Notes
         \/ \E w \in Work : \/ WorkBegins(w) \/ WorkAnswers(w) \/ GivesUpOn(w)
                            \/ \E output \in All : Comes(w, output)
  PROVE  VoiceInv' /\ (delivered' /\ ~delivered => pending' = {})
<1>1. CASE CreatedAsked \/ CreatedOwn
  <2>1. /\ Created /\ bounds' \in [presses : 0 .. MaxPresses, own : 0 .. MaxOwn] /\ asked' \in Nat
    BY <1>1, WorkAssumption DEF CreatedAsked, CreatedOwn, VoiceInv, VoiceShape
  <2>2. owners' \in Seq(Work \cup {NoOwner})
    BY <2>1 DEF Created, VoiceInv, VoiceShape
  <2>3. owned' \in [Work -> (SUBSET All) \cup {NoResponse}]
    BY <2>1 DEF Created, VoiceInv, VoiceShape
  <2>4. UNCHANGED <<phase, sock, rt, armed, requested, delivered, pending, jobs, actions, ended,
        follow>>
    BY <2>1 DEF Created, callEnd
  <2>5. VoiceShape'
    BY <2>1, <2>2, <2>3, <2>4 DEF VoiceInv, VoiceShape
  <2> QED
    BY <2>4, <2>5 DEF VoiceInv, SessionShape, WorkIsPending, Upgrading, OnCall
<1>2. CASE Presses
  <2>1. /\ bounds' \in [presses : 0 .. MaxPresses, own : 0 .. MaxOwn] /\ OnCall
        /\ UNCHANGED <<phase, rt, pending, owned, jobs, actions, ended, follow>>
    BY <1>2, WorkAssumption DEF Presses, Connected, OnCall, VoiceInv, VoiceShape, callEnd
  <2>2. owners' \in Seq(Work \cup {NoOwner}) /\ asked' \in Nat
    <3>1. UNCHANGED <<owners, asked>> \/ Respond(NoOwner)
      BY <1>2 DEF Presses
    <3>2. owners \in Seq(Work \cup {NoOwner}) /\ asked \in Nat
      BY DEF VoiceInv, VoiceShape
    <3> QED
      BY <3>1, <3>2 DEF Respond
  <2>3. /\ sock' \in {"raw", "gone", "open", "closing", "closed"}
        /\ armed' \in BOOLEAN /\ requested' \in BOOLEAN /\ delivered' \in BOOLEAN
        /\ delivered' /\ ~delivered => pending = {}
    BY <1>2 DEF Presses, HangsUp, VoiceInv, VoiceShape
  <2>4. VoiceShape'
    BY <2>1, <2>2, <2>3 DEF VoiceInv, VoiceShape
  <2> QED
    BY <2>1, <2>3, <2>4 DEF VoiceInv, SessionShape, WorkIsPending, Upgrading, OnCall
<1>3. CASE WindowPasses
  <2>1. /\ armed' \in BOOLEAN
        /\ UNCHANGED <<phase, sock, rt, requested, delivered, pending, owners, owned, jobs, asked>>
        /\ UNCHANGED <<actions, ended, follow, bounds>>
    BY <1>3 DEF WindowPasses, callEnd
  <2>2. VoiceShape'
    BY <2>1 DEF VoiceInv, VoiceShape
  <2> QED
    BY <2>1, <2>2 DEF VoiceInv, SessionShape, WorkIsPending, Upgrading, OnCall
<1>4. CASE Notes
  <2>1. /\ owners' \in Seq(Work \cup {NoOwner}) /\ asked' \in Nat /\ actions' \in 0 .. MaxActions
    BY <1>4, WorkAssumption DEF Notes, Respond, VoiceInv, VoiceShape
  <2>2. UNCHANGED <<phase, sock, rt, armed, requested, delivered, pending, owned, jobs, ended,
        follow, bounds>>
    BY <1>4 DEF Notes, callEnd
  <2>3. VoiceShape'
    BY <2>1, <2>2 DEF VoiceInv, VoiceShape
  <2> QED
    BY <2>2, <2>3 DEF VoiceInv, SessionShape, WorkIsPending, Upgrading, OnCall
<1>5. ASSUME NEW w \in Work, WorkBegins(w)
      PROVE  VoiceInv' /\ delivered' = delivered
  <2>1. /\ OnCall /\ jobs' = [jobs EXCEPT ![w] = "running"] /\ pending' = pending \cup {w}
        /\ UNCHANGED <<phase, sock, rt, armed, requested, delivered, owners, owned, asked, actions>>
        /\ UNCHANGED <<ended, follow, bounds>>
    BY <1>5 DEF WorkBegins, Connected, OnCall, callEnd
  <2>2. VoiceShape'
    BY <2>1 DEF VoiceInv, VoiceShape
  <2> QED
    BY <2>1, <2>2 DEF VoiceInv, VoiceShape, SessionShape, WorkIsPending, Upgrading, OnCall
<1>6. ASSUME NEW w \in Work, WorkAnswers(w)
      PROVE  VoiceInv' /\ (delivered' /\ ~delivered => pending' = {})
  <2>1. ~Upgrading
    BY <1>6 DEF WorkAnswers, VoiceInv, WorkIsPending
  <2>2. CASE Speaking
    <3>1. /\ OnCall /\ jobs' = [jobs EXCEPT ![w] = "answered"] /\ jobs[w] = "running"
          /\ UNCHANGED <<phase, sock, rt, armed, requested, delivered, pending, owned, actions>>
          /\ UNCHANGED <<ended, follow, bounds>>
      BY <1>6, <2>2 DEF WorkAnswers, Speaking, OnCall, callEnd
    <3>2. owners' \in Seq(Work \cup {NoOwner}) /\ asked' \in Nat
      BY <1>6, <2>2 DEF WorkAnswers, Respond, VoiceInv, VoiceShape
    <3>3. VoiceShape'
      BY <3>1, <3>2 DEF VoiceInv, VoiceShape
    <3> QED
      BY <3>1, <3>3 DEF VoiceInv, VoiceShape, SessionShape, WorkIsPending, Upgrading, OnCall
  <2>3. CASE ~Speaking
    BY <1>6, <2>1, <2>3, WorkIsOver DEF WorkAnswers, VoiceInv, VoiceShape
  <2> QED
    BY <2>2, <2>3
<1>7. ASSUME NEW w \in Work, GivesUpOn(w)
      PROVE  VoiceInv' /\ (delivered' /\ ~delivered => pending' = {})
  <2>1. ~Upgrading
    BY <1>7 DEF GivesUpOn, VoiceInv, WorkIsPending
  <2> QED
    BY <1>7, <2>1, WorkIsOver DEF GivesUpOn, VoiceInv, VoiceShape
<1>8. ASSUME NEW w \in Work, NEW output \in All, Comes(w, output)
      PROVE  VoiceInv' /\ (delivered' /\ ~delivered => pending' = {})
  <2> DEFINE got == owned[w] \cup {output}
  <2>1. /\ OnCall /\ ~Upgrading /\ owned[w] # NoResponse
        /\ UNCHANGED <<phase, rt, armed, requested, owners, asked, actions, callEnd, bounds>>
    BY <1>8 DEF Comes, Speaking, OnCall, Upgrading
  <2>2. got \in SUBSET All
    BY <2>1 DEF VoiceInv, VoiceShape
  <2>3. CASE owned' = [owned EXCEPT ![w] = NoResponse] /\ WorkEnds(w)
    <3>1. owned' \in [Work -> (SUBSET All) \cup {NoResponse}]
      BY <2>3 DEF VoiceInv, VoiceShape
    <3>2. owners' \in Seq(Work \cup {NoOwner}) /\ asked' \in Nat
      BY <2>1 DEF VoiceInv, VoiceShape
    <3> QED
      BY <2>1, <2>3, <3>1, <3>2, WorkIsOver
  <2>4. CASE owned' = [owned EXCEPT ![w] = got] /\ UNCHANGED <<sock, pending, delivered, jobs>>
    <3>1. owned' \in [Work -> (SUBSET All) \cup {NoResponse}]
      BY <2>2, <2>4 DEF VoiceInv, VoiceShape
    <3>2. VoiceShape'
      BY <2>1, <2>4, <3>1 DEF VoiceInv, VoiceShape, callEnd
    <3> QED
      BY <2>1, <2>4, <3>2 DEF VoiceInv, SessionShape, WorkIsPending, Upgrading, OnCall
  <2> QED
    BY <1>8, <2>3, <2>4 DEF Comes
<1> QED
  BY <1>1, <1>2, <1>3, <1>4, <1>5, <1>6, <1>7, <1>8

\* A step of a call: it keeps the invariant, and hangs up only with nothing pending.
LEMMA VoiceSteps ==
  ASSUME VoiceInv, [VoiceNext]_voiceVars
  PROVE  VoiceInv' /\ (delivered' /\ ~delivered => pending' = {})
<1>1. CASE UNCHANGED voiceVars
  BY <1>1 DEF voiceVars, VoiceInv, VoiceShape, SessionShape, WorkIsPending, Upgrading, OnCall
<1>2. CASE VoiceNext
  BY <1>2, CallMoves, CallCloses, ToolsMove DEF VoiceNext
<1> QED
  BY <1>1, <1>2

\* A call never leaves its invariant, for any responses, tool calls and presses.
THEOREM CallIsInvariant == VoiceSpec => []VoiceInv
<1>1. VoiceInit => VoiceInv
  BY VoiceStarts
<1>2. VoiceInv /\ [VoiceNext]_voiceVars => VoiceInv'
  BY VoiceSteps
<1> QED
  BY <1>1, <1>2, PTL DEF VoiceSpec

\* Every reachable state of a call is well typed.
THEOREM CallIsTyped == VoiceSpec => []VoiceTypeOK
<1>1. VoiceInv => VoiceTypeOK
  BY DEF VoiceInv, VoiceShape, VoiceTypeOK
<1> QED
  BY <1>1, CallIsInvariant, PTL

\* A hangup of the model waits for the tool calls it began, and a call that is over has
\* closed its realtime session.
THEOREM GoodbyesWait == VoiceSpec => GoodbyeAfterWork
<1>1. ASSUME VoiceInv, [VoiceNext]_voiceVars
      PROVE  [delivered' /\ ~delivered /\ phase \in {"join", "live"}
                => \A w \in Work : jobs'[w] \in {"idle", "finished"}]_voiceVars
  <2> SUFFICES ASSUME delivered', ~delivered, phase \in {"join", "live"}, NEW w \in Work
               PROVE  jobs'[w] \in {"idle", "finished"}
    OBVIOUS
  <2>1. VoiceInv' /\ pending' = {}
    BY <1>1, VoiceSteps
  <2>2. phase' \in {"join", "live"}
    BY <1>1 DEF VoiceNext, voiceVars, Authenticates, PartiesKnown, SessionAnswers, TryWorks,
      TryFails,
      CallerGone, Handshake, CallJoins, CallFails, TearsDown, CallEnds, SessionDies, CreatedAsked,
      CreatedOwn, Created, Presses, WindowPasses, Notes, SocketEnds, WorkBegins, WorkAnswers,
      GivesUpOn, Comes, FetchesTranscript, FollowUpEnds, CloseRealtime, callTools
  <2> QED
    BY <2>1, <2>2 DEF VoiceInv, VoiceShape, WorkIsPending, OnCall
<1>2. VoiceInv => (phase \in {"over", "failed", "refused"} /\ sock # "gone" =>
        rt \in {"none", "closed"})
  BY DEF VoiceInv, SessionShape
<1> QED
  BY <1>1, <1>2, CallIsInvariant, PTL DEF VoiceSpec, GoodbyeAfterWork

=============================================================================

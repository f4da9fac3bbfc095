------------------------------ MODULE MCParts ------------------------------
(***************************************************************************)
(* Components that meet only through the platform or the file system, each  *)
(* on its own: `focus` says which one takes the steps of a behaviour, and  *)
(* the others stay where they began.                                        *)
(***************************************************************************)
EXTENDS A2ATask, NativeSend, SlackProgress, Controls, Ingress, Journals, Companion,
        Subscriptions, VoiceCall

CONSTANTS c1, c2, k1, k2, k3, m1, m2, m3, r1, r2, t1, p1, p2, p3, g1, g2

VARIABLE focus

vars == <<taskVars, sendVars, cardVars, controlVars, ingressVars, journalVars, companionVars,
          subscriptionVars, voiceVars, focus>>

B(x) == IF x THEN 1 ELSE 0
HowMany(S, P(_)) == Cardinality({x \in S : P(x)})

\* A2A task: of a second message, a restart, an outcome tool and a cancellation two;
\* a second message comes before the others, and the tool is then the first one's.
TaskBound ==
  /\ sent > 1 => tool[2] = "idle"
  /\ B(sent > 1) + B(starts > 1 \/ gate = "closing") + B(calls > 0)
       + B(cancelHook # "none") <= 2
SecondIsEarly == sent' > sent => cancelHook = "none" /\ (sent > 0 => starts <= 1)

\* Native sends: the reply has the first key and matter, the calls' other keys come in
\* order, and the first call goes first; one call at least is the turn's, and of a lost
\* lease, a stop and a call that is refused or whose process dies one.
SendStart ==
  /\ ask[AutoReply].key = k1 /\ ask[AutoReply].matter = m1
  /\ \E c \in Calls : ask[c].src = "turn"
  /\ ask[c1].key # k3 /\ (ask[c2].key = k3 => ask[c1].key = k2)
  /\ focus # "send" =>
       channel = "text" /\ \A c \in Calls : ask[c] = [ask[AutoReply] EXCEPT !.key = k2]
SendBound ==
  /\ at[c2] # "idle" => at[c1] # "idle"
  /\ B(~leased \/ holder > 1) + B(origin = "interrupted")
       + HowMany(Calls, LAMBDA c : at[c] = "gone") <= 1

\* Slack card: of effects that fail or get lost, polls and retries two; a second gateway
\* comes when the first one leaves, early in the card's life, and one of them happened if
\* the first is gone by then.
CardBound ==
  LET bad == HowMany(DOMAIN log, LAMBDA i : log[i].fate \in {"lost", "failed"})
             + card.pending.polls + card.retries
  IN /\ ~calm /\ bad <= 2
     /\ (\A p \in Gateways : life[p] # "new") =>
          /\ notes <= 1 /\ card.retries = 0 /\ card.pending.polls = 0 /\ card.rev <= 2
          /\ bad <= B(\E p \in Gateways : life[p] = "down")
          /\ \E p \in Gateways : life[p] \in {"closing", "down"}

\* Controls: of a second message, a second question, another gateway's message, a
\* restart or close and a second delivery two; or three with one message, or without
\* questions and other gateways; or three messages of which one is a control.
ControlBound ==
  LET Seen   == {m \in Messages : what[m] # "nothing"}
      Again  == {m \in Messages : tries[m] > 1}
      Other  == {m \in Messages : what[m] = "foreign"}
      Orders == {m \in Messages : what[m] \in {"stop", "clear"}}
      Budget == B(m2 \in Seen) + B(asks > 1) + B(boots > 1 \/ power = "closing")
                + Cardinality(Other) + Cardinality(Again)
  IN /\ m2 \in Seen => m1 \in Seen
     /\ m3 \in Seen => m2 \in Seen
     /\ \/ /\ m3 \notin Seen /\ Budget <= 3
           /\ Budget = 3 => m2 \notin Seen \/ (asks = 0 /\ Other = {})
        \/ /\ Cardinality(Orders) = 1 /\ Again = {}
           /\ asks = 0 /\ boots = 1 /\ power = "up" /\ \A m \in Messages : what[m] # "answer"

\* Ingress: of lapsed claims, a restart and a close one; one failure notice.
IngressBound ==
  /\ lapses[r1] + lapses[r2] + (lives - 1) + B(door = "closing") <= 1
  /\ HowMany(Requests, LAMBDA r : sort[r] = "failure") <= 1
  /\ posted[r2] > 0 => posted[r1] > 0

\* Journal files: the writers come in order; where locks name owners two
\* may die, where they are judged by age there are two writers or none dies.
JournalBound ==
  /\ protocol # "owned" => HowMany(Writers, Dead) + B(step[p3] # "idle") <= 1
  /\ step[p2] # "idle" => step[p1] # "idle"
  /\ step[p3] # "idle" => step[p2] # "idle"

\* Companion: the later messages but one address the agent and are no commands; two
\* bindings and one reset; of failed tries, a rebinding, a restart and a command one
\* (a command and a failed try, or a rebinding, may both be).
CompanionStart ==
  /\ says[Trigger] = "ask"
  /\ HowMany(Later, LAMBDA s : says[s] # "ask") <= 1
  /\ focus # "companion" => \A s \in Group : says[s] = "ask"
CompanionBound ==
  /\ bonds <= 2 /\ epoch <= 1
  /\ HowMany(Group, LAMBDA s : slot[s].tries > 0 \/ (slot[s].state = "paused" /\ slot[s].doubt))
     + (bonds - 1) + B(era # "up" \/ reigns > 1) <= 1
  /\ (era # "up" \/ reigns > 1) => \A s \in Group : Command(s) => slot[s] = Blank

\* Subscriptions: the first row serves several channels, one channel, another gateway
\* or nothing, the second one the mailbox alone, with iMessage or not at all; the
\* server knows every event type, or not the reactions, or not those of A2A.
Mixed == {<<"a2a", 1>>, <<"whatsapp", 1>>, <<"slack", 1>>, <<"imessage", 1>>}
AllEvents == UNION {Events(Channels[i]) : i \in DOMAIN Channels} \cup {<<"imessage", 1>>}
Row(owner, url, types, active) == [owner |-> owner, url |-> url, types |-> types, active |-> active]
SubscriptionStart ==
  /\ known \in {AllEvents, AllEvents \ {Reactions}, AllEvents \ Events("a2a")}
  /\ \E one \in {NoRow, Row("identity", "ours", Mixed \cap known, TRUE),
                 Row("identity", "ours", {<<"slack", 1>>}, FALSE),
                 Row("identity", "other", Mixed \cap known, TRUE)},
        two \in {NoRow, Row("mailbox", "query", {<<"mailbox", 1>>}, TRUE),
                 Row("mailbox", "query", {<<"mailbox", 1>>, <<"imessage", 1>>}, TRUE)} :
       /\ atFirst = [id \in RowIds |-> IF id = 1 THEN one ELSE IF id = 2 THEN two ELSE NoRow]
       /\ focus # "rows" => known = AllEvents /\ one = NoRow /\ two = NoRow
SubscriptionBound == stage[g2] # "new" => stage[g1] # "new"

\* A call: of a second tool call, a follow-up action, a response of the server's own
\* and the end of the realtime session one.
VoiceBound ==
  /\ asked <= 2 /\ Len(owners) <= 2
  /\ bounds.own + actions + B(rt = "dead") + B(jobs["w2"] # "idle") <= 1
  /\ jobs["w2"] # "idle" => jobs["w1"] # "idle" /\ asked <= 1

Init ==
  /\ focus \in {"task", "send", "card", "control", "ingress", "files", "companion", "rows",
                "call"}
  /\ TaskInit /\ CardInit /\ ControlInit /\ VoiceInit
  /\ SendInit /\ SendStart
  /\ IngressInit /\ body[r1] = t1 /\ (focus # "ingress" => body[r2] = t1)
  /\ JournalInit /\ (focus # "files" => protocol = "bare")
  /\ CompanionInit /\ CompanionStart
  /\ SubscriptionStart /\ SubscriptionInit

Next ==
  /\ UNCHANGED focus
  /\ \/ /\ focus = "task" /\ TaskNext /\ TaskBound' /\ SecondIsEarly
        /\ UNCHANGED <<sendVars, cardVars, controlVars, ingressVars, journalVars, companionVars,
                       subscriptionVars, voiceVars>>
     \/ /\ focus = "send" /\ SendNext /\ SendBound'
        /\ UNCHANGED <<taskVars, cardVars, controlVars, ingressVars, journalVars, companionVars,
                       subscriptionVars, voiceVars>>
     \/ /\ focus = "card" /\ CardNext /\ CardBound'
        /\ UNCHANGED <<taskVars, sendVars, controlVars, ingressVars, journalVars, companionVars,
                       subscriptionVars, voiceVars>>
     \/ /\ focus = "control" /\ ControlNext /\ ControlBound'
        /\ UNCHANGED <<taskVars, sendVars, cardVars, ingressVars, journalVars, companionVars,
                       subscriptionVars, voiceVars>>
     \/ /\ focus = "ingress" /\ IngressNext /\ IngressBound'
        /\ UNCHANGED <<taskVars, sendVars, cardVars, controlVars, journalVars, companionVars,
                       subscriptionVars, voiceVars>>
     \/ /\ focus = "files" /\ JournalNext /\ JournalBound'
        /\ UNCHANGED <<taskVars, sendVars, cardVars, controlVars, ingressVars, companionVars,
                       subscriptionVars, voiceVars>>
     \/ /\ focus = "companion" /\ CompanionNext /\ CompanionBound'
        /\ UNCHANGED <<taskVars, sendVars, cardVars, controlVars, ingressVars, journalVars,
                       subscriptionVars, voiceVars>>
     \/ /\ focus = "rows" /\ SubscriptionNext /\ SubscriptionBound'
        /\ UNCHANGED <<taskVars, sendVars, cardVars, controlVars, ingressVars, journalVars,
                       companionVars, voiceVars>>
     \/ /\ focus = "call" /\ VoiceNext /\ VoiceBound'
        /\ UNCHANGED <<taskVars, sendVars, cardVars, controlVars, ingressVars, journalVars,
                       companionVars, subscriptionVars>>

Spec == Init /\ [][Next]_vars
=============================================================================

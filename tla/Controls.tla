------------------------------ MODULE Controls ------------------------------
(***************************************************************************)
(* WhatsApp messages of one author in one conversation, from the webhook   *)
(* to their effect (gateway/index.ts wrapSessions, whatsapp-native.ts       *)
(* reserveWhatsAppIngress): texts become turns, answers go to the question  *)
(* the human was asked, /stop and /clear act on the work and the session    *)
(* that were there when they came.  The provider sends a message again      *)
(* until it is acknowledged; a gateway may crash, close and start again.    *)
(*                                                                          *)
(* A step is the code between two awaits.  The receipt of a message keeps   *)
(* what it was taken for the first time it came.                            *)
(***************************************************************************)
EXTENDS Naturals, Sequences, FiniteSets

CONSTANTS Messages,       \* messages of the conversation
          Nil,            \* no message
          MaxDeliveries,  \* times the provider sends each (bounds the model)
          MaxAsks,        \* questions put to the human (bounds the model)
          MaxBoots        \* gateways, one after the other (bounds the model)

ASSUME ControlAssumption == /\ Nil \notin Messages
                            /\ MaxDeliveries \in Nat /\ MaxAsks \in Nat /\ MaxBoots \in Nat \ {0}

VARIABLES
  what,      \* what the human wrote
  due,       \* deliveries the gateway has not begun to handle
  tries,     \* deliveries so far
  confirmed, \* the provider got its 200
  receipt,   \* the journal's entry of each message
  work,      \* the state of the turn each message began
  part,      \* the turn that holds each message
  gen,       \* sessionGenerations of the conversation
  bound,     \* the conversation has a session
  power,     \* the gateway: "down", "up", "closing"
  boots,     \* gateways so far
  question,  \* the waiter of the open question, 0 for none
  asks,      \* questions so far
  hand,      \* the handler of each message, if one runs
  left,      \* turns that handler has yet to stop
  shaky,     \* it could not confirm one of them
  heard,     \* history: messages in the order they first came
  open,      \* history: the question that was open then
  born,      \* history: how many had been heard when the session was made
  deeds      \* history: what each answer and control did

journal == <<receipt, work, part, gen, bound>>
handler == <<hand, left, shaky>>
past    == <<heard, open, born, deeds>>
link    == <<what, due, tries, confirmed>>
controlVars == <<what, due, tries, confirmed, receipt, work, part, gen, bound, power, boots,
                 question, asks, hand, left, shaky, heard, open, born, deeds>>

Unread == [kind |-> "none", waiter |-> 0, turns |-> {}, gen |-> 0, done |-> FALSE]
Receipt == [kind : {"none", "permission", "normal", "command"}, waiter : 0 .. MaxAsks,
            turns : SUBSET Messages, gen : Nat, done : BOOLEAN]
WorkState == {"none", "queued", "active", "posting", "paused", "over", "stopped"}
HandState == {"idle", "adding", "fencing", "replying"}
Deed == [by : Messages, did : {"answered", "stopped", "cleared"}, to : Messages \cup Nat]

ControlTypeOK ==
  /\ what \in [Messages -> {"nothing", "text", "answer", "stop", "clear", "foreign"}]
  /\ due \in [Messages -> 0 .. MaxDeliveries] /\ tries \in [Messages -> 0 .. MaxDeliveries]
  /\ confirmed \in [Messages -> BOOLEAN] /\ receipt \in [Messages -> Receipt]
  /\ work \in [Messages -> WorkState]
  /\ part \in [Messages -> Messages \cup {Nil}]
  /\ gen \in Nat /\ bound \in BOOLEAN
  /\ power \in {"down", "up", "closing"} /\ boots \in 0 .. MaxBoots
  /\ question \in 0 .. MaxAsks /\ asks \in 0 .. MaxAsks
  /\ hand \in [Messages -> HandState]
  /\ left \in [Messages -> SUBSET Messages]
  /\ shaky \in [Messages -> BOOLEAN]
  /\ heard \in Seq(Messages) /\ open \in [Messages -> 0 .. MaxAsks]
  /\ born \in Nat /\ deeds \subseteq Deed

ControlInit ==
  /\ what = [m \in Messages |-> "nothing"] /\ due = [m \in Messages |-> 0]
  /\ tries = [m \in Messages |-> 0] /\ confirmed = [m \in Messages |-> FALSE]
  /\ receipt = [m \in Messages |-> Unread] /\ work = [m \in Messages |-> "none"]
  /\ part = [m \in Messages |-> Nil] /\ gen = 0 /\ bound = FALSE
  /\ power = "up" /\ boots = 1 /\ question = 0 /\ asks = 0
  /\ hand = [m \in Messages |-> "idle"] /\ left = [m \in Messages |-> {}]
  /\ shaky = [m \in Messages |-> FALSE]
  /\ heard = <<>> /\ open = [m \in Messages |-> 0] /\ born = 0 /\ deeds = {}

-----------------------------------------------------------------------------
On == power \in {"up", "closing"}
Active(t) == work[t] \in {"queued", "active", "posting", "paused"}
Own(t) == what[t] # "foreign"
Foreign == \E t \in Messages : Active(t) /\ ~Own(t)

\* The place of a message, and of the turn it began, in the order they came.
Since(m) == CHOOSE i \in DOMAIN heard : heard[i] = m
First(S) == {t \in S : \A u \in S : Since(t) <= Since(u)}

Hears(m) == IF receipt[m] # Unread THEN UNCHANGED <<heard, open>>
            ELSE heard' = Append(heard, m) /\ open' = [open EXCEPT ![m] = question]

\* What a message is taken for, from what is there when it first comes.
Disposition(m) ==
  CASE what[m] = "answer" /\ question # 0 ->
         [Unread EXCEPT !.kind = "permission", !.waiter = question]
    [] what[m] \in {"stop", "clear"} ->
         [Unread EXCEPT !.kind = "command", !.waiter = question, !.gen = gen,
                        !.turns = {t \in Messages : work[t] # "none" /\ Own(t)}]
    [] OTHER -> [Unread EXCEPT !.kind = "normal", !.waiter = question]

\* Variant: every delivery is taken for what it finds.
ReservedAnew(m) == Disposition(m)

\* reserveWhatsAppIngress: the first disposition stays.
Reserved(m) == IF receipt[m] = Unread THEN Disposition(m) ELSE receipt[m]

-----------------------------------------------------------------------------
(* The provider, the host and the human *)

Deliver(m, k) ==
  /\ On /\ ~confirmed[m] /\ tries[m] < MaxDeliveries
  /\ what[m] = IF tries[m] = 0 THEN "nothing" ELSE k
  /\ k # "foreign"
  /\ what' = [what EXCEPT ![m] = k]
  /\ due' = [due EXCEPT ![m] = @ + 1] /\ tries' = [tries EXCEPT ![m] = @ + 1]
  /\ UNCHANGED <<confirmed, journal, power, boots, question, asks, handler, past>>

\* A message of the same contact on another channel, in the same conversation.
ForeignComes(m) ==
  /\ power = "up" /\ what[m] = "nothing"
  /\ what' = [what EXCEPT ![m] = "foreign"] /\ work' = [work EXCEPT ![m] = "queued"]
  /\ part' = [part EXCEPT ![m] = m] /\ heard' = Append(heard, m)
  /\ UNCHANGED <<due, tries, confirmed, receipt, gen, bound, power, boots, question, asks, handler,
                 open, born, deeds>>

\* The next turn is taken up; the first one makes the session, and each one, by taking the
\* session, takes the generation too: a reset captured before cannot detach it any more.
Take(t) ==
  /\ On /\ work[t] = "queued" /\ \A o \in Messages : work[o] \notin {"active", "posting", "paused"}
  /\ work' = [work EXCEPT ![t] = "active"]
  /\ bound' = TRUE /\ gen' = gen + 1
  /\ born' = IF bound THEN born ELSE Len(heard)
  /\ UNCHANGED <<link, receipt, part, power, boots, question, asks, handler, heard, open, deeds>>

\* The turn goes on: it answers, it is posted, or a rescue finds its answer.
HandlerSteps(t) ==
  /\ On /\ \/ work[t] = "active" /\ work' = [work EXCEPT ![t] = "posting"]
           \/ work[t] \in {"posting", "paused"} /\ work' = [work EXCEPT ![t] = "over"]
  /\ UNCHANGED <<link, receipt, part, gen, bound, power, boots, question, asks, handler, past>>

Ask ==
  /\ power = "up" /\ question = 0 /\ asks < MaxAsks
  /\ \E t \in Messages : work[t] = "active" /\ Own(t)
  /\ asks' = asks + 1 /\ question' = asks + 1
  /\ UNCHANGED <<link, journal, power, boots, handler, past>>

\* The deadline, or the host, ends the question.
Withdraw ==
  /\ question # 0 /\ question' = 0
  /\ UNCHANGED <<link, journal, power, boots, asks, handler, past>>

-----------------------------------------------------------------------------
(* The handler of one delivery *)

Begins(m) == On /\ due[m] > 0 /\ hand[m] = "idle" /\ due' = [due EXCEPT ![m] = @ - 1]
Acks(m) == confirmed' = [confirmed EXCEPT ![m] = TRUE]
Quiet(m) == hand' = [hand EXCEPT ![m] = "idle"] /\ left' = [left EXCEPT ![m] = {}]
            /\ shaky' = [shaky EXCEPT ![m] = FALSE]
Knows(m, r) == receipt' = [receipt EXCEPT ![m] = r]
Retried(m) == receipt[m] # Unread
              /\ (receipt[m].kind = "normal" \/ what[m] = "text" \/ part[m] # Nil)

\* The identity or the contact cannot be read: the provider tries again.
FailsEarly(m) ==
  /\ Begins(m)
  /\ UNCHANGED <<what, tries, confirmed, journal, power, boots, question, asks, handler, past>>

\* Variant: a reservation counts as done.
AlreadySeen(m) ==
  /\ Begins(m) /\ receipt[m] # Unread /\ what[m] \in {"answer", "stop", "clear"}
  /\ Acks(m)
  /\ UNCHANGED <<what, tries, journal, power, boots, question, asks, handler, past>>

\* A control that is done needs no more than the acknowledgement.
AlreadyDone(m) ==
  /\ Begins(m) /\ receipt[m].done /\ what[m] \in {"answer", "stop", "clear"}
  /\ Acks(m)
  /\ UNCHANGED <<what, tries, journal, power, boots, question, asks, handler, past>>

\* A permission answer goes to the question it came for, or nowhere.
TakeAnswer(m) ==
  /\ Begins(m) /\ ~receipt[m].done
  /\ LET r == Reserved(m) IN
       /\ r.kind = "permission" /\ part[m] = Nil
       /\ Knows(m, [r EXCEPT !.done = TRUE])
       /\ question' = IF question = r.waiter THEN 0 ELSE question
       /\ deeds' = IF question = r.waiter
                   THEN deeds \cup {[by |-> m, did |-> "answered", to |-> question]} ELSE deeds
  /\ Hears(m) /\ Acks(m)
  /\ UNCHANGED <<what, tries, work, part, gen, bound, power, boots, asks, handler, born>>

\* A text becomes a turn of its own, or joins the last one while that waits.
Joins(m) == {t \in Messages : /\ work[t] = "queued" /\ Own(t)
                              /\ \A u \in Messages : work[u] = "queued" => Since(u) <= Since(t)}

TakeText(m) ==
  /\ Begins(m)
  /\ LET r == Reserved(m) IN
       /\ r.kind = "normal" /\ ~(r.done /\ what[m] = "answer")
       /\ Knows(m, r)
       \* a retry leaves the open question alone
       /\ question' = IF Retried(m) \/ question # r.waiter THEN question ELSE 0
  /\ Hears(m)
  /\ IF power = "closing"
     THEN UNCHANGED <<work, part, hand>>        \* refused; the provider tries again
     ELSE /\ \E t \in {m} \cup Joins(m) :
               IF part[m] # Nil THEN UNCHANGED <<work, part>>
               ELSE /\ part' = [part EXCEPT ![m] = t]
                    /\ work' = IF t = m THEN [work EXCEPT ![m] = "queued"] ELSE work
          /\ hand' = [hand EXCEPT ![m] = "adding"]
  /\ UNCHANGED <<what, tries, confirmed, gen, bound, power, boots, asks, left, shaky, born, deeds>>

Added(m) ==
  /\ hand[m] = "adding"
  /\ Knows(m, [receipt[m] EXCEPT !.done = TRUE]) /\ Acks(m) /\ Quiet(m)
  /\ UNCHANGED <<what, due, tries, work, part, gen, bound, power, boots, question, asks, past>>

-----------------------------------------------------------------------------
(* abortTurn: the captured turns one by one, until one needs the host *)

Captured(r) == {t \in r.turns : Active(t)}

\* /clear is refused over work of another source.
Refused(m) == what[m] = "clear" /\ Foreign
\* It drops the session that was there when it came, and no newer one.
Drops(m, r) == what[m] = "clear" /\ gen = r.gen

\* The end of a command.
Concludes(m, r, failed, stopped) ==
  LET fails == (what[m] = "clear" /\ failed) \/ Refused(m)
      drops == ~fails /\ Drops(m, r)
  IN /\ receipt' = [receipt EXCEPT ![m] = [r EXCEPT !.done = ~fails]]
     /\ bound' = (bound /\ ~drops) /\ gen' = IF drops THEN gen + 1 ELSE gen
     /\ deeds' = deeds \cup stopped \cup {[by |-> m, did |-> "cleared", to |-> n] :
                                           n \in IF drops /\ bound THEN {born} ELSE {}}
     /\ hand' = [hand EXCEPT ![m] = IF fails THEN "idle" ELSE "replying"]
     /\ left' = [left EXCEPT ![m] = {}] /\ shaky' = [shaky EXCEPT ![m] = FALSE]

\* One stretch of the loop, over the turns S, up to the first one the host may be
\* executing: that one is paused while the host is asked.
Halts(m, r, S, failed, ended) ==
  LET before == {t \in S : \A u \in S : work[u] \in {"active", "paused"} => Since(t) < Since(u)}
      rest == S \ before
      gone == {t \in before : work[t] = "queued"} \cup ended
      stopped == {[by |-> m, did |-> "stopped", to |-> t] : t \in gone}
  IN /\ work' = [t \in Messages |-> IF t \in gone THEN "stopped"
                                  ELSE IF t \in First(rest) THEN "paused" ELSE work[t]]
     /\ IF rest = {}
        THEN Concludes(m, r, failed, stopped)
        ELSE /\ receipt' = [receipt EXCEPT ![m] = r]
             /\ hand' = [hand EXCEPT ![m] = "fencing"] /\ left' = [left EXCEPT ![m] = rest]
             /\ shaky' = [shaky EXCEPT ![m] = failed]
             /\ deeds' = deeds \cup stopped /\ UNCHANGED <<gen, bound>>

\* /stop and /clear end the question they came upon, and stop turns.
TakeCommand(m) ==
  /\ Begins(m) /\ ~receipt[m].done
  /\ LET r == Reserved(m)
         newer == what[m] = "clear" /\ ~Drops(m, r)
     IN /\ r.kind = "command"
        /\ question' = IF question = r.waiter THEN 0 ELSE question
        /\ IF Refused(m) \/ newer
           THEN /\ receipt' = [receipt EXCEPT ![m] = [r EXCEPT !.done = ~Refused(m)]]
                /\ hand' = [hand EXCEPT ![m] = "replying"]
                /\ UNCHANGED <<work, gen, bound, left, shaky, deeds>>
           ELSE Halts(m, r, Captured(r), FALSE, {})
  /\ Hears(m)
  /\ UNCHANGED <<what, tries, confirmed, part, power, boots, asks, born>>

\* The host has ended the turn's execution, or has not confirmed it.
FencedTurn(m, verified) ==
  /\ hand[m] = "fencing"
  /\ \E t \in First(left[m]) :
       Halts(m, receipt[m], left[m] \ {t}, shaky[m] \/ ~verified,
             IF verified /\ work[t] = "paused" THEN {t} ELSE {})
  /\ UNCHANGED <<link, part, power, boots, question, asks, heard, open, born>>

\* The reply to the command is sent, or fails and the provider tries again.
Replied(m, sent) ==
  /\ hand[m] = "replying" /\ Quiet(m)
  /\ receipt' = [receipt EXCEPT ![m].done = @ \/ sent]
  /\ confirmed' = [confirmed EXCEPT ![m] = @ \/ sent]
  /\ UNCHANGED <<what, due, tries, work, part, gen, bound, power, boots, question, asks, past>>

-----------------------------------------------------------------------------
(* The gateway *)

Forgets == /\ due' = [m \in Messages |-> 0] /\ question' = 0
           /\ hand' = [m \in Messages |-> "idle"] /\ left' = [m \in Messages |-> {}]
           /\ shaky' = [m \in Messages |-> FALSE]

\* freezeAdmission and pending.close
Freeze ==
  /\ power = "up" /\ power' = "closing" /\ question' = 0
  /\ UNCHANGED <<link, journal, boots, asks, handler, past>>

GoesDown ==
  /\ On /\ power' = "down" /\ Forgets
  /\ UNCHANGED <<what, tries, confirmed, journal, boots, asks, past>>

\* A crash between the receipt and the effect.
DiesReserving(m) ==
  /\ On /\ due[m] > 0 /\ hand[m] = "idle" /\ receipt[m] = Unread
  /\ Knows(m, Disposition(m)) /\ Hears(m)
  /\ power' = "down" /\ Forgets
  /\ UNCHANGED <<what, tries, confirmed, work, part, gen, bound, boots, asks, born, deeds>>

Boot ==
  /\ power = "down" /\ boots < MaxBoots
  /\ power' = "up" /\ boots' = boots + 1
  /\ UNCHANGED <<link, journal, question, asks, handler, past>>

ControlNext ==
  \/ \E m \in Messages :
       \/ \E k \in {"text", "answer", "stop", "clear"} : Deliver(m, k)
       \/ ForeignComes(m) \/ Take(m) \/ HandlerSteps(m)
       \/ FailsEarly(m) \/ AlreadyDone(m) \/ TakeAnswer(m) \/ TakeText(m) \/ Added(m)
       \/ TakeCommand(m) \/ DiesReserving(m)
       \/ \E b \in BOOLEAN : FencedTurn(m, b) \/ Replied(m, b)
  \/ Ask \/ Withdraw \/ Freeze \/ GoesDown \/ Boot

ControlSpec == ControlInit /\ [][ControlNext]_controlVars

-----------------------------------------------------------------------------
(* Whatever is delivered again, and wherever its handler dies: a control    *)
(* acts on what was there when it first came, so that /stop ends no turn    *)
(* that began later and /clear drops no session that was made later; and    *)
(* what the provider will not send again is in a turn, or done.             *)
ControlsActOnThePast ==
  /\ \A d \in deeds : /\ d.did = "stopped" => Since(d.to) < Since(d.by)
                      /\ d.did = "cleared" => d.to < Since(d.by)
  /\ \A m \in Messages : confirmed[m] =>
       /\ receipt[m].kind = "normal" => part[m] # Nil
       /\ receipt[m].kind # "none" /\ receipt[m].done

(* "A stale answer stays an answer; it cannot become a new instruction."   *)
(* An answer goes to the question that was open when it first came, and no  *)
(* question is answered twice.                                              *)
AnswersStayAnswers ==
  /\ \A d \in deeds : d.did = "answered" => d.to = open[d.by] /\ part[d.by] = Nil
  /\ \A d, e \in deeds : d.did = "answered" /\ e.did = "answered" /\ d.to = e.to => d = e
  /\ \A m \in Messages : what[m] = "answer" /\ part[m] # Nil => open[m] = 0

=============================================================================

----------------------------- MODULE Escalation -----------------------------
(***************************************************************************)
(* Permissions of one conversation: gateway/escalation.ts and the prompts  *)
(* of gateway/pending.ts it asks through.  The host asks for a permission; *)
(* the gateway that owns the running turn relays the question to the       *)
(* person, one question at a time, and posts the answer, a decline on      *)
(* timeout, or a decline when it closes.  Questions reach a gateway by the *)
(* event stream or by reading the host's inventory; answers given to the   *)
(* host by somebody else come back by the event stream.                    *)
(*                                                                         *)
(* A step is the code between two awaits.  "always" and "once" are both    *)
(* "approve".                                                              *)
(***************************************************************************)
EXTENDS Naturals, Sequences, SequencesExt

CONSTANTS
  Perms,    \* the permissions the host asks for
  NoPerm,
  Procs,    \* gateway incarnations, numbered in the order they start
  Rereads   \* the event stream may break, and the host's inventory is read

ASSUME PermAssumption == NoPerm \notin Perms
ASSUME ProcAssumption == Procs \subseteq Nat \ {0}
ASSUME RereadAssumption == Rereads \in BOOLEAN

NoProc == 0

VARIABLES
  native,   \* the permission in the host
  wire,     \* permissions whose response is on its way to the host
  holder,   \* the gateway that owns the submitted turn, by a live lease
  record,   \* durable permission.state, or "none"
  response, \* durable permission.response, or "none"
  late,     \* permissions whose durable deadline has passed
  up,       \* life of each gateway
  news,     \* permission.asked events not yet read, per gateway
  told,     \* permission.replied events not yet read
  list,     \* what the inventory read under way found
  adm,      \* admissions that wait for the owner read: <<perm, recovering>>
  resolved, \* permissions known to be answered in the host
  chain,    \* what runPermission or retire waits for, per permission
  line,     \* asks that wait for their turn (queues)
  who,      \* the ask whose turn it is, unless its caller gave it up
  sending,  \* its prompt is being sent
  waiting,  \* its waiter is registered
  text,     \* the answer its waiter took while the prompt was being sent
  cut,      \* asks made before a cancel (generations)
  unsure,   \* history: a response was posted and its outcome is not known
  replayed, \* history: a response was posted while an earlier one was unsure
  given     \* history: the person's approval reached the permission's waiter

durable == <<record, response, late>>
feed    == <<news, told, list>>
prompt  == <<line, who, sending, waiting, text>>
past    == <<unsure, replayed, given>>
vars    == <<native, wire, holder, record, response, late, up, news, told, list,
             adm, resolved, chain, line, who, sending, waiting, text, cut,
             unsure, replayed, given>>

Verdict == {"approve", "reject"}

TypeOK ==
  /\ native   \in [Perms -> {"unasked", "pending", "answered"}]
  /\ wire     \subseteq Perms
  /\ holder   \in Procs \cup {NoProc}
  /\ record   \in [Perms -> {"none", "pending", "relayed", "responding"}]
  /\ response \in [Perms -> Verdict \cup {"none"}]
  /\ late     \subseteq Perms
  /\ up       \in [Procs -> {"off", "up", "closed", "gone"}]
  /\ news     \in [Procs -> SUBSET Perms]
  /\ told     \in [Procs -> SUBSET Perms]
  /\ list     \in [Procs -> SUBSET Perms]
  /\ adm      \in [Procs -> SUBSET (Perms \X BOOLEAN)]
  /\ resolved \in [Procs -> SUBSET Perms]
  /\ chain    \in [Procs -> [Perms -> {"none", "relay", "post", "retire"}]]
  /\ line     \in [Procs -> Seq(Perms)]
  /\ who      \in [Procs -> Perms \cup {NoPerm}]
  /\ sending  \in [Procs -> BOOLEAN]
  /\ waiting  \in [Procs -> BOOLEAN]
  /\ text     \in [Procs -> Verdict \cup {"none"}]
  /\ cut      \in [Procs -> SUBSET Perms]
  /\ unsure   \subseteq Perms
  /\ replayed \subseteq Perms
  /\ given    \subseteq Perms
  /\ \A q \in Perms : record[q] = "responding" <=> response[q] # "none"

Init ==
  /\ native   = [q \in Perms |-> "unasked"]
  /\ wire     = {}
  /\ holder   = NoProc
  /\ record   = [q \in Perms |-> "none"]
  /\ response = [q \in Perms |-> "none"]
  /\ late     = {}
  /\ up       = [p \in Procs |-> "off"]
  /\ news     = [p \in Procs |-> {}]
  /\ told     = [p \in Procs |-> {}]
  /\ list     = [p \in Procs |-> {}]
  /\ adm      = [p \in Procs |-> {}]
  /\ resolved = [p \in Procs |-> {}]
  /\ chain    = [p \in Procs |-> [q \in Perms |-> "none"]]
  /\ line     = [p \in Procs |-> <<>>]
  /\ who      = [p \in Procs |-> NoPerm]
  /\ sending  = [p \in Procs |-> FALSE]
  /\ waiting  = [p \in Procs |-> FALSE]
  /\ text     = [p \in Procs |-> "none"]
  /\ cut      = [p \in Procs |-> {}]
  /\ unsure   = {}
  /\ replayed = {}
  /\ given    = {}

----------------------------------------------------------------------------
(***************************************************************************)
(* The host, the turn, and the lives of the gateways.                      *)
(***************************************************************************)

\* The gateway's code still runs and its event stream is attached.
Running(p) == up[p] \in {"up", "closed"}

\* An event reaches every gateway that is attached.
Announce(events, q) ==
  [p \in Procs |-> IF Running(p) THEN events[p] \cup {q} ELSE events[p]]

NativeAsks(q) ==
  /\ native[q] = "unasked"
  /\ native' = [native EXCEPT ![q] = "pending"]
  /\ news' = Announce(news, q)
  /\ UNCHANGED <<wire, holder, durable, up, told, list, adm, resolved, chain,
                 prompt, cut, past>>

\* A gateway's response arrives, or another client answers.
HostTakes(q) ==
  /\ q \in wire \/ native[q] = "pending"
  /\ wire' = wire \ {q}
  /\ native' = [native EXCEPT ![q] = "answered"]
  /\ told' = IF native[q] = "pending" THEN Announce(told, q) ELSE told
  /\ UNCHANGED <<holder, durable, up, news, list, adm, resolved, chain, prompt,
                 cut, past>>

HostMisses(q) ==
  /\ q \in wire
  /\ wire' = wire \ {q}
  /\ UNCHANGED <<native, holder, durable, up, feed, adm, resolved, chain,
                 prompt, cut, past>>

\* A gateway claims the submitted turn; the claim ends with the turn, with its
\* lease or with the gateway.
TakeTurn(p) ==
  /\ up[p] = "up" /\ holder = NoProc
  /\ holder' = p
  /\ UNCHANGED <<native, wire, durable, up, feed, adm, resolved, chain, prompt,
                 cut, past>>

LoseTurn ==
  /\ holder # NoProc
  /\ holder' = NoProc
  /\ UNCHANGED <<native, wire, durable, up, feed, adm, resolved, chain, prompt,
                 cut, past>>

\* One gateway at a time admits work.
Start(p) ==
  /\ up[p] = "off"
  /\ \A o \in Procs : up[o] # "up" /\ (o < p => up[o] # "off")
  /\ up' = [up EXCEPT ![p] = "up"]
  /\ UNCHANGED <<native, wire, holder, durable, feed, adm, resolved, chain,
                 prompt, cut, past>>

Crash(p) ==
  /\ Running(p)
  /\ up'       = [up EXCEPT ![p] = "gone"]
  /\ news'     = [news EXCEPT ![p] = {}]
  /\ told'     = [told EXCEPT ![p] = {}]
  /\ list'     = [list EXCEPT ![p] = {}]
  /\ adm'      = [adm EXCEPT ![p] = {}]
  /\ resolved' = [resolved EXCEPT ![p] = {}]
  /\ chain'    = [chain EXCEPT ![p] = [q \in Perms |-> "none"]]
  /\ line'     = [line EXCEPT ![p] = <<>>]
  /\ who'      = [who EXCEPT ![p] = NoPerm]
  /\ sending'  = [sending EXCEPT ![p] = FALSE]
  /\ waiting'  = [waiting EXCEPT ![p] = FALSE]
  /\ text'     = [text EXCEPT ![p] = "none"]
  /\ cut'      = [cut EXCEPT ![p] = {}]
  /\ UNCHANGED <<native, wire, holder, durable, past>>

\* The durable deadline of a question passes.
Deadline(q) ==
  /\ record[q] \in {"pending", "relayed"} /\ q \notin late
  /\ late' = late \cup {q}
  /\ UNCHANGED <<native, wire, holder, record, response, up, feed, adm,
                 resolved, chain, prompt, cut, past>>

----------------------------------------------------------------------------
(***************************************************************************)
(* Responses.  The record says "responding" before the request leaves.     *)
(***************************************************************************)

Await(p, q, w) == chain' = [chain EXCEPT ![p][q] = w]

\* Save the response and send it; then wait for the outcome.
Post(p, q, r, w) ==
  /\ record'   = [record EXCEPT ![q] = "responding"]
  /\ response' = [response EXCEPT ![q] = r]
  /\ wire'     = wire \cup {q}
  /\ unsure'   = unsure \cup {q}
  /\ replayed' = replayed \cup (unsure \cap {q})
  /\ Await(p, q, w)

\* The outcome is known, or the permission was answered: the record goes.
RemoveRecord(q) ==
  /\ record'   = [record EXCEPT ![q] = "none"]
  /\ response' = [response EXCEPT ![q] = "none"]
  /\ late'     = late \ {q}
  /\ unsure'   = unsure \ {q}

\* The gateway closed, the permission was answered, or the turn is no longer
\* ours: nothing is posted any more.
Withdrawn(p, q) == up[p] # "up" \/ q \in resolved[p] \/ holder # p

\* runPermission once relay.ask has returned r, or thrown (retire).
Respond(p, q, r, w) ==
  /\ cut' = [cut EXCEPT ![p] = @ \ {q}]
  /\ \/ /\ Withdrawn(p, q)
        /\ Await(p, q, "none")
        /\ UNCHANGED <<record, response, wire, unsure, replayed>>
     \/ /\ ~Withdrawn(p, q)
        /\ Post(p, q, r, w)
  /\ UNCHANGED late

\* The host acknowledged the response, or says it knows no such question: the
\* latter is an error to retire.
PostReturns(p, q) ==
  /\ chain[p][q] \in {"post", "retire"}
  /\ native[q] = "answered" /\ q \notin wire
  /\ RemoveRecord(q)
  /\ Await(p, q, "none")
  /\ UNCHANGED <<native, wire, holder, up, feed, adm, resolved, prompt, cut,
                 replayed, given>>

\* An error or no answer: the record stays as it is.
PostFails(p, q) ==
  /\ chain[p][q] \in {"post", "retire"}
  /\ Await(p, q, "none")
  /\ UNCHANGED <<native, wire, holder, durable, up, feed, adm, resolved, prompt,
                 cut, past>>

----------------------------------------------------------------------------
(***************************************************************************)
(* pending.ts: one prompt of the conversation at a time.                   *)
(***************************************************************************)

\* Variant: the answer of the question before is kept.
BeginKeepsAnswer(p, q) ==
  /\ who'     = [who EXCEPT ![p] = q]
  /\ sending' = [sending EXCEPT ![p] = TRUE]
  /\ waiting' = [waiting EXCEPT ![p] = TRUE]
  /\ UNCHANGED text

\* The ask's turn has come: register the waiter, then send the prompt.
Begin(p, q) ==
  /\ who'     = [who EXCEPT ![p] = q]
  /\ sending' = [sending EXCEPT ![p] = TRUE]
  /\ waiting' = [waiting EXCEPT ![p] = TRUE]
  /\ text'    = [text EXCEPT ![p] = "none"]

Nobody(p) ==
  /\ who'     = [who EXCEPT ![p] = NoPerm]
  /\ sending' = [sending EXCEPT ![p] = FALSE]
  /\ waiting' = [waiting EXCEPT ![p] = FALSE]
  /\ text'    = [text EXCEPT ![p] = "none"]

\* The current ask is over: the first in line that may still be answered begins.
Ended(p, q) == q \in late \cup cut[p]
Promote(p) ==
  LET l == line[p]
  IN  \/ /\ \A i \in DOMAIN l : Ended(p, l[i])
        /\ Nobody(p)
        /\ UNCHANGED line
     \/ \E i \in DOMAIN l :
          /\ ~Ended(p, l[i])
          /\ \A j \in 1..(i - 1) : Ended(p, l[j])
          /\ Begin(p, l[i])
          /\ line' = [line EXCEPT ![p] = RemoveAt(l, i)]

\* ask(): begin at once, or join the line.
Join(p, q) ==
  \/ /\ who[p] = NoPerm /\ ~sending[p]
     /\ Begin(p, q)
     /\ UNCHANGED line
  \/ /\ who[p] # NoPerm \/ sending[p]
     /\ line' = [line EXCEPT ![p] = Append(@, q)]
     /\ UNCHANGED <<who, sending, waiting, text>>

\* Variant: the waiter stays registered.
DismissKeepsWaiter(p, q) ==
  \/ /\ who[p] = q /\ ~sending[p]
     /\ Promote(p)
  \/ /\ who[p] = q /\ sending[p]
     /\ UNCHANGED <<line, who, sending, waiting, text>>
  \/ \E i \in DOMAIN line[p] :
       /\ line[p][i] = q
       /\ line' = [line EXCEPT ![p] = RemoveAt(line[p], i)]
       /\ UNCHANGED <<who, sending, waiting, text>>

\* Its caller gives the ask of q up.  A prompt that is being sent still keeps
\* the others back.
Dismiss(p, q) ==
  \/ /\ who[p] = q /\ ~sending[p]
     /\ Promote(p)
  \/ /\ who[p] = q /\ sending[p]
     /\ who'     = [who EXCEPT ![p] = NoPerm]
     /\ waiting' = [waiting EXCEPT ![p] = FALSE]
     /\ text'    = [text EXCEPT ![p] = "none"]
     /\ UNCHANGED <<line, sending>>
  \/ \E i \in DOMAIN line[p] :
       /\ line[p][i] = q
       /\ line' = [line EXCEPT ![p] = RemoveAt(line[p], i)]
       /\ UNCHANGED <<who, sending, waiting, text>>

\* The person answers: the answer goes to the waiter, whatever it was meant for.
Answer(p, r) ==
  LET q == who[p]
  IN  /\ waiting[p]
      /\ given' = IF r = "approve" THEN given \cup {q} ELSE given
      /\ \/ /\ sending[p]
            /\ text'    = [text EXCEPT ![p] = r]
            /\ waiting' = [waiting EXCEPT ![p] = FALSE]
            /\ UNCHANGED <<durable, wire, chain, line, who, sending, cut, unsure,
                           replayed>>
         \/ /\ ~sending[p]
            /\ Promote(p)
            /\ Respond(p, q, r, "post")
      /\ UNCHANGED <<native, holder, up, feed, adm, resolved>>

\* Variant: no default.
ReplyRaw(p) == text[p]

\* What an ask returns whose waiter is gone: no answer is a decline.
Reply(p) == IF text[p] = "none" THEN "reject" ELSE text[p]

\* The prompt is sent: the ask waits on, or returns what its waiter was given.
SendReturns(p) ==
  LET q == who[p]
  IN  /\ sending[p]
      /\ \/ /\ waiting[p]
            /\ sending' = [sending EXCEPT ![p] = FALSE]
            /\ UNCHANGED <<durable, wire, chain, line, who, waiting, text, cut,
                           unsure, replayed>>
         \/ /\ ~waiting[p] /\ q # NoPerm
            /\ Promote(p)
            /\ Respond(p, q, Reply(p), "post")
         \/ /\ q = NoPerm
            /\ Promote(p)
            /\ UNCHANGED <<durable, wire, chain, cut, unsure,
                           replayed>>
      /\ UNCHANGED <<native, holder, up, feed, adm, resolved, given>>

\* Sending reports an error, and the prompt may have arrived all the same:
\* unless withdrawn, the permission is declined.
SendFails(p) ==
  LET q == who[p]
  IN  /\ sending[p]
      /\ Promote(p)
      /\ \/ q # NoPerm /\ Respond(p, q, "reject", "retire")
         \/ q = NoPerm /\ UNCHANGED <<durable, wire, chain, cut, unsure,
                           replayed>>
      /\ UNCHANGED <<native, holder, up, feed, adm, resolved, given>>

\* The ask returns without an answer: its deadline has passed, or it was cut
\* off and no prompt is in its way.
EndsUnanswered(p, q) ==
  /\ Running(p) /\ chain[p][q] = "relay"
  /\ q \in late \/ (q \in cut[p] /\ ~sending[p])
  /\ Dismiss(p, q)
  /\ Respond(p, q, "reject", "post")
  /\ UNCHANGED <<native, holder, up, feed, adm, resolved, given>>

\* The person stops or goes on to something else (cancelFor): the current
\* prompt and those behind it will end without an answer.
Cancel(p) ==
  /\ waiting[p]
  /\ cut' = [cut EXCEPT ![p] = {q \in Perms : chain[p][q] = "relay"}]
  /\ waiting' = [waiting EXCEPT ![p] = FALSE]
  /\ who'  = [who EXCEPT ![p] = IF sending[p] THEN @ ELSE NoPerm]
  /\ line' = [line EXCEPT ![p] = IF sending[p] THEN @ ELSE Append(@, who[p])]
  /\ UNCHANGED <<native, wire, holder, durable, up, feed, adm, resolved, chain,
                 sending, text, past>>

----------------------------------------------------------------------------
(***************************************************************************)
(* Admission.                                                              *)
(***************************************************************************)

\* Variant: the saved response is not looked at.
AdmissibleAgain(p, q) ==
  /\ holder = p
  /\ q \notin resolved[p]
  /\ chain[p][q] = "none"

\* admitPermission up to the owner read.  A response that may have taken effect
\* is left alone.
Admissible(p, q) ==
  /\ holder = p
  /\ q \notin resolved[p]
  /\ chain[p][q] = "none"
  /\ record[q] # "responding"

Admit(p, S, recovering) ==
  adm' = [adm EXCEPT ![p] =
            @ \cup {<<q, recovering>> : q \in {x \in S : Admissible(p, x)}}]

\* permission.asked
AskedEvent(p, q) ==
  /\ Running(p) /\ q \in news[p]
  /\ news' = [news EXCEPT ![p] = @ \ {q}]
  /\ Admit(p, {q}, FALSE)
  /\ UNCHANGED <<native, wire, holder, durable, up, told, list, resolved, chain,
                 prompt, cut, past>>

\* permission.replied: whoever answered, the question is over.
RepliedEvent(p, q) ==
  /\ Running(p) /\ q \in told[p] \ news[p]
  /\ told' = [told EXCEPT ![p] = @ \ {q}]
  /\ resolved' = [resolved EXCEPT ![p] = @ \cup {q}]
  /\ RemoveRecord(q)
  /\ cut' = [cut EXCEPT ![p] = @ \ {q}]
  /\ \/ /\ chain[p][q] = "relay"
        /\ Dismiss(p, q)
        /\ Await(p, q, "none")
     \/ /\ chain[p][q] # "relay"
        /\ UNCHANGED <<chain, prompt>>
  /\ UNCHANGED <<native, wire, holder, up, news, list, adm, replayed, given>>

\* The stream breaks; events of the meantime are lost.
StreamBreaks(p) ==
  /\ Rereads
  /\ news[p] \cup told[p] # {}
  /\ news' = [news EXCEPT ![p] = {}]
  /\ told' = [told EXCEPT ![p] = {}]
  /\ UNCHANGED <<native, wire, holder, durable, up, list, adm, resolved, chain,
                 prompt, cut, past>>

\* reconcile(), on every attachment, claim and poll of the turn, and retry: the
\* host lists what is pending.
Reconcile(p) ==
  /\ Rereads
  /\ up[p] = "up" /\ list[p] = {}
  /\ \E q \in Perms : native[q] = "pending"
  /\ list' = [list EXCEPT ![p] = {q \in Perms : native[q] = "pending"}]
  /\ UNCHANGED <<native, wire, holder, durable, up, news, told, adm, resolved,
                 chain, prompt, cut, past>>

InventoryReturns(p) ==
  /\ list[p] # {}
  /\ list' = [list EXCEPT ![p] = {}]
  /\ \/ up[p] = "up" /\ Admit(p, list[p], TRUE)
     \/ up[p] # "up" /\ UNCHANGED adm
  /\ UNCHANGED <<native, wire, holder, durable, up, news, told, resolved, chain,
                 prompt, cut, past>>

InventoryFails(p) ==
  /\ list[p] # {}
  /\ list' = [list EXCEPT ![p] = {}]
  /\ UNCHANGED <<native, wire, holder, durable, up, news, told, adm, resolved,
                 chain, prompt, cut, past>>

\* Variant: a record of an earlier gateway is never taken up.
TakenUpOnce(q, recovering) == record[q] = "none"

\* A record of an earlier gateway is taken up only when recovering.
TakenUp(q, recovering) == record[q] = "none" \/ recovering

\* The owner read confirms that the question belongs to our turn, and nothing
\* changed meanwhile.  A new record gets a deadline, a retained one keeps its
\* own; a late question is declined without asking again.
Relay(p, q, recovering) ==
  /\ up[p] = "up"
  /\ Admissible(p, q)
  /\ TakenUp(q, recovering)
  /\ \/ /\ q \in late
        /\ Post(p, q, "reject", "post")
        /\ UNCHANGED prompt
     \/ /\ q \notin late
        /\ record' = [record EXCEPT ![q] = "relayed"]
        /\ Await(p, q, "relay")
        /\ Join(p, q)
        /\ UNCHANGED <<response, wire, unsure, replayed>>
  /\ UNCHANGED late

\* A question that arrives while the gateway closes is saved and declined, if
\* there is time to send the decline.
DeclineClosing(p, q) ==
  /\ up[p] = "closed"
  /\ Admissible(p, q)
  /\ late' = IF record[q] = "none" THEN late \cup {q} ELSE late
  /\ \/ Post(p, q, "reject", "retire")
     \/ /\ record' = [record EXCEPT ![q] = "pending"]
        /\ UNCHANGED <<response, wire, unsure, replayed, chain>>
  /\ UNCHANGED prompt

AdmissionOwned(p, q, recovering) ==
  /\ Running(p) /\ <<q, recovering>> \in adm[p]
  /\ adm' = [adm EXCEPT ![p] = @ \ {<<q, recovering>>}]
  /\ Relay(p, q, recovering) \/ DeclineClosing(p, q)
  /\ UNCHANGED <<native, holder, up, feed, resolved, cut, given>>

\* The read fails, or denies it, or the answer comes too late to matter.
AdmissionDropped(p, q, recovering) ==
  /\ Running(p) /\ <<q, recovering>> \in adm[p]
  /\ adm' = [adm EXCEPT ![p] = @ \ {<<q, recovering>>}]
  /\ UNCHANGED <<native, wire, holder, durable, up, feed, resolved, chain,
                 prompt, cut, past>>

----------------------------------------------------------------------------
\* Variant: responses under way are declined too.
DeniableAll(p, q) == chain[p][q] # "none" /\ ~Withdrawn(p, q)

\* close(): every ask is aborted, and what is still ours and unanswered is
\* declined.
Deniable(p, q) == chain[p][q] = "relay" /\ ~Withdrawn(p, q)

Close(p) ==
  LET asks == {q \in Perms : chain[p][q] = "relay"}
      deny == {q \in Perms : Deniable(p, q)}
  IN  /\ up[p] = "up"
      /\ up'       = [up EXCEPT ![p] = "closed"]
      /\ record'   = [q \in Perms |->
                        IF q \in deny THEN "responding" ELSE record[q]]
      /\ response' = [q \in Perms |->
                        IF q \in deny THEN "reject" ELSE response[q]]
      /\ wire'     = wire \cup deny
      /\ unsure'   = unsure \cup deny
      /\ replayed' = replayed \cup (unsure \cap deny)
      /\ chain'    = [chain EXCEPT ![p] =
                        [q \in Perms |-> IF q \in deny THEN "retire"
                                         ELSE IF q \in asks THEN "none" ELSE @[q]]]
      /\ line'     = [line EXCEPT ![p] = <<>>]
      /\ who'      = [who EXCEPT ![p] = NoPerm]
      /\ waiting'  = [waiting EXCEPT ![p] = FALSE]
      /\ text'     = [text EXCEPT ![p] = "none"]
      /\ cut'      = [cut EXCEPT ![p] = {}]
      /\ UNCHANGED <<native, holder, late, feed, adm, resolved, sending, given>>

Next ==
  \/ LoseTurn
  \/ \E q \in Perms : \/ NativeAsks(q) \/ Deadline(q)
                      \/ HostTakes(q) \/ HostMisses(q)
  \/ \E p \in Procs :
       \/ TakeTurn(p) \/ Start(p) \/ Crash(p) \/ Close(p)
       \/ Reconcile(p) \/ InventoryReturns(p) \/ InventoryFails(p)
       \/ StreamBreaks(p)
       \/ SendReturns(p) \/ SendFails(p) \/ Cancel(p)
       \/ \E r \in Verdict : Answer(p, r)
       \/ \E q \in Perms :
            \/ PostReturns(p, q) \/ PostFails(p, q) \/ EndsUnanswered(p, q)
            \/ AskedEvent(p, q) \/ RepliedEvent(p, q)
            \/ \E b \in BOOLEAN :
                 AdmissionOwned(p, q, b) \/ AdmissionDropped(p, q, b)

Spec == Init /\ [][Next]_vars

----------------------------------------------------------------------------
(***************************************************************************)
(* Fairness.  Promises settle, events that are not lost are read, deadlines *)
(* pass; the inventory is read again and again while a turn is polled, and *)
(* neither it nor the owner read fails for ever.  Nothing is assumed of the *)
(* person, of the turn or of crashes.                                      *)
(***************************************************************************)
Settles(p) ==
  \/ SendReturns(p) \/ SendFails(p)
  \/ \E q \in Perms :
       PostReturns(p, q) \/ PostFails(p, q) \/ EndsUnanswered(p, q)

Progress(p) ==
  /\ WF_vars(Settles(p))
  /\ WF_vars(Reconcile(p) \/ InventoryReturns(p))
  /\ WF_vars(\E q \in Perms : AskedEvent(p, q) \/ RepliedEvent(p, q))
  /\ WF_vars(\E q \in Perms, b \in BOOLEAN :
               AdmissionOwned(p, q, b) \/ AdmissionDropped(p, q, b))

ReadFails ==
  \E p \in Procs :
    \/ InventoryFails(p)
    \/ \E q \in Perms :
         /\ AdmissionDropped(p, q, TRUE)
         /\ Admissible(p, q) /\ TakenUp(q, TRUE)

Fairness ==
  /\ \A p \in Procs : Progress(p)
  /\ \A q \in Perms : WF_vars(Deadline(q))
  /\ <>[][~ReadFails]_vars

FairSpec == Spec /\ Fairness

----------------------------------------------------------------------------
(***************************************************************************)
(* What the bridge promises.                                               *)
(***************************************************************************)

\* A response whose outcome is not known is retained, so that nobody asks or
\* responds again (admitPermission, runPermission, retire).
Retained == \A q \in unsure : record[q] = "responding"

\* A response whose outcome is not known is never posted again, and no other
\* response either: by a retry, another admission, close or the next gateway.
NeverReplayed == replayed = {}

\* A permission is approved only if the person's approval reached the waiter of
\* this very permission: no timeout, failed prompt, cancel, shutdown or answer
\* to another question approves it.
ApprovalWasGiven == \A q \in Perms : response[q] = "approve" => q \in given

\* The waiter belongs to a question that is still open: an answer is not
\* swallowed by one that was answered, withdrawn or timed out before.
WaiterIsLive ==
  \A p \in Procs : waiting[p] =>
    /\ record[who[p]] # "responding"
    /\ chain[p][who[p]] = "relay"
    /\ who[p] \notin resolved[p]

\* While a live gateway owns the turn, every question of the host is answered,
\* or its response is out, in the end.
Owned == holder # NoProc /\ up[holder] = "up"
EveryQuestionEnds ==
  \A q \in Perms :
    native[q] = "pending" /\ Owned
      ~> native[q] # "pending" \/ record[q] = "responding" \/ ~Owned
=============================================================================

------------------------------ MODULE Ingress ------------------------------
(***************************************************************************)
(* Webhook events from the provider's request to the session manager:      *)
(* gateway/server.ts claims each request id in dedup.ts, dispatch.ts        *)
(* handles the event and burst.ts gathers fragments.  A request that got    *)
(* no answer is repeated; claims, batches and the memory of failures live   *)
(* in the gateway's memory, journalled messages in its state file.          *)
(*                                                                          *)
(* A step is the code between two awaits.  Several requests may carry the   *)
(* same message.  WhatsApp events are not claimed: their turn is reserved   *)
(* before they are acknowledged.  Companion events are not either, and are  *)
(* the subject of Companion.                                                *)
(***************************************************************************)
EXTENDS Naturals, Sequences, FiniteSets, SequencesExt

CONSTANTS Requests,  \* request ids
          Texts,     \* messages they carry
          MaxPosts,  \* times the provider posts each (bounds the model)
          MaxLives   \* gateways, one after the other (bounds the model)

ASSUME IngressAssumption == MaxPosts \in Nat /\ MaxLives \in Nat \ {0}

VARIABLES
  sort,    \* what a request carries
  body,    \* the message it is about
  posted,  \* times it was posted
  agreed,  \* the provider has a 200 for it
  claim,   \* dedup: "free", "inflight", "recent"
  workers, \* its handlers that have yet to decide
  checked, \* those that have found the message new and await the identity
  woken,   \* those that have counted the failure and resolve the contact
  batch,   \* the burst buffer of the chat
  given,   \* journal: what each turn was made from, in order
  noted,   \* failed messages the agent was woken for
  strikes, \* failed deliveries on the route since it last wrote
  door,    \* the gateway: "down", "up", "closing"
  lives,   \* gateways so far
  lapses,  \* history: how often the claim of a request was forgotten
  edges    \* history: how a request was lost, if it was

memory == <<claim, workers, checked, woken, batch, noted, strikes>>
ingressVars == <<sort, body, posted, agreed, claim, workers, checked, woken, batch, given, noted,
                 strikes, door, lives, lapses, edges>>

\* "native": a message the journal keeps under its id and the agent is asked about;
\* "overheard": one of a group that does not address the agent.
Lasting == {"native", "overheard", "whatsapp"}
Sort == {"fragment", "plain", "failure"} \cup Lasting
Edge == {"failed after a repeat was told", "waited in the batch", "refused at the close"}

IngressTypeOK ==
  /\ sort \in [Requests -> Sort \cup {"none"}] /\ body \in [Requests -> Texts]
  /\ posted \in [Requests -> 0 .. MaxPosts] /\ agreed \in [Requests -> BOOLEAN]
  /\ claim \in [Requests -> {"free", "inflight", "recent"}]
  /\ \A r \in Requests : {workers[r], checked[r], woken[r]} \subseteq 0 .. MaxPosts
  /\ \A i \in DOMAIN batch : batch[i] \in Requests
  /\ \A i \in DOMAIN given : \A j \in DOMAIN given[i] : given[i][j] \in Requests
  /\ noted \subseteq Texts /\ strikes \in Nat
  /\ door \in {"down", "up", "closing"} /\ lives \in 1 .. MaxLives
  /\ lapses \in [Requests -> Nat] /\ \A r \in Requests : edges[r] \subseteq Edge

IngressInit ==
  /\ sort = [r \in Requests |-> "none"] /\ body \in [Requests -> Texts]
  /\ posted = [r \in Requests |-> 0] /\ agreed = [r \in Requests |-> FALSE]
  /\ claim = [r \in Requests |-> "free"] /\ workers = [r \in Requests |-> 0]
  /\ checked = [r \in Requests |-> 0] /\ woken = [r \in Requests |-> 0]
  /\ batch = <<>> /\ given = <<>> /\ noted = {} /\ strikes = 0
  /\ door = "up" /\ lives = 1
  /\ lapses = [r \in Requests |-> 0] /\ edges = [r \in Requests |-> {}]

-----------------------------------------------------------------------------
Open == door \in {"up", "closing"}
Tells(r) == agreed' = [agreed EXCEPT ![r] = TRUE]
Lost(S, how) == edges' = [r \in Requests |-> edges[r] \cup IF r \in S THEN {how} ELSE {}]

\* The journal has a turn from this message.
Journalled(t) == \E i \in DOMAIN given : \E j \in DOMAIN given[i] :
                   sort[given[i][j]] \in Lasting /\ body[given[i][j]] = t

\* The provider posts a request; one that is claimed is told it was seen.
Receives(r, s) ==
  /\ Open /\ ~agreed[r] /\ posted[r] < MaxPosts
  /\ sort[r] = IF posted[r] = 0 THEN "none" ELSE s
  /\ \A q \in Requests : sort[q] # "none" /\ body[q] = body[r] => sort[q] = s
  /\ sort' = [sort EXCEPT ![r] = s] /\ posted' = [posted EXCEPT ![r] = @ + 1]
  /\ \/ /\ s # "whatsapp" /\ claim[r] = "free"
        /\ claim' = [claim EXCEPT ![r] = "inflight"]
        /\ workers' = [workers EXCEPT ![r] = @ + 1] /\ UNCHANGED agreed
     \/ /\ s # "whatsapp" /\ claim[r] # "free" /\ Tells(r) /\ UNCHANGED <<claim, workers>>
     \/ /\ s = "whatsapp"
        /\ workers' = [workers EXCEPT ![r] = @ + 1] /\ UNCHANGED <<claim, agreed>>
  /\ UNCHANGED <<body, checked, woken, batch, given, noted, strikes, door, lives, lapses, edges>>

\* commit, and the 200, which the provider may not get.
Commits(r, heard) ==
  /\ claim' = [claim EXCEPT ![r] = "recent"]
  /\ agreed' = [agreed EXCEPT ![r] = @ \/ heard]

\* rollback, and a 500: a repeat that has been told of the claim is no more.
RollsBack(r) ==
  /\ claim' = [claim EXCEPT ![r] = "free"]
  /\ Lost(IF agreed[r] THEN {r} ELSE {}, "failed after a repeat was told")

Less(f, r) == [f EXCEPT ![r] = @ - 1]
More(f, r) == [f EXCEPT ![r] = @ + 1]

-----------------------------------------------------------------------------
(* The handler *)

\* A contact, an identity or an attachment cannot be read.
Breaks(r) ==
  /\ \/ workers[r] > 0 /\ workers' = Less(workers, r) /\ UNCHANGED <<checked, woken>>
     \/ checked[r] > 0 /\ checked' = Less(checked, r) /\ UNCHANGED <<workers, woken>>
     \/ woken[r] > 0 /\ woken' = Less(woken, r) /\ UNCHANGED <<workers, checked>>
  /\ IF sort[r] = "whatsapp" THEN UNCHANGED <<claim, edges>> ELSE RollsBack(r)
  /\ UNCHANGED <<sort, body, posted, agreed, batch, given, noted, strikes, door, lives, lapses>>

\* A fragment waits for more of them.
Gathers(r, heard) ==
  /\ workers[r] > 0 /\ sort[r] = "fragment"
  /\ workers' = Less(workers, r) /\ batch' = Append(batch, r) /\ Commits(r, heard)
  /\ UNCHANGED <<sort, body, posted, checked, woken, given, noted, strikes, door, lives, lapses,
                 edges>>

\* sessions.handleInbound of what the provider has been told is done.
Hands(s) ==
  IF door = "closing"
  THEN given' = given /\ strikes' = strikes
  ELSE given' = Append(given, s) /\ strikes' = 0

\* Another one is dispatched and not waited for.
Passes(r, heard) ==
  /\ workers[r] > 0 /\ sort[r] = "plain"
  /\ workers' = Less(workers, r) /\ Hands(<<r>>) /\ Commits(r, heard)
  /\ Lost(IF door = "closing" THEN {r} ELSE {}, "refused at the close")
  /\ UNCHANGED <<sort, body, posted, checked, woken, batch, noted, door, lives, lapses>>

\* The quiet window ends, the batch is full, or the gateway closes.
Flush ==
  /\ Open /\ batch # <<>>
  /\ Hands(batch) /\ batch' = <<>>
  /\ Lost(IF door = "closing" THEN ToSet(batch) ELSE {}, "waited in the batch")
  /\ UNCHANGED <<sort, body, posted, agreed, claim, workers, checked, woken, noted, door, lives,
                 lapses>>

\* A journalled message is waited for: refused, found, or new.
Looks(r, heard) ==
  /\ workers[r] > 0 /\ sort[r] \in {"native", "overheard"}
  /\ workers' = Less(workers, r)
  /\ \/ door = "closing" /\ RollsBack(r) /\ UNCHANGED <<agreed, checked, strikes>>
     \/ /\ door = "up" /\ Journalled(body[r])
        /\ Commits(r, heard) /\ UNCHANGED <<checked, edges, strikes>>
     \/ /\ door = "up" /\ ~Journalled(body[r])
        /\ checked' = More(checked, r) /\ strikes' = 0 /\ UNCHANGED <<claim, agreed, edges>>
  /\ UNCHANGED <<sort, body, posted, woken, batch, given, noted, door, lives, lapses>>

\* Variant: it is saved without a second look.
SavesBlindly(r, heard) ==
  /\ checked[r] > 0 /\ checked' = Less(checked, r)
  /\ given' = Append(given, <<r>>) /\ Commits(r, heard)
  /\ UNCHANGED <<sort, body, posted, workers, woken, batch, noted, strikes, door, lives, lapses,
                 edges>>

\* After the await it is saved: one that addresses the agent when it is still not in the
\* journal, one that was overheard, as context, without looking again.
Saves(r, heard) ==
  /\ checked[r] > 0 /\ checked' = Less(checked, r)
  /\ IF sort[r] = "native" /\ Journalled(body[r])
     THEN UNCHANGED given
     ELSE given' = Append(given, <<r>>)
  /\ Commits(r, heard)
  /\ UNCHANGED <<sort, body, posted, workers, woken, batch, noted, strikes, door, lives, lapses,
                 edges>>

\* A WhatsApp message is looked for and reserved in one write, one request of it after
\* the other, before it is acknowledged.
RecordsFirst(r, heard) ==
  /\ workers[r] > 0 /\ sort[r] = "whatsapp"
  /\ workers' = Less(workers, r)
  /\ \/ door = "closing" /\ UNCHANGED <<agreed, given, strikes>>
     \/ /\ door = "up" /\ agreed' = [agreed EXCEPT ![r] = @ \/ heard]
        /\ IF Journalled(body[r])
           THEN UNCHANGED <<given, strikes>>
           ELSE given' = Append(given, <<r>>) /\ strikes' = 0
  /\ UNCHANGED <<sort, body, posted, claim, checked, woken, batch, noted, door, lives, lapses,
                 edges>>

\* A failed delivery: noted once, then the contact is resolved.
Notices(r, heard) ==
  /\ workers[r] > 0 /\ sort[r] = "failure"
  /\ workers' = Less(workers, r)
  /\ IF body[r] \in noted
     THEN Commits(r, heard) /\ UNCHANGED <<woken, noted>>
     ELSE noted' = noted \cup {body[r]} /\ woken' = More(woken, r) /\ UNCHANGED <<claim, agreed>>
  /\ UNCHANGED <<sort, body, posted, checked, batch, given, strikes, door, lives, lapses, edges>>

\* The third failure in a row says nothing more.
Wakes(r, heard) ==
  /\ woken[r] > 0 /\ woken' = Less(woken, r)
  /\ strikes' = strikes + 1
  /\ given' = IF strikes < 2 /\ door = "up" THEN Append(given, <<r>>) ELSE given
  /\ Commits(r, heard)
  /\ UNCHANGED <<sort, body, posted, workers, checked, batch, noted, door, lives, lapses, edges>>

-----------------------------------------------------------------------------
(* Time, and the gateway *)

\* The claim's time is over: five minutes after the end, or an hour.
ClaimLapses(r) ==
  /\ claim[r] # "free" /\ claim' = [claim EXCEPT ![r] = "free"] /\ lapses' = More(lapses, r)
  /\ UNCHANGED <<sort, body, posted, agreed, workers, checked, woken, batch, given, noted,
                 strikes, door, lives, edges>>

Shuts ==
  /\ door = "up" /\ door' = "closing"
  /\ UNCHANGED <<sort, body, posted, agreed, memory, given, lives, lapses, edges>>

\* The process ends, with or without a close, and another one starts.
Restarts ==
  /\ Open /\ lives < MaxLives /\ lives' = lives + 1 /\ door' = "up"
  /\ claim' = [r \in Requests |-> "free"] /\ workers' = [r \in Requests |-> 0]
  /\ checked' = [r \in Requests |-> 0] /\ woken' = [r \in Requests |-> 0]
  /\ batch' = <<>> /\ noted' = {} /\ strikes' = 0
  /\ lapses' = [r \in Requests |-> IF claim[r] = "free" THEN lapses[r] ELSE lapses[r] + 1]
  /\ edges' = [r \in Requests |-> edges[r]
                 \cup (IF r \in ToSet(batch) THEN {"waited in the batch"} ELSE {})
                 \cup (IF /\ sort[r] # "whatsapp" /\ agreed[r]
                          /\ workers[r] + checked[r] + woken[r] > 0
                       THEN {"failed after a repeat was told"} ELSE {})]
  /\ UNCHANGED <<sort, body, posted, agreed, given>>

IngressNext ==
  \/ \E r \in Requests :
       \/ \E s \in Sort : Receives(r, s)
       \/ Breaks(r) \/ ClaimLapses(r)
       \/ \E h \in BOOLEAN : \/ Gathers(r, h) \/ Passes(r, h) \/ Looks(r, h) \/ Saves(r, h)
                             \/ RecordsFirst(r, h) \/ Notices(r, h) \/ Wakes(r, h)
  \/ Flush \/ Shuts \/ Restarts

IngressSpec == IngressInit /\ [][IngressNext]_ingressVars

-----------------------------------------------------------------------------
InTurns(r) == Cardinality({i \in DOMAIN given : r \in ToSet(given[i])})

(* A message that addresses the agent and is kept under its id makes one    *)
(* turn, whatever requests carry it and however often, also while several   *)
(* handlers of it are at work; and a WhatsApp message is in the journal     *)
(* before the provider is told so.  Any other claimed request makes one     *)
(* more turn only when its claim is forgotten, and waits in the batch at    *)
(* most as often; that is all there is for a message that was overheard,    *)
(* which two requests may keep twice.  And a request the provider will not  *)
(* repeat is in a turn, in the journal, waits in the batch, is still        *)
(* handled, or was lost in one of three ways: in the batch of a gateway     *)
(* that ended, refused because it was closing, or by a handler that failed  *)
(* after a repeat of the request had been told it was seen.                 *)
HandledOnce ==
  /\ \A i, j \in DOMAIN given : \A p \in ToSet(given[i]), q \in ToSet(given[j]) :
       {sort[p], sort[q]} \subseteq {"native", "whatsapp"} /\ body[p] = body[q] => i = j
  /\ \A r \in Requests : sort[r] # "whatsapp" =>
       InTurns(r) + Cardinality({i \in DOMAIN batch : batch[i] = r}) <= 1 + lapses[r]
  /\ \A r \in Requests : agreed[r] /\ sort[r] # "failure" =>
       \/ sort[r] \in Lasting /\ Journalled(body[r])
       \/ /\ sort[r] # "whatsapp"
          /\ \/ InTurns(r) > 0 \/ r \in ToSet(batch) \/ workers[r] + checked[r] > 0
             \/ edges[r] # {}
=============================================================================

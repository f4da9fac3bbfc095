----------------------------- MODULE NativeSend -----------------------------
(***************************************************************************)
(* Journalled sends on the native channels: WhatsApp texts and reactions,  *)
(* source-bound iMessages and Slack uploads, asked for by tool calls in    *)
(* the host's process, and the automatic reply of the turn they belong to, *)
(* sent by the gateway in another process.                                 *)
(*                                                                         *)
(* One originating turn.  Tool calls that belong to it ("turn") act only   *)
(* while its gateway holds it; other calls ("other") have no owner.  The   *)
(* code between two awaits of one process is one step, split where it      *)
(* reads or writes the state file, for the other process may write there   *)
(* in between.  One call of the SDK is one request.                        *)
(***************************************************************************)
EXTENDS Naturals, FiniteSets

CONSTANTS Calls,      \* tool calls
          AutoReply,      \* the automatic reply of the turn
          SendKeys,   \* keys of journal entries
          Matters,    \* payload and destination
          MaxHolders, \* gateways that hold the turn, one after another
          NoEntry,    \* no journal entry
          NoCall      \* no call is in its synchronous section

ASSUME SendAssumption == /\ AutoReply \notin Calls
                         /\ NoCall \notin Calls
                         /\ MaxHolders \in Nat \ {0}

Attempts == Calls \cup {AutoReply}
SendKinds == {"text", "reaction", "imessage", "upload"}
Request == [key : SendKeys, matter : Matters, src : {"turn", "other"}]
SendEntry == [state : {"started", "sent", "rejected"}, matter : Matters,
              src : {"turn", "other"}, explicit : BOOLEAN]
ASSUME NoEntryAssumption == NoEntry \notin SendEntry

VARIABLES
  channel, \* the kind of the sends, fixed from the start
  ask,     \* what each attempt asks for, fixed from the start
  origin,  \* state of the originating turn
  holder,  \* the gateway that holds it
  leased,  \* its lease has not run out
  sends,   \* the journal
  at,      \* where each attempt stands
  seen,    \* the holder each call resolved
  busy,    \* the call of the turn in its synchronous section
  wire     \* requests: "quiet", "asked", "landed"

sendVars == <<channel, ask, origin, holder, leased, sends, at, seen, busy, wire>>
theTurn == <<origin, holder, leased>>

OriginState == {"submitted", "completed", "delivery", "ended", "interrupted"}
Place == {"idle", "ready", "claim", "post", "asked", "done", "gone"}

SendTypeOK ==
  /\ channel \in SendKinds /\ ask \in [Attempts -> Request]
  /\ origin \in OriginState /\ holder \in 1 .. MaxHolders /\ leased \in BOOLEAN
  /\ sends \in [SendKeys -> SendEntry \cup {NoEntry}]
  /\ at \in [Attempts -> Place \cup {"judge", "checkpoint"}]
  /\ seen \in [Calls -> 0 .. MaxHolders]
  /\ busy \in Calls \cup {NoCall}
  /\ wire \in [Attempts -> {"quiet", "asked", "landed"}]

-----------------------------------------------------------------------------
(* The keys of the code: a hash of payload and source for iMessages, one   *)
(* of the tool's own for an explicit WhatsApp send, never the one of the   *)
(* automatic reply.                                                        *)
KeyedIMessage(r) == /\ \A a \in Attempts : r[a].src = "turn"
                    /\ \A a, b \in Attempts : (r[a].key = r[b].key) <=> (r[a].matter = r[b].matter)
KeyedText(r) == \A c \in Calls : r[c].key # r[AutoReply].key
Keyed(k, r) ==
  /\ r[AutoReply].src = "turn"
  /\ k = "imessage" => KeyedIMessage(r)
  /\ k = "text" => KeyedText(r)

SendInit ==
  /\ channel \in SendKinds
  /\ ask \in {r \in [Attempts -> Request] : Keyed(channel, r)}
  /\ origin = "submitted" /\ holder = 1 /\ leased = TRUE
  /\ sends = [k \in SendKeys |-> NoEntry]
  /\ at = [a \in Attempts |-> "idle"]
  /\ seen = [c \in Calls |-> 0]
  /\ busy = NoCall
  /\ wire = [a \in Attempts |-> "quiet"]

OfTurn(a) == a # AutoReply /\ ask[a].src = "turn"

\* The turn is executing and its gateway's lease holds.
Executing == origin = "submitted" /\ leased

\* The call's owner is the holder of the executing turn; other attempts have none.
OwnerHolds(a) == OfTurn(a) => Executing /\ holder = seen[a]

-----------------------------------------------------------------------------
(* The turn *)

TurnFinishes ==
  /\ Executing
  /\ at[AutoReply] = "idle"
  /\ origin' = "completed"
  /\ at' = [at EXCEPT ![AutoReply] = "judge"]
  /\ UNCHANGED <<channel, ask, holder, leased, sends, seen, busy, wire>>

\* /stop and its like
TurnStopped ==
  /\ origin \in {"submitted", "completed"}
  /\ origin' = "interrupted"
  /\ UNCHANGED <<channel, ask, holder, leased, sends, at, seen, busy, wire>>

\* The gateway dies or stalls.
LeaseRunsOut ==
  /\ leased /\ origin \notin {"ended", "interrupted"}
  /\ leased' = FALSE
  /\ \E p \in {at[AutoReply], "gone"} : at' = [at EXCEPT ![AutoReply] = p]
  /\ UNCHANGED <<channel, ask, origin, holder, sends, seen, busy, wire>>

\* Another gateway reclaims the turn: a completed one is delivered by it, one
\* whose delivery had begun is left uncertain.
Reclaimed ==
  /\ ~leased /\ holder < MaxHolders
  /\ holder' = holder + 1 /\ leased' = TRUE
  /\ at' = CASE origin = "submitted" -> [at EXCEPT ![AutoReply] = "idle"]
             [] origin = "completed" -> [at EXCEPT ![AutoReply] = "judge"]
             [] OTHER -> at
  /\ UNCHANGED <<channel, ask, origin, sends, seen, busy, wire>>

\* An entry of an explicit send of the turn's source
ExplicitEntry(k) == sends[k] # NoEntry /\ sends[k].explicit /\ sends[k].src = "turn"
HasExplicit == \E k \in SendKeys : ExplicitEntry(k)

\* finish goes on with the reply, or keeps silent because of an explicit send.
Judge ==
  /\ at[AutoReply] = "judge" /\ leased /\ origin = "completed"
  /\ channel \in {"text", "imessage"}
  /\ at' = [at EXCEPT ![AutoReply] =
              IF channel = "text" /\ HasExplicit THEN "gone" ELSE "checkpoint"]
  /\ UNCHANGED <<channel, ask, theTurn, sends, seen, busy, wire>>

\* The last durable step before the reply is sent, or the reply cannot be prepared.
Checkpoint ==
  /\ at[AutoReply] = "checkpoint"
  /\ \/ /\ origin = "completed" /\ leased
        /\ origin' = "delivery"
        /\ at' = [at EXCEPT ![AutoReply] = "ready"]
     \/ /\ origin' = IF origin = "completed" /\ leased THEN "ended" ELSE origin
        /\ at' = [at EXCEPT ![AutoReply] = "gone"]
  /\ UNCHANGED <<channel, ask, holder, leased, sends, seen, busy, wire>>

-----------------------------------------------------------------------------
(* Attempts *)

Leave(a, p) == /\ at' = [at EXCEPT ![a] = p]
               /\ busy' = IF busy = a THEN NoCall ELSE busy

\* A call of the turn resolves its owner and asks for approval.
Resolves(c, ok) ==
  /\ at[c] = "idle"
  /\ seen' = [seen EXCEPT ![c] = IF OfTurn(c) THEN holder ELSE 0]
  /\ at' = [at EXCEPT ![c] = IF ok /\ (OfTurn(c) => Executing) THEN "ready" ELSE "gone"]
  /\ UNCHANGED <<channel, ask, theTurn, sends, busy, wire>>

Resolve(c) == channel # "upload" /\ Resolves(c, TRUE)

\* The upload's tool call is looked up in the host; only one that is found
\* once, with unchanged arguments, in a turn or a session of its own, goes on.
ResolveUpload(c) == channel = "upload" /\ \E unique \in BOOLEAN : Resolves(c, unique)

\* Another explicit send of the source has no settled outcome.
Unresolved(a) == \E k \in SendKeys \ {ask[a].key} :
                   ExplicitEntry(k) /\ sends[k].state \in {"started", "rejected"}

\* After the approval, the owner again: the last look before the journal.
LooksAt(a, free) ==
  /\ at[a] = "ready"
  /\ OfTurn(a) => busy = NoCall
  /\ IF OwnerHolds(a) /\ free
     THEN /\ at' = [at EXCEPT ![a] = "claim"]
          /\ busy' = IF OfTurn(a) THEN a ELSE busy
     ELSE /\ at' = [at EXCEPT ![a] = "gone"]
          /\ busy' = busy
  /\ UNCHANGED <<channel, ask, theTurn, sends, seen, wire>>

\* For a text, the source's other sends too.
LookText(a) == channel = "text" /\ LooksAt(a, ask[a].src = "turn" => ~Unresolved(a))

\* The target of a reaction must be a message of the identity's own.
LookReaction(a) == channel = "reaction" /\ \E ours \in BOOLEAN : LooksAt(a, ours)

LookIMessage(a) == channel = "imessage" /\ LooksAt(a, TRUE)

\* The connection must still be the identity's own, and the file readable.
LookUpload(a) == channel = "upload" /\ \E fit \in BOOLEAN : LooksAt(a, fit)

SendStarted(a) == [state |-> "started", matter |-> ask[a].matter, src |-> ask[a].src, explicit |-> a # AutoReply]

\* Entries of the same source and content, which an upload finds under any key
Twins(a) == {e \in {sends[j] : j \in SendKeys} \ {NoEntry} :
               e.src = ask[a].src /\ e.matter = ask[a].matter}

\* What the journal already holds for the attempt
Previous(a) == IF sends[ask[a].key] # NoEntry THEN {sends[ask[a].key]}
               ELSE IF channel = "upload" THEN Twins(a) ELSE {}

\* Variant: a started entry is no obstacle either.
MayClaimStarted(a) == \A e \in Previous(a) :
                        e.matter = ask[a].matter /\ e.state # "sent"

\* A text the platform refused may be tried again, a reaction until it is accepted.
TextOpen(e) == channel = "text" /\ e.state = "rejected"
ReactionOpen(e) == channel = "reaction" /\ e.state # "sent"

\* The attempt may write its own entry over what is there.
MayClaim(a) == \A e \in Previous(a) : e.matter = ask[a].matter /\ (TextOpen(e) \/ ReactionOpen(e))

\* The owner is asserted inside the update.
AssertsInside == channel \in {"imessage", "upload"}

\* One update of the journal: the attempt's entry, ...
Claim(a) ==
  /\ at[a] = "claim" /\ MayClaim(a)
  /\ AssertsInside => OwnerHolds(a)
  /\ sends' = [sends EXCEPT ![ask[a].key] = SendStarted(a)]
  /\ at' = [at EXCEPT ![a] = "post"]
  /\ UNCHANGED <<channel, ask, theTurn, seen, busy, wire>>

\* ... or a refusal.
ClaimFails(a) ==
  /\ at[a] = "claim"
  /\ (AssertsInside /\ ~OwnerHolds(a)) \/ (channel # "upload" /\ ~MayClaim(a))
  /\ Leave(a, "gone")
  /\ UNCHANGED <<channel, ask, theTurn, sends, seen, wire>>

\* An upload copies the twin it finds under its own key.
ClaimTwin(a) ==
  /\ channel = "upload" /\ at[a] = "claim" /\ OwnerHolds(a) /\ ~MayClaim(a)
  /\ \E e \in Previous(a) : sends' = [sends EXCEPT ![ask[a].key] = e]
  /\ Leave(a, "gone")
  /\ UNCHANGED <<channel, ask, theTurn, seen, wire>>

\* The request; a text asserts its owner once more and may leave its entry behind.
Post(a) ==
  /\ at[a] = "post"
  /\ IF channel = "text" => OwnerHolds(a)
     THEN wire' = [wire EXCEPT ![a] = "asked"] /\ Leave(a, "asked")
     ELSE wire' = wire /\ Leave(a, "gone")
  /\ UNCHANGED <<channel, ask, theTurn, sends, seen>>

Lands(a) ==
  /\ wire[a] = "asked"
  /\ wire' = [wire EXCEPT ![a] = "landed"]
  /\ UNCHANGED <<channel, ask, theTurn, sends, at, seen, busy>>

Ended(a) == origin' = IF a = AutoReply /\ origin = "delivery" THEN "ended" ELSE origin

Answered(a) ==
  /\ at[a] = "asked" /\ wire[a] = "landed"
  /\ sends' = [sends EXCEPT ![ask[a].key] = [SendStarted(a) EXCEPT !.state = "sent"]]
  /\ Leave(a, "done") /\ Ended(a)
  /\ UNCHANGED <<channel, ask, holder, leased, seen, wire>>

Refusal(a) ==
  /\ at[a] = "asked" /\ wire[a] = "asked"
  /\ wire' = [wire EXCEPT ![a] = "quiet"]
  /\ Leave(a, "gone") /\ Ended(a)
  /\ UNCHANGED <<channel, ask, holder, leased, seen>>

\* A documented policy error: WhatsApp did not take the request, and the journal says so.
RefusedByPolicy(a) ==
  /\ channel \in {"text", "reaction"} /\ Refusal(a)
  /\ sends' = [sends EXCEPT ![ask[a].key] = [SendStarted(a) EXCEPT !.state = "rejected"]]

\* An iMessage or an upload that was refused stays without an outcome.
RefusedUnread(a) ==
  /\ channel \in {"imessage", "upload"} /\ Refusal(a)
  /\ UNCHANGED sends

\* Any other error: the outcome is unknown and the entry stays as it is.
Unconfirmed(a) ==
  /\ at[a] = "asked"
  /\ Leave(a, "gone") /\ Ended(a)
  /\ UNCHANGED <<channel, ask, holder, leased, sends, seen, wire>>

\* The process of the call dies.
Dies(a) ==
  /\ at[a] \in {"ready", "claim", "post", "asked"}
  /\ Leave(a, "gone")
  /\ UNCHANGED <<channel, ask, theTurn, sends, seen, wire>>

SendNext ==
  \/ TurnFinishes \/ TurnStopped \/ LeaseRunsOut \/ Reclaimed \/ Judge \/ Checkpoint
  \/ \E c \in Calls : Resolve(c) \/ ResolveUpload(c)
  \/ \E a \in Attempts : \/ LookText(a) \/ LookReaction(a) \/ LookIMessage(a) \/ LookUpload(a)
                         \/ Claim(a) \/ ClaimFails(a) \/ ClaimTwin(a) \/ Post(a) \/ Lands(a)
                         \/ Answered(a) \/ RefusedByPolicy(a) \/ RefusedUnread(a)
                         \/ Unconfirmed(a) \/ Dies(a)

SendSpec == SendInit /\ [][SendNext]_sendVars

-----------------------------------------------------------------------------
(* Requests that left a process and were not refused *)
Out(a) == wire[a] \in {"asked", "landed"}

(* What one journalled intent is: a key, or the content of an upload of    *)
(* one source (one tool call re-run under another key is the same upload). *)
SameIntent(a, b) ==
  \/ channel \in {"text", "imessage"} /\ ask[a].key = ask[b].key
  \/ channel = "upload" /\ ask[a].src = ask[b].src /\ ask[a].matter = ask[b].matter

(* However calls are repeated, run side by side or lose their process, the *)
(* platform takes one intent at most once, without relying on its own      *)
(* idempotency; requests under one key carry the same content, so that this *)
(* idempotency cannot swallow another message; and a WhatsApp source is    *)
(* answered by the tool or by the gateway, never by both: the tool claims   *)
(* before it checks that the turn still runs, the gateway completes the     *)
(* turn before it looks for a claim.  (Reactions rely on the platform.)     *)
SentOnce ==
  /\ \A a, b \in Attempts : Out(a) /\ Out(b) /\ SameIntent(a, b) => a = b
  /\ \A a, b \in Attempts : Out(a) /\ Out(b) /\ ask[a].key = ask[b].key
                             => ask[a].matter = ask[b].matter
  /\ channel = "text" => ~ \E c \in Calls : OfTurn(c) /\ Out(c) /\ Out(AutoReply)
=============================================================================

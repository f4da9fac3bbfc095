--------------------------- MODULE Subscriptions ---------------------------
(***************************************************************************)
(* The webhook subscriptions of an identity (gateway/subscriptions, slack): *)
(* every gateway that starts goes through the channels in order, reads the  *)
(* subscriptions, and creates, updates or deletes some. Gateways may start  *)
(* together, and one row may carry the events of several channels.          *)
(***************************************************************************)
EXTENDS Naturals, Sequences, FiniteSets

CONSTANTS
  Starters, \* gateways that start, for one identity and one public URL
  MaxRows   \* bound: subscriptions

ASSUME SubscriptionAssumption == MaxRows \in Nat

VARIABLES
  rows,     \* the subscriptions the server has, by id
  atFirst,  \* the subscriptions it had at first
  known,    \* the event types this version of the server knows
  wired,    \* the incoming-call action is set
  stage,    \* where each gateway stands
  visiting, \* the channel it is at
  wish,     \* eventTypes: what it asks for on this channel
  again,    \* what it may still try again: after a conflict, without reactions
  view,     \* what it has made of the list it read
  crossed   \* history: a row was overwritten that had changed since it was read

subscriptionVars == <<rows, atFirst, known, wired, stage, visiting, wish, again, view, crossed>>

\* The phone is like the mailbox, and iMessage like the calls.
Channels == <<"mailbox", "a2a", "whatsapp", "calls", "slack">>
Events(channel) == {channel} \X {1, 2}
Reactions == <<"whatsapp", 2>>
SlackStop == <<"slack", 2>>
Families(types) == {type[1] : type \in types}
OwnerOf(channel) == IF channel = "mailbox" THEN "mailbox" ELSE "identity"

\* Ids are never given out again: a deleted subscription leaves a gap.
NoRow == [owner |-> "none", url |-> "none", types |-> {}, active |-> FALSE]
Gone  == [owner |-> "gone", url |-> "none", types |-> {}, active |-> FALSE]
Existing == [owner : {"mailbox", "identity"}, url : {"ours", "query", "other"}, types : SUBSET known,
             active : BOOLEAN]
RowIds == 1 .. MaxRows
Rows(owner, url, channel) ==
  {id \in RowIds : rows[id].owner = owner /\ rows[id].url = url
                   /\ channel \in Families(rows[id].types)}
ReadTypes(id) == IF id = 0 THEN {} ELSE rows[id].types
Channel(g) == Channels[visiting[g]]

SubscriptionTypeOK ==
  /\ {rows[id].url : id \in RowIds} \subseteq {"none", "ours", "query", "other"}
  /\ {wired, crossed} \subseteq BOOLEAN /\ visiting \in [Starters -> 1 .. Len(Channels)]
  /\ stage \in [Starters -> {"new", "list", "write", "prune", "wire", "done", "skipped", "failed"}]
  /\ \A g \in Starters : again[g] \subseteq {"conflict", "reactions"}

\* Any rows and any version of the server, as long as the two agree. A version knows
\* both events of A2A or none, and no reactions without messages: what the fallbacks
\* for older servers count on.
SubscriptionInit ==
  /\ Events("a2a") \subseteq known \/ Events("a2a") \cap known = {}
  /\ Reactions \in known => Events("whatsapp") \subseteq known
  /\ atFirst \in [RowIds -> Existing \cup {NoRow}]
  /\ rows = atFirst /\ wired = FALSE /\ crossed = FALSE
  /\ stage = [g \in Starters |-> "new"] /\ visiting = [g \in Starters |-> 1]
  /\ wish = [g \in Starters |-> Events(Channels[1])]
  /\ again = [g \in Starters |-> {"conflict", "reactions"}]
  /\ view = [g \in Starters |-> [row |-> 0, read |-> {}, types |-> {}, stale |-> {}]]

-----------------------------------------------------------------------------
At(g, s) == stage' = [stage EXCEPT ![g] = s]
Server == <<rows, atFirst, known, wired, crossed>>

\* The next channel, or the incoming-call action after the last one.
Advances(g) ==
  IF visiting[g] = Len(Channels)
  THEN At(g, "wire") /\ UNCHANGED <<visiting, wish, again>>
  ELSE /\ At(g, "list")
       /\ visiting' = [visiting EXCEPT ![g] = @ + 1]
       /\ wish' = [wish EXCEPT ![g] = Events(Channels[visiting[g] + 1])]
       /\ again' = [again EXCEPT ![g] = {"conflict", "reactions"}]

\* skipWebhookReconcile returns at once; else the identity and the client are read.
BeginsReconcile(g) ==
  /\ stage[g] = "new" /\ \E s \in {"skipped", "list", "failed"} : At(g, s)
  /\ UNCHANGED <<Server, visiting, wish, again, view>>

\* Variant: the events a row has for other channels are not kept.
ListsAlone(g) ==
  /\ stage[g] = "list" /\ Channel(g) # "slack"
  /\ LET channel == Channel(g)
         ours == Rows(OwnerOf(channel), "ours", channel)
     IN \E row \in IF ours = {} THEN {0} ELSE ours :
          view' = [view EXCEPT ![g] =
                     [row |-> row, read |-> ReadTypes(row), types |-> wish[g],
                      stale |-> IF OwnerOf(channel) = "identity" THEN {}
                                ELSE {id \in Rows("mailbox", "query", channel) :
                                        Families(rows[id].types) = {channel}}]]
  /\ At(g, "write") /\ UNCHANGED <<Server, visiting, wish, again>>

\* reconcileOwner reads: the row of this URL that has events of the channel,
\* the events to ask for (with those an identity's row already has), and the
\* rows of an old query string that carry nothing else.
ListsRows(g) ==
  /\ stage[g] = "list" /\ Channel(g) # "slack"
  /\ LET channel == Channel(g)
         ours == Rows(OwnerOf(channel), "ours", channel)
     IN \E row \in IF ours = {} THEN {0} ELSE ours :
          view' = [view EXCEPT ![g] =
                     [row |-> row, read |-> ReadTypes(row),
                      types |-> IF OwnerOf(channel) = "identity"
                                THEN ReadTypes(row) \cup wish[g] ELSE wish[g],
                      stale |-> IF OwnerOf(channel) = "identity" THEN {}
                                ELSE {id \in Rows("mailbox", "query", channel) :
                                        Families(rows[id].types) = {channel}}]]
  /\ At(g, "write") /\ UNCHANGED <<Server, visiting, wish, again>>

\* reconcileSlackSubscription reads: a paused row is an error, events that some
\* row covers are enough, and the row with most events takes the missing ones.
ListsSlack(g) ==
  /\ stage[g] = "list" /\ Channel(g) = "slack"
  /\ LET ours == Rows("identity", "ours", "slack")
         missing == Events("slack") \ UNION {rows[id].types : id \in ours}
         messages == {id \in ours : rows[id].types \cap (Events("slack") \ {SlackStop}) # {}}
         widest == {id \in messages : \A other \in messages :
                      Cardinality(rows[id].types) >= Cardinality(rows[other].types)}
     IN \/ /\ \E id \in ours : ~rows[id].active
           /\ At(g, "failed") /\ UNCHANGED <<visiting, wish, again, view>>
        \/ /\ \A id \in ours : rows[id].active
           /\ missing = {} /\ Advances(g) /\ UNCHANGED view
        \/ /\ \A id \in ours : rows[id].active
           /\ missing # {} /\ At(g, "write")
           /\ \E row \in IF messages = {} THEN {0} ELSE widest :
                view' = [view EXCEPT ![g] =
                           [row |-> row, read |-> ReadTypes(row),
                            types |-> ReadTypes(row) \cup missing, stale |-> {}]]
           /\ UNCHANGED <<visiting, wish, again>>
  /\ UNCHANGED Server

\* What follows a row that is as it should be: Slack has nothing to prune.
RowSettled(g) ==
  IF Channel(g) = "slack" THEN Advances(g) ELSE At(g, "prune") /\ UNCHANGED <<visiting, wish, again>>

\* The server refuses a second row of one URL for the same events.
Taken(g) ==
  \E id \in RowIds : rows[id].owner = OwnerOf(Channel(g)) /\ rows[id].url = "ours"
                     /\ rows[id].types \cap view[g].types # {}
Understood(g) == view[g].types \subseteq known

CreatesRow(g) ==
  /\ stage[g] = "write" /\ view[g].row = 0 /\ ~Taken(g) /\ Understood(g)
  /\ \E id \in RowIds :
       /\ rows[id] = NoRow /\ \A lower \in 1 .. id - 1 : rows[lower] # NoRow
       /\ rows' = [rows EXCEPT ![id] = [owner |-> OwnerOf(Channel(g)), url |-> "ours",
                                        types |-> view[g].types, active |-> TRUE]]
  /\ RowSettled(g) /\ UNCHANGED <<atFirst, known, wired, view, crossed>>

\* Another gateway has created it meanwhile: the list is read once more.
Conflicts(g) ==
  /\ stage[g] = "write" /\ view[g].row = 0 /\ Taken(g)
  /\ IF Channel(g) # "slack" /\ "conflict" \in again[g]
     THEN At(g, "list") /\ again' = [again EXCEPT ![g] = @ \ {"conflict"}]
     ELSE At(g, "failed") /\ UNCHANGED again
  /\ UNCHANGED <<Server, visiting, wish, view>>

\* A row with the right events is left alone; else its events are overwritten
\* with what was read and what is wanted. Nobody deletes a row of this URL.
UpdatesRow(g) ==
  /\ stage[g] = "write" /\ view[g].row # 0 /\ Understood(g)
  /\ rows' = IF view[g].types = view[g].read THEN rows
             ELSE [rows EXCEPT ![view[g].row].types = view[g].types]
  /\ crossed' = (crossed \/ (rows' # rows /\ rows[view[g].row].types # view[g].read))
  /\ RowSettled(g)
  /\ UNCHANGED <<atFirst, known, wired, view>>

\* An older server: WhatsApp is asked for without reactions, or left out, and so
\* is A2A; another channel's error is the gateway's.
NotUnderstood(g) ==
  /\ stage[g] = "write" /\ ~Understood(g) /\ ~(view[g].row = 0 /\ Taken(g))
  /\ \/ /\ Channel(g) = "whatsapp" /\ "reactions" \in again[g] /\ Reactions \notin known
        /\ wish' = [wish EXCEPT ![g] = Events("whatsapp") \ {Reactions}]
        /\ again' = [again EXCEPT ![g] = {"conflict"}]
        /\ At(g, "list") /\ UNCHANGED visiting
     \/ /\ Channel(g) = "whatsapp" /\ ~("reactions" \in again[g] /\ Reactions \notin known)
        /\ Advances(g)
     \/ Channel(g) = "a2a" /\ Advances(g)
     \/ Channel(g) \notin {"whatsapp", "a2a"} /\ At(g, "failed") /\ UNCHANGED <<visiting, wish, again>>
  /\ UNCHANGED <<Server, view>>

Prunes(g) ==
  /\ stage[g] = "prune"
  /\ \/ /\ view[g].stale = {} /\ Advances(g) /\ UNCHANGED <<rows, view>>
     \/ \E id \in view[g].stale :
          IF rows[id] = Gone
          THEN At(g, "failed") /\ UNCHANGED <<rows, view, visiting, wish, again>>
          ELSE /\ rows' = [rows EXCEPT ![id] = Gone]
               /\ view' = [view EXCEPT ![g].stale = @ \ {id}]
               /\ UNCHANGED <<stage, visiting, wish, again>>
  /\ UNCHANGED <<atFirst, known, wired, crossed>>

WiresCalls(g) ==
  /\ stage[g] = "wire" /\ wired' = TRUE /\ At(g, "done")
  /\ UNCHANGED <<rows, atFirst, known, visiting, wish, again, view, crossed>>

\* Any other error of the server, at any call.
CallErrs(g) ==
  /\ stage[g] \in {"list", "write", "prune", "wire"} /\ At(g, "failed")
  /\ UNCHANGED <<Server, visiting, wish, again, view>>

SubscriptionNext ==
  \E g \in Starters :
    \/ BeginsReconcile(g) \/ ListsRows(g) \/ ListsSlack(g) \/ CreatesRow(g) \/ Conflicts(g)
    \/ UpdatesRow(g) \/ NotUnderstood(g) \/ Prunes(g) \/ WiresCalls(g) \/ CallErrs(g)

SubscriptionSpec == SubscriptionInit /\ [][SubscriptionNext]_subscriptionVars

-----------------------------------------------------------------------------
(* When all gateways that started, together or one after the other, have    *)
(* succeeded, the server sends every event they asked for that it knows,    *)
(* the calls reach one of them, and nobody else's row or event was taken    *)
(* away: unless one overwrote a row that another had changed meanwhile.     *)
AllDelivered ==
  /\ ~crossed
  /\ \A g \in Starters : stage[g] \in {"new", "skipped", "done"}
  /\ \E g \in Starters : stage[g] = "done"
  => /\ (UNION {Events(Channels[i]) : i \in 1 .. Len(Channels)}) \cap known
          \subseteq UNION {rows[id].types : id \in {i \in RowIds : rows[i].url = "ours"}}
     /\ wired
     /\ \A id \in RowIds :
          /\ atFirst[id].owner = "identity" => atFirst[id].types \subseteq rows[id].types
          /\ atFirst[id].url = "other" \/ Cardinality(Families(atFirst[id].types)) > 1
             => rows[id].url = atFirst[id].url
=============================================================================

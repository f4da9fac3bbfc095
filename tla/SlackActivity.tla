--------------------------- MODULE SlackActivity ---------------------------
(***************************************************************************)
(* The processing indicator of one Slack thread (slack-activity.ts): the   *)
(* sources at work there, the record of the wanted state, the chain of      *)
(* requests that bring Slack to it, and the file that lets the next         *)
(* gateway take a forgotten indicator away.                                 *)
(***************************************************************************)
EXTENDS Naturals, Sequences

CONSTANTS Sources,    \* messages that may be at work in the thread
          MaxMarks,   \* wanted states, in total (bounds the model)
          MaxShops    \* gateways, one after the other (bounds the model)

VARIABLES
  party,    \* the sources at work: active.get(id)
  mark,     \* records[id], with a serial number for its identity
  marks,    \* marks so far
  disk,     \* the state the file has for the thread
  writes,   \* snapshots to write, in order
  chain,    \* tails.get(id): tasks, each with the writes it waits for
  step,     \* the first task: "waits", "asks", "sleeps", "clears"
  attempt,  \* its attempts so far
  lamp,     \* what Slack shows
  shop,     \* the gateway: "down", "up", "closing"
  shops,    \* gateways so far
  unread,   \* what it read in the file and has not acted on yet
  steady,   \* requests and writes no longer fail
  unsaved,  \* history: the last write failed, or left out what was unread
  empty     \* history: nobody is at work, and that was recorded while steady

activityVars == <<party, mark, marks, disk, writes, chain, step, attempt, lamp, shop, shops,
                  unread, steady, unsaved, empty>>

NoMark == [state |-> "none", n |-> 0]
Mood == {"processing", "suspended", "active"}
LastMark == MaxMarks + 2 * MaxShops
Mark == [state : Mood \cup {"none"}, n : 0 .. LastMark]

ActivityTypeOK ==
  /\ party \in [Sources -> {"away", "processing", "suspended"}]
  /\ mark \in Mark /\ marks \in 0 .. LastMark /\ disk \in Mood \cup {"none"}
  /\ \A i \in DOMAIN writes : writes[i] \in Mood \cup {"none", "without"}
  /\ \A i \in DOMAIN chain : chain[i] \in [state : Mood, n : 1 .. LastMark, wait : Nat]
  /\ step \in {"waits", "asks", "sleeps", "clears"} /\ attempt \in 0 .. 2
  /\ lamp \in {"off", "processing", "suspended"}
  /\ shop \in {"down", "up", "closing"} /\ shops \in 0 .. MaxShops
  /\ unread \in Mood \cup {"none"}
  /\ {steady, unsaved, empty} \subseteq BOOLEAN

ActivityInit ==
  /\ party = [s \in Sources |-> "away"] /\ mark = NoMark /\ marks = 0 /\ disk = "none"
  /\ writes = <<>> /\ chain = <<>> /\ step = "waits" /\ attempt = 0 /\ lamp = "off"
  /\ shop = "down" /\ shops = 0 /\ unread = "none"
  /\ steady = FALSE /\ unsaved = FALSE /\ empty = FALSE

-----------------------------------------------------------------------------
Working(p) == {s \in Sources : p[s] # "away"}

\* The state the thread should show.
Desired(p) == IF Working(p) = {} THEN "active"
              ELSE IF \E s \in Sources : p[s] = "suspended" THEN "suspended" ELSE "processing"

\* Variant: a state is asked for without waiting for the requests before it.
ScheduleAhead(state) ==
  /\ marks' = marks + 1
  /\ mark' = [state |-> state, n |-> marks + 1]
  /\ writes' = Append(writes, state)
  /\ chain' = <<[state |-> state, n |-> marks + 1, wait |-> Len(writes) + 1]>> \o chain

\* schedule: record it, save all records, and ask when it is saved and the
\* requests before it have ended.
Schedule(state) ==
  /\ marks' = marks + 1
  /\ mark' = [state |-> state, n |-> marks + 1]
  /\ writes' = Append(writes, state)
  /\ chain' = Append(chain, [state |-> state, n |-> marks + 1, wait |-> Len(writes) + 1])

\* A source comes, waits for the human, goes on or ends.
TellActivity(s, to) ==
  /\ shop = "up" /\ party[s] # to /\ marks < MaxMarks
  /\ to = "suspended" => party[s] # "away"
  /\ party' = [party EXCEPT ![s] = to]
  /\ IF mark.state # Desired(party') THEN Schedule(Desired(party'))
     ELSE UNCHANGED <<mark, marks, writes, chain>>
  /\ empty' = (steady /\ Working(party') = {} /\ mark.state # "active")
  /\ UNCHANGED <<disk, step, attempt, lamp, shop, shops, unread, steady, unsaved>>

\* recover: whatever the file still showed is taken away, at work or not.
ReadsBack ==
  /\ shop # "down" /\ unread # "none"
  /\ unread' = "none" /\ Schedule("active")
  /\ empty' = (steady /\ Working(party) = {})
  /\ UNCHANGED <<party, disk, step, attempt, lamp, shop, shops, steady, unsaved>>

\* Another thread is recorded: the snapshot has no more than the records.
Neighbour ==
  /\ shop = "up" /\ unread # "none" /\ mark = NoMark /\ writes = <<>>
  /\ writes' = <<"without">>
  /\ UNCHANGED <<party, mark, marks, disk, chain, step, attempt, lamp, shop, shops, unread, steady,
                 unsaved, empty>>

\* The first snapshot is written, or cannot be.
Writes(ok) ==
  /\ writes # <<>> /\ (ok \/ ~steady)
  /\ disk' = IF ~ok THEN disk ELSE IF Head(writes) = "without" THEN "none" ELSE Head(writes)
  /\ unsaved' = (~ok \/ Head(writes) = "without")
  /\ writes' = Tail(writes)
  /\ chain' = [i \in DOMAIN chain |-> [chain[i] EXCEPT !.wait = IF @ > 0 THEN @ - 1 ELSE 0]]
  /\ UNCHANGED <<party, mark, marks, step, attempt, lamp, shop, shops, unread, steady, empty>>

-----------------------------------------------------------------------------
(* The first task *)

Ready(s) == chain # <<>> /\ step = s /\ shop # "down"
Ends == chain' = Tail(chain) /\ step' = "waits" /\ attempt' = 0

Proceeds ==
  /\ Ready("waits") /\ Head(chain).wait = 0
  /\ step' = "asks"
  /\ UNCHANGED <<party, mark, marks, disk, writes, chain, attempt, lamp, shop, shops, unread,
                 steady, unsaved, empty>>

Shows(state) == lamp' = IF state = "active" THEN "off" ELSE state

\* Slack confirms: a state nobody has changed since is forgotten when it is
\* the last one.
Confirmed ==
  /\ Ready("asks")
  /\ Shows(Head(chain).state)
  /\ IF Head(chain).state = "active" /\ mark.n = Head(chain).n
     THEN /\ mark' = NoMark /\ writes' = Append(writes, "none")
          /\ chain' = [chain EXCEPT ![1].wait = Len(writes) + 1]
          /\ step' = "clears" /\ UNCHANGED attempt
     ELSE Ends /\ UNCHANGED <<mark, writes>>
  /\ UNCHANGED <<party, marks, disk, shop, shops, unread, steady, unsaved, empty>>

Cleared ==
  /\ Ready("clears") /\ Head(chain).wait = 0 /\ Ends
  /\ UNCHANGED <<party, mark, marks, disk, writes, lamp, shop, shops, unread, steady, unsaved, empty>>

\* Slack does not confirm, though it may have obeyed: up to three attempts,
\* while the state is still wanted.
Unanswered(obeyed) ==
  /\ Ready("asks") /\ ~steady
  /\ IF obeyed THEN Shows(Head(chain).state) ELSE lamp' = lamp
  /\ IF attempt = 2 \/ mark.n # Head(chain).n THEN Ends
     ELSE step' = "sleeps" /\ attempt' = attempt + 1 /\ UNCHANGED chain
  /\ UNCHANGED <<party, mark, marks, disk, writes, shop, shops, unread, steady, unsaved, empty>>

Wakens ==
  /\ Ready("sleeps") /\ step' = "asks"
  /\ UNCHANGED <<party, mark, marks, disk, writes, chain, attempt, lamp, shop, shops, unread,
                 steady, unsaved, empty>>

-----------------------------------------------------------------------------
(* The gateway *)

OpensShop ==
  /\ shop = "down" /\ shops < MaxShops
  /\ shop' = "up" /\ shops' = shops + 1 /\ unread' = disk
  /\ empty' = FALSE
  /\ UNCHANGED <<party, mark, marks, disk, writes, chain, step, attempt, lamp, steady, unsaved>>

\* close: the indicator of work in progress is taken away.
ClosesShop ==
  /\ shop = "up" /\ shop' = "closing"
  /\ party' = [s \in Sources |-> "away"]
  /\ IF Working(party) # {} /\ mark # NoMark THEN Schedule("active")
     ELSE UNCHANGED <<mark, marks, writes, chain>>
  /\ UNCHANGED <<disk, step, attempt, lamp, shops, unread, steady, unsaved, empty>>

\* The process ends: a crash, or the end of close.
LeavesShop ==
  /\ shop # "down" /\ shop' = "down"
  /\ party' = [s \in Sources |-> "away"] /\ mark' = NoMark /\ writes' = <<>> /\ chain' = <<>>
  /\ step' = "waits" /\ attempt' = 0 /\ unread' = "none"
  /\ UNCHANGED <<marks, disk, lamp, shops, steady, unsaved, empty>>

Steadies ==
  /\ ~steady /\ steady' = TRUE
  /\ UNCHANGED <<party, mark, marks, disk, writes, chain, step, attempt, lamp, shop, shops, unread,
                 unsaved, empty>>

ActivitySteps == Proceeds \/ Confirmed \/ Cleared \/ Wakens

ActivityNext ==
  \/ \E s \in Sources : \E to \in {"away", "processing", "suspended"} : TellActivity(s, to)
  \/ ReadsBack \/ Neighbour \/ ActivitySteps
  \/ \E b \in BOOLEAN : Writes(b) \/ Unanswered(b)
  \/ OpensShop \/ ClosesShop \/ LeavesShop \/ Steadies

ActivitySpec == ActivityInit /\ [][ActivityNext]_activityVars

\* The file is written, requests are answered, timers fire.
ActivityFairness ==
  WF_activityVars(ActivitySteps) /\ WF_activityVars(ReadsBack) /\ WF_activityVars(Writes(TRUE))

-----------------------------------------------------------------------------
(* While Slack shows the indicator the file says so, unless writing failed  *)
(* or a new gateway wrote before it had acted on what it read: whenever the *)
(* process dies, the next one knows of it.  And once it is recorded that    *)
(* nobody is at work, by the end of the last source or by a new gateway     *)
(* that found an indicator in the file, the indicator goes, or the gateway  *)
(* does, or somebody comes again (slack-activity.ts:51-171).                *)
LampGoesOut ==
  /\ [](lamp # "off" => disk # "none" \/ unsaved)
  /\ empty ~> (lamp = "off" \/ shop # "up" \/ ~empty)
=============================================================================

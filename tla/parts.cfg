\* A2A tasks, native sends, the Slack card, controls, webhooks, the journal files, the
\* Slack companion's session, subscriptions and a realtime call: safety.
SPECIFICATION Spec
CONSTANTS
  c1 = c1
  c2 = c2
  k1 = k1
  k2 = k2
  k3 = k3
  m1 = m1
  m2 = m2
  m3 = m3
  r1 = r1
  r2 = r2
  t1 = t1
  p1 = p1
  p2 = p2
  p3 = p3
  g1 = g1
  g2 = g2
  MaxMsg = 2
  MaxStarts = 2
  MaxCalls = 1
  Calls = {c1, c2}
  AutoReply = AutoReply
  SendKeys = {k1, k2, k3}
  Matters = {m1, m2}
  MaxHolders = 2
  NoEntry = NoEntry
  NoCall = NoCall
  Gateways = {g1, g2}
  MaxNotes = 2
  LookupLimit = 1
  PollLimit = 1
  RetryLimit = 1
  Messages = {m1, m2, m3}
  Nil = Nil
  MaxDeliveries = 2
  MaxAsks = 2
  MaxBoots = 2
  Requests = {r1, r2}
  Texts = {t1, t2}
  MaxPosts = 2
  MaxLives = 2
  Writers = {p1, p2, p3}
  Free = Free
  MaxDeaths = 2
  Depth = 2
  MaxLive = 2
  PauseLimit = 1
  Handlers = {h1}
  History = History
  Runner = Runner
  MaxReigns = 2
  Starters = {g1, g2}
  MaxRows = 7
  Work = {"w1", "w2"}
  MaxPresses = 2
  MaxActions = 1
  MaxOwn = 1
INVARIANTS NoProgressDuringOutcome CanceledStays SentOnce NeverReplays ControlsActOnThePast
  AnswersStayAnswers HandledOnce NoUpdateLost ToldOnce AllDelivered
PROPERTIES OutcomeIsFinal CutIsClean GoodbyeAfterWork
CHECK_DEADLOCK FALSE

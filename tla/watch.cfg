SPECIFICATION FairSpec
CONSTANTS
  Convs <- OneConv
  Steps <- UpToLimit
  Kinds = {"agent_question", "prompt_answered"}
  Senders <- Threads
  Pollers = {p1}
  RingSize = 2
  MaxSeq = 4
  NoStep = NoStep
  Settle = 2
  MaxLen = 3
  Scanner = Scanner
  NoConv = NoConv
INVARIANTS
  AnnouncedOnce
  HistoryIsQuiet
PROPERTIES
  PollIsComplete
  OnlySettledReplies
  LastStepAnnounced
CHECK_DEADLOCK FALSE

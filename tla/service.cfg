\* Two processes on one database, two calls at a time.
SPECIFICATION FairSpec
CONSTANTS
  w1 = w1  w2 = w2  c1 = c1  c2 = c2
  Unknown = Unknown
  Workers = {w1, w2}
  Calls = {c1, c2}
  Debug = FALSE
  ReplyFirst = FALSE
INVARIANTS ServesWithSchema LogTellsTheAnswer AnswersAreTraceable AnswersMatchTransaction
PROPERTY StopsCleanly

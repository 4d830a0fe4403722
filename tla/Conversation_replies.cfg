\* Replies of up to three chunks, cut anywhere, sent back with the tools' answers.
SPECIFICATION CSpec
CONSTANTS
  Blank = ""
  Separator = Separator
  NoCall = NoCall
  Chunks <- Mixed
  ReadsAsJSON <- Reads
  MaxChunks = 3
  Openings <- Opened
  Completions <- Printed
  Answers <- Weather
  Remarks <- Asides
INVARIANTS WellFormedOnceStarted SinksAgree CallsStayWhole HeardInOrder ReplyComesBackWhole PromptIsWhole
CHECK_DEADLOCK FALSE

SPECIFICATION Spec
CONSTANTS
  I32Max = 127
  OverflowChecks = FALSE
  BufSize = 40
  Ignored <- IgnoredTypes
  Message <- Requests
  UserAnswer <- UserAnswers
  GroupAnswer <- GroupAnswers
  ListAnswer <- ListAnswers
  AiAnswer <- AiAnswers
  HostAnswer <- HostAnswers
INVARIANTS
  RequestIsWhatWasSent
  ReplyDecodes
  LookupIsAnswered

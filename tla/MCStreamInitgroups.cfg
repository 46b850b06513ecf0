SPECIFICATION Spec
CONSTANTS
  I32Max = 127
  OverflowChecks = FALSE
  BufSize = 40
  Ignored <- IgnoredTypes
  Message <- GoodRequest
  UserAnswer <- UserAnswers
  GroupAnswer <- GroupAnswers
  ListAnswer <- WideListAnswers
  AiAnswer <- AiAnswers
  HostAnswer <- HostAnswers
INVARIANTS
  InitgroupsIsAnswered

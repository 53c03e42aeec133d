SPECIFICATION PipelineSpec
CONSTANTS
  Raw <- MCRaw
  MAX_PER_KIND = 2
  MAX_BODY_CHARS = 4
  MAX_LINK_TEXT = 2
  Octet = 4
  SUFFIXES <- MCSUFFIXES
  Facts <- MCFacts
  Message <- MCMessage
  RuleId <- MCRuleId
  Kind <- MCKind
  RULES <- MCRULES
  Check <- MCCheck
INVARIANTS ScoreIsStrongest CrashHidesNothing NoSingleSignal AdviceFits
  CollectedExactly TruncatedIffDropped HostsReported LinksJudged
\* A message is analysed once.
CHECK_DEADLOCK FALSE

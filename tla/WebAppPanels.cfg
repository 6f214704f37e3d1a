\* Two requests that may overlap, two servers, four panels besides the connection.
SPECIFICATION FairSpec
CONSTANTS
  u1 = u1
  u2 = u2
  Urls <- TwoUrls
  Answers = {"RESULTSET", "EXCEPTION"}
  MaxRequests = 2
  MaxPanels = 4
INVARIANTS PageMatchesList HiddenIsReachable OneOfEach SchemaIsCurrent StatusTruthful AnswersMixOnlyByOverlap OverlayWhileWaiting
PROPERTIES OverlayGoes

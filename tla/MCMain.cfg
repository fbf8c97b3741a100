\* Every text of up to seven tokens, and the configurations of Files, which two
\* workers serve.
CONSTANTS
  w1 = w1
  w2 = w2
  Words <- MCWords
  spelling <- MCSpelling
  stoi <- MCStoi
  Registry <- MCRegistry
  canonical <- MCCanonical
  Texts <- MCTexts
  Workers = {w1, w2}
  Urls <- MCUrls
  Kind <- MCKind
  Paths <- MCPaths
  Contents = {"page"}
  CONTENT_TYPE <- MCTypes
  Inputs <- MCInputs
SPECIFICATION Spec
SYMMETRY WorkerSymmetry
INVARIANT TypeOK
INVARIANT TokensAreText
INVARIANT StackIsPath
INVARIANT TreeIsText
INVARIANT AcceptsTheGrammar
INVARIANT PortIsConfigured
INVARIANT RoutesAreLocations
INVARIANT LongestMatch
INVARIANT CrashOnlyUnmatched
INVARIANT StaticAnswers
PROPERTY ClosedBlocksFixed
PROPERTY RoutesFixed

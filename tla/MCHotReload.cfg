SPECIFICATION Spec
INVARIANTS
  StreamFound
  OwnConsumer
  LoadedIsServable
  Portable
  FailsClosed
  FormLikeJSON
  ForEachPerElement
CONSTANTS
  Streams <- MCStreams
  Subjects <- MCSubjects
  Messages <- MCMessages
  Words <- MCWords
  MaxChanges = 3
  ParseInt <- MCParseInt
  ParseFloat <- MCParseFloat
  ParseBool <- MCParseBool
  ParseDuration <- MCParseDuration
  ParseTime <- MCParseTime
  ParseJSON <- MCParseJSON
  MarshalJSON <- MCMarshalJSON
  Text <- MCText
  InText <- MCInText
  MaxIterations = 3
  BucketKeys = {k1, k2}
  SubjectRules <- MCSubjectRules
  Samples <- MCSamples
  MessageRules <- MCMessageRules
  Payloads <- MCPayloads
  System <- MCSystem
  Now <- MCNow
  NoRule = NoRule
  Nothing = Nothing
SYMMETRY Symmetry
CHECK_DEADLOCK FALSE

SPECIFICATION Spec
CONSTANTS
  Encoders = {e1, e2}
  MaxFrameSize = 33
  Samples <- MCSamples
  ParameterSets <- MCParameterSets
  MaxFrames = 2
  MaxConnections = 2
  MaxRecoveries = 2
CHECK_DEADLOCK FALSE
SYMMETRY EncoderSymmetry
INVARIANTS SameUnits KeyMeansIdr NeverDesynced RelaysFeed JoinsDecodable NumbersTellFrames

SPECIFICATION DVXSpec
CONSTANTS
  DStarCalls = {1}
  DMRCalls = {3}
  OwnDMR = {11}
  OwnDStar = {13}
  NoCall = none
  Timeout = 2
  MaxCall = 3
  OwnTicks = 1
  MaxQueue = 6
  Depth = 1
  Gaps = {0, 5}
  MaxMeta = 1
  MaxBacklog = 9
  Voices <- MCVoices
  Calls <- MCCalls
  ColourCode = 1
  Noisy <- MCNoisy
  MaxFlips <- MCMaxFlips
  Fades = {5, 8}
  Mode = "dstar"
  Window = 2
  MaxRepeats = 3
  Wrong = {20, 40}
  Aliases <- MCAliases
  Src = 2345678
  Dst = 2350
  Turns = 12
  Hits <- MCHits
  MaxNoise = 2
  Text <- MCText
  Station <- MCStation
  Starts <- MCStarts
  MaxLost = 1
INVARIANTS
  CallsWhole NoiseCorrected CallerHeals 
PROPERTIES
  LatencyBounded FreeAgain 

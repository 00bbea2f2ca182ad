SPECIFICATION TableSpec
CONSTANTS
  k1 = k1
  k2 = k2
  k3 = k3
  k4 = k4
  b1 = b1
  Keys <- MCKeys
  Buckets <- MCBuckets
  Index <- MCIndex
  BucketSize = 3
  NoMove = NoMove
  NoKey = NoKey
  Inf = 9
  Entries <- MCEntries
  Works = {0, 1}
  GenMax = 2
INVARIANT UniqueLive
PROPERTIES ProofsOutlive IsLossyMap
SYMMETRY Symmetry

CONSTANTS
  Addrs = {1, 2, 3}
  Oracles = {2}
  MinSize = 3
  SeqLimit = 2
  AbateInterval = 2
  ProbeInterval = 1
  MaxLag = 0
  MaxListed = 2
  MaxNet = 1
  MaxCrashes = 1
SPECIFICATION FairSpec
INVARIANTS Inv StalePongsIgnored
PROPERTIES OraclesStay DropsOnlyAtStart EverybodyProbed

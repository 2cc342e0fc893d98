SPECIFICATION FairSpec
CONSTANTS
  p1 = p1
  p2 = p2
  Params <- TwoSettings
  NoFrequency = NoFrequency
  Untuned = Untuned
  MaxPolls = 1
PROPERTY
  RailCutNoticed

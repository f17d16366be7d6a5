SPECIFICATION Spec
CONSTANTS
  Plugins <- Effects
  Buses <- SomeBuses
  Blocks = {64}
  MaxFrames = 1
  DescriptorSize = 8
INVARIANTS ChannelMemory SpeakersKept SilenceKept BlocksApart CacheTrue ArrangementHonoured

SPECIFICATION Spec
CONSTANTS
  Plugins <- StereoEffect
  Buses <- StereoBus
  Blocks = {16}
  MaxFrames = 16
  DescriptorSize = 8
INVARIANT MemorySuffices

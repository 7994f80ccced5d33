SPECIFICATION FairSpec
CONSTANTS
  Half = 4
  Asked <- Corners
INVARIANTS TypeOK ResultRight LoopInvariant
PROPERTY Answered

SPECIFICATION Spec
CONSTANTS
  Bit = {b0, b1}
  PowerUp = {b1}
  guarded = FALSE
INVARIANT TypeOK
PROPERTY IsFifo

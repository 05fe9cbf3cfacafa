SPECIFICATION Spec
CONSTANTS
  Inputs <- TieInputs
  Ties <- TieTies
  Cells <- TieCells
  Flops <- TieFlops
  Outputs <- TieOutputs
  kind <- Tiekind
  pinA <- TiepinA
  pinB <- TiepinB
  pinD <- TiepinD
  tie <- TieLow
  RandWidth = 2
  inBit <- TieinBit
  flopPos <- TieflopPos
PROPERTY MaskedImplementsUnmasked

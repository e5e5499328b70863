CONSTANTS
  Version <- AllVersions
  BitClk <- AllBitClks
SPECIFICATION Spec
INVARIANTS
  TypeOK
  PhasesFit
  ClocksServed
CHECK_DEADLOCK FALSE

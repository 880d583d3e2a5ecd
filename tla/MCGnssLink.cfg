SPECIFICATION Spec
CONSTANTS
  Settings = {rover, base1, base2}
  Base = {base1, base2}
  Tunings = {low, high}
  Factory = Factory
  None = None
  MaxLost = 1
  MaxUpsets = 2
INVARIANTS
  TypeOK
  AgreeUnlessAmiss
PROPERTIES
  LateModuleFound
  SurveyCatchesUp

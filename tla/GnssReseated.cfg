SPECIFICATION Spec
CONSTANTS
  Settings = {rover, base1, base2}
  Base = {base1, base2}
  Tunings = {low}
  Factory = Factory
  None = None
  MaxLost = 0
  MaxUpsets = 1
PROPERTY
  ReseatedWorks

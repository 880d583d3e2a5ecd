SPECIFICATION Spec
CONSTANTS
  None = None
  Lockout = 2
  Redraw = 3
  Window = 7
INVARIANT
  TypeOK
PROPERTIES
  TwoTaps
  ButtonsSayWhat
  QuestionFades

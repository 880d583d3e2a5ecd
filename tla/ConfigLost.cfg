SPECIFICATION Spec
CONSTANTS
  wifi1 = wifi1
  pass1 = pass1
  word = word
  On = on
  Unset = unset
  Slots = {wifi1}
  RidesOn <- PassRides
  Texts = {}
  Words = {word}
  Passwords = {p}
  CompiledIn <- Compiled
  Left <- MCLeft
PROPERTY SavedIsKept

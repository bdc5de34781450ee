SPECIFICATION Spec
CONSTANTS
  Parts = {"patient", "impatient", "composer", "scroll", "search"}
  None = None
  Convs = {here, there}  here = here
  MaxTurns = 3  MaxQuestions = 3  MaxEdits = 1  MaxReloads = 1
  MaxAttached = 2  Keys = {"click", "enter"}  MaxWords = 1  MaxFiles = 3  MaxPresses = 2  MaxLost = 1
  Gap = 1  Threshold = 1  Views = {2, 3}  MaxAbove = 2  MaxBelow = 2  MaxScrolls = 1
  there = there  cat = cat  dog = dog
INVARIANTS
  
  SearchLeadsToTheMatch
PROPERTIES
  
  ReaderKeepsThePlace
CHECK_DEADLOCK FALSE

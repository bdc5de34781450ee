SPECIFICATION Spec
CONSTANTS
  Parts = {"file", "delimiter", "artifacts", "blocks", "export", "import", "prompt"}
  None = None
  a = a  b = b  Absent = Absent  r = r  s = s  p = p  q = q
INVARIANTS
  WrittenIsReadBack
  
  ArtifactsAreThePresentedFiles
  
  LongestEndThatFits
CHECK_DEADLOCK FALSE

SPECIFICATION Spec
CONSTANTS
  Sources = {"tea"}
  Projects = {"app"}
  Categories = {"home"}
  Texts = {1, 2, 3}
  Runs = {1, 2}
  Corrections = {3}
  HasKey = TRUE
  HasIndex = TRUE
  AnnMinNodes = 2
  VersionsKept = 1
  MaxAge = 0
  HardDelete = 1
  Answers <- MCAnswers
  MaxTime = 2
  MaxUpsets = 2
INVARIANT KeptWhileFresh
INVARIANT IndexedIsFound
PROPERTY ReplacedIsKept
CHECK_DEADLOCK FALSE

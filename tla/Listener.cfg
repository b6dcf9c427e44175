CONSTANTS
  p1 = p1
  p2 = p2
  Conns = {p1, p2}
  Forms <- MCForms
  Header = 2
  SizeCells = 2
  Pieces <- MCPieces
  AcceptQueue = 2
SPECIFICATION FairSpec
INVARIANTS BacklogExplained DamageNeedsAPause CutMessageIsAttributed
PROPERTIES EveryConnectionCloses
CHECK_DEADLOCK FALSE

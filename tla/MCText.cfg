SPECIFICATION MCSpec
CONSTANTS
  MaxRegMatch = 10
  SizeMax = 63
  NoSource = NoSource
  SmallSize = 8
  MaxSize = 40
  Align = 4
  NodeStep = 8
  Sizes = {0, 3, 7}
  MaxOps = 4
  Null = Null
  m1 = m1
  m2 = m2
  m3 = m3
  g1 = g1
  g2 = g2
  Texts <- MCTexts
  Lines <- MCLines
  Cases <- MCCases
  OwnCases <- MCOwnCases
  Templates <- MCTemplates
  Contexts <- MCContexts
  Denials <- MCDenials
  Items <- MCItems
  Variables <- MCVariables
  Maps <- MCMaps
  Filling <- MCFilling
  Inputs <- MCInputs
  Lengths <- MCLengths
  Values <- MCValues
  IfCopies <- MCIfCopies
  ElifCopies <- MCElifCopies
  MaxDepth = 3
INVARIANTS
  TextKept
  ExpandsRight
  ParsesRight
  PrintsChosen
CHECK_DEADLOCK FALSE

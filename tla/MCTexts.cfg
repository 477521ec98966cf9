SPECIFICATION TextsSpec
CONSTANTS
  notGiven = notGiven
  NotGiven = notGiven
  MaxFrame = 5
  MaxStream = 8
  IsJson <- MCIsJson
  Wired <- MCWired
  Names <- MCNames
  Projects <- MCProjects
  MacroSets <- MCMacroSets
  Alphabet <- MCAlphabet
  MaxWeight = 6
  MaxIterations = 3
  Self = "w"
  Oversized <- MCOversized
  Declared <- MCDeclarations
  Keys = {k1, k2}
  Executions = {e1, e2}
  MaxClock = 5
INVARIANTS
  FramesWhole
  RendersAsMeant
  AcceptedResolves
  OptionsHeld
  HistoryKept
CHECK_DEADLOCK FALSE

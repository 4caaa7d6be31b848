SPECIFICATION CompilerSpec
CONSTANTS
  Locals = {a, b}
  Names = {a, b}
  Database = Database
  Resources = {Database}
  N = 3
  Statements <- PlainStatements
  FinalReads <- OneLocal
  CheckedPrograms <- CallPrograms
  PublicEffects = "declared"
  Transparent = {"t"}
  Projects <- AllProjects
  ReexportMaxDepth = 64
  Components <- TarjanComponents
  MainBodies <- RunPrograms
  MainBlocks <- RunBlocks
  LastUse <- LastRead
SYMMETRY LocalSymmetry
INVARIANTS
  DominatorsExact
  MoveSound
  UamIsReal
  ExhaustiveSound
  WitnessMissed
  UnreachableExact
  EffectsTracked
  InferenceExact
  DependenciesFirst
  CyclesReported
  OriginEmittedFirst
  SequentialValues
  SequentialEffects
  StatementsInOrder
  TextMeansTree
  RunsAsWritten
  CutsReported
  NoUseAfterDrop
  BuffersFreedOnce
CHECK_DEADLOCK FALSE

SPECIFICATION OperationsSpec
CONSTANTS
  Ads = {x, y}
  Texts = {tx1, tx2}
  Unset = Unset
  MaxCalls = 2
  MaxOthers = 2
  Contested = {x}
  Sellers = {s1}
  Scripts = {"seed:catalog", "seed:vehicle-catalog", "seed:powertrains"}
  Names <- MCNames
  Word <- MCWord
  Entries <- MCEntries
  MaxFaults = 1
  TypedMakes = {"Audi"}
  TypedModels = {"A3"}
  TypedTrims = {"Sport"}
  TypedFuels = {"DIESEL"}
  MaxRuns = 3
  t1 = t1
  f1 = f1
  f2 = f2
  x1 = x1
  c1 = c1
  c2 = c2
  c3 = c3
  c4 = c4
  Finitions = {t1}
  Cars = {c1, c2, c3, c4}
  OldCars = {c1, c3}
  FinitionOf <- MCFinitionOf
  Burns = {f1, f2}
  Figures = {92}
  DoorCounts = {3}
  Papers <- MCPapers
  OldPapers <- MCOldPapers
  Missing = Missing
  MaxUpgrades = 2
INVARIANTS OwnStepsShowOnce TwinsComeFromRaces SeedsFillGaps CarsShowWhatWasTold
PROPERTIES  RerunAddsNothing
CHECK_DEADLOCK FALSE

CONSTANTS
  worker = worker
  coord = coord
  reg = reg
  a = a
  b = b
  Nodes = {worker, coord, reg}
  Caps = {a, b}
  None = None
  Upper <- MCUpper
  Registry <- MCRegistry
  InitialCaps <- MCInitialCaps
  Unaddressed = {coord}
  Requirements <- MCRequirements
  Options <- MCOptions
  Tasks = {t1}
  Receivers = {coord}
  TTLs = {1, 2}
  Administered = {reg}
  Configurations <- MCConfigurations
  MaxChanges = 1
  MaxHandlers = 2
SPECIFICATION MCSpec
INVARIANTS TypeOK SelectedAreAnswered ListedNodesEligible QueueRoutineRuns
PROPERTIES CapabilitiesPropagate ControlPlaneTaskEnds

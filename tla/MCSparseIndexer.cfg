SPECIFICATION Spec
CONSTANTS
  Reqs = {r1, r2}
  NoReq = NoReq
  NumLayers = 2
  MaxLen = 6
  MaxPad = 1
  Prompts = {1, 4}
  Deployments <- MCDeployments
  Workspace = 6
  Budgets = {3, 8}
INVARIANTS
  TypeOK
  RowsExact
  ReusedWorkspaceIsOwn
  CommittedKV
PROPERTIES
  RowsAnsweredOnce

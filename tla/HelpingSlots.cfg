SPECIFICATION FairSpec
CONSTANTS
  Nodes = {n1, n2}
  FairNodes = {n1}
  Storages = {A, B}
  Values = {A, B}
  Zero = Zero
  Loadable <- MCLoadable
  MaxGenerations = 2
INVARIANTS
  TypeOK
  ControlFollowsReader
  EnvelopeExclusive
  HandoverMatchesRequest
PROPERTIES
  ReaderFinishes
  HelperFinishes

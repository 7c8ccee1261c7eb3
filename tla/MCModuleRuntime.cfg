CONSTANTS
  Replicas = {"r1", "r2"}
  Configs <- MCConfigs
  Messages = {"good", "stray", "other"}
  Rpc <- MCRpc
  Adapters = {"sql"}
  MaxCrashes = 1

SPECIFICATION FairSpec

INVARIANTS
  ExecutedAsRouted

PROPERTIES
  RequestsAnswered

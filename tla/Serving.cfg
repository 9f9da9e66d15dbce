\* Two requests at once and a pool of one connection, with and without
\* origins configured.
CONSTANTS
  Requests = {r1, r2}
  Connections = 1
  MaxTransactions = 2
SPECIFICATION ServingSpec
INVARIANTS
  ServingTypeOK
  ConnectionsReturned
  GateFindsPayload
  PreflightAnswered
  BareResponsesExplained
PROPERTY
  EveryRequestAnswered

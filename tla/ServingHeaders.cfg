\* The same instance, and what the module of the security headers promises.
CONSTANTS
  Requests = {r1, r2}
  Connections = 1
  MaxTransactions = 2
SPECIFICATION ServingSpec
INVARIANT
  HeadersOnEveryResponse

SPECIFICATION FairSpec
CONSTANTS
  a = a
  b = b
  d1 = d1
  Addrs = {a, b}
  Slots = {s1}
  Words = {z}
  Zero = z
  Payloads = {d1}
  Empty = empty
  NoCode = nocode
  Installed <- MCInstalled
  Salts = {1}
  Creators = {a}
  MaxNonce = 1
  Derive <- MCDerive
  MAX_CALL_DEPTH = 3
  HostDepth = 2
  GasCap = 3
  OpCosts <- MCOpCosts
  MaxCost = 2
  InfiniteOps = {"plain"}
  MinUsed = 0
  MaxExact = 4
  Supply <- MCSupply
PROPERTIES TerminatesUnlessRefilled BalanceNeverCreated
CHECK_DEADLOCK FALSE

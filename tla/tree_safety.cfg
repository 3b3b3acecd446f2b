SPECIFICATION Spec
CONSTANTS
  a = a
  b = b
  d1 = d1
  Addrs = {a, b}
  Slots = {s1}
  Words = {z, w}
  Zero = z
  Payloads = {d1}
  Empty = empty
  NoCode = nocode
  Installed <- MCInstalled
  Salts = {1}
  Creators = {a}
  MaxNonce = 1
  Derive <- MCDerive
  MAX_CALL_DEPTH = 2
  HostDepth = 9
  GasCap = 3
  OpCosts <- MCOpCosts
  MaxCost = 2
  InfiniteOps = {"plain"}
  MinUsed = 0
  MaxExact = 4
  Supply <- MCNoSupply
INVARIANTS TypeOK DepthBounded OkWithinCap OvershootBounded StaticInherited
PROPERTIES OverdrawnWritesNothing WritesNeedAContext PoolSpec
CHECK_DEADLOCK FALSE

SPECIFICATION BothSpec
CONSTANTS
  a = a
  b = b
  c = c
  n = n
  p = p
  Addrs = {a, b, c, n}
  Slots = {s1}
  Words = {z, w}
  Zero = z
  Payloads = {p}
  Empty = empty
  NoCode = nocode
  Installed <- MCInstalled
  Salts = {1}
  Creators = {a}
  MaxNonce = 1
  Derive <- MCDerive
  Computed <- MCComputed
  MAX_CALL_DEPTH = 2
  HostDepth = 9
  GasCap = 3
  OpCosts <- MCOpCosts
  MaxCost = 1
  InfiniteOps = {}
  MinUsed = 0
  MaxExact = 2
  Supply <- MCSupply
  Values = {0, 1}
  Callees = {a, b, c, n}
  MaxLogs = 2
  other = other
  Clients = {sender, other}
  Sender = sender
  Sent = 1
  Keys <- MCKeys
INVARIANTS AgreementTypeOK StateAgrees ReturnDataNeverWrong TransientAgreesWithoutReentry LeafLogsAgree ContextServesDelegatesAlone
PROPERTIES TreesPartOnlyAsListed

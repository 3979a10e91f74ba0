\* Four addresses, one without keys; every key unlocks; every request is
\* an order of the four addresses.  Message lists of up to two messages.
CONSTANTS
  A1 = A1
  A2 = A2
  A3 = A3
  A4 = A4
  L1 = L1
  L2 = L2
  NoAddress = NoAddress
  AddressIDs <- MCAddressIDs
  MissingKeys <- MCMissingKeys
  BrokenKeys = {}
  UnknownIDs = {}

INIT MCInit
NEXT MCNext

INVARIANT TypeOK
INVARIANT UnlockedMeansAllAddressKeys
INVARIANT ReorderedAsRequested
INVARIANT CountsMatchReference

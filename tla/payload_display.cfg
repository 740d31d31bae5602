CONSTANTS
  Payloads <- MCPayloads
  MaxPayload = 242
  SizeModulus = 65536
SPECIFICATION FairSpec
INVARIANTS
  ShowsFirstBytes
  WarningIsTrue
  IInv
PROPERTY
  ImplementsContract

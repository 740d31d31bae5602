CONSTANTS
  Payloads <- MCPayloads
  MaxPayload = 242
  SizeModulus = 65536
SPECIFICATION Spec
INVARIANT
  TwoDigitsPerByte

\* Containers with up to three ports, lists of tags of up to six symbols.
SPECIFICATION Spec
CONSTANTS
  Symbols <- MCSymbols
  Inputs <- MCInputs
  MaxTagLength = 6
INVARIANTS MetadataMeaning TagsMeaning UniqueIDs PortsKnown AddressKnown
CHECK_DEADLOCK FALSE

CONSTANTS
  MaxObj = 11
  ProtocolFiles <- MCProtocolFiles
  ClassFiles <- MCClassFiles
  ExtensionFiles <- MCExtensionFiles
  Probes <- MCProbes
  MaxLost = 1
SPECIFICATION Spec
INVARIANTS CountsAreExact ProtocolsAreKept
PROPERTIES ExtensionsAdd
CHECK_DEADLOCK FALSE

SPECIFICATION Spec
CONSTANTS
  p1 = p1
  p2 = p2
  p6 = p6
  Peers <- MCPeers
  None = None
  IPv6 <- MCIPv6
  NeedsPermission = TRUE
  MaxBindings = 2
  MaxData = 2
CONSTRAINT OnePacketToIPv6
SYMMETRY Symmetry
INVARIANTS Consistent BindingsServed PermissionsServed
CHECK_DEADLOCK FALSE

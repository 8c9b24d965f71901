\* The sender field of a tag reaches its sign.
CONSTANTS
  Size = 2000
  NServices = 9
  Sender = {0, 1999}
  Type = {6, 8}
  NodeId = {1, 8191, 8192, 16383}
SPECIFICATION Spec
INVARIANT TagUsable
\* The packet has arrived.
CHECK_DEADLOCK FALSE

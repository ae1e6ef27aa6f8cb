CONSTANTS
  root = root
  home = home
  a = a
  b = b
  Parts <- MCParts
  Configs <- EvenConfigs
  None = None
  Unreadable = Unreadable
  HOME <- MCHOME
  MaxDay = 3
SPECIFICATION Spec
INVARIANT TypeOK
INVARIANT LineBelongs
INVARIANT HandlesClosed

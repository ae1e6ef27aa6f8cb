CONSTANTS
  root = root
  home = home
  a = a
  b = b
  Parts <- MCParts
  Configs <- UnevenConfigs
  None = None
  Unreadable = Unreadable
  HOME <- MCHOME
  MaxDay = 2
SPECIFICATION Spec
INVARIANT LineBelongs

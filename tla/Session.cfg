SPECIFICATION SessionSpec
CONSTANTS
  Events <- MCEvents
  Names <- MCNames
  Lists <- MCLists
  QUERY_MAX = 2
  Printable <- MCPrintable
  PLUGINS = 2
  MaxPending = 2
  PAGE = 2
  ADDRESSES = 6
  MAX_VADDR = 6
  MAX_SPAN = 6
  FSIZE = 4
  PHNUM = 3
  Phdrs <- MCPhdrs
  Tables <- MCTables
  Typing <- MCTyping
INVARIANTS
  SessionSound
  ImageSound
PROPERTY HandlesEvents
VIEW View
CHECK_DEADLOCK FALSE

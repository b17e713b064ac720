SPECIFICATION Spec
CONSTANTS
  shipped = shipped
  blur = blur
  edge = edge
  Entries <- MCEntries
  Sourceless <- MCSourceless
  Loadable <- MCLoadable
  Cli = 1
  MAX_PLUGINS = 3
  Params <- MCParams
INVARIANTS
  ChainSound
SYMMETRY Alike
VIEW Seen

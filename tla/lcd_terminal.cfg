SPECIFICATION Spec
CONSTANTS
  Letters = {a}
  TERMINAL_BUFFER_HEIGHT = 3
  TERMINAL_BUFFER_WIDTH = 3
  NUL = NUL
  NL = NL
  Blank = Blank
INVARIANTS TypeOK NeverUnwritten
PROPERTIES ImplementsLog SettlesUpToDate

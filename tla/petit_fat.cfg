SPECIFICATION Spec
CONSTANTS
  SectorSize = 2
  DirPerSect = 2
  Nibble = 2
  n_fatent = 5
  n_rootdir = 4
  Csizes = {1, 2}
  Links = {0, 2, 3, 4, 7}
  MaxIndex = 6
  MaxSize = 5
  MaxDepth = 2
INVARIANTS
  TypeOK
  SearchesInOrder
PROPERTIES
  ReadsTheFile
  OkIsExact
  Returns

SPECIFICATION Spec
CONSTANTS
  Byte = 4
  Top = 3
  MaxSP = 5
  InitialSP = 3
  BandPart = 4
  MinBand = 1
  Panic = 13
  FullScale = 3
  AdcSteps = 4
  Raws = {0, 5, 14}
INVARIANTS
  TypeOK
  ChannelFaithful
  PanicHolds
  RegistersAgree
PROPERTIES
  OverCurrentEndsDark

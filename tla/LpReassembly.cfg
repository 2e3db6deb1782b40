CONSTANTS
  Counts = {1, 2, 3, 4}
  MaxFragmentNum = 3
  MaxPackets = 2
  MaxId = 1
  MaxBoot = 1
  ReassembleTimeout = 1
SPECIFICATION Spec
INVARIANT TypeOK
INVARIANT UpIsOnePacket
INVARIANT PartialsAreIncomplete
INVARIANT WholeIsDelivered

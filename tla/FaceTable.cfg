SPECIFICATION Spec
CONSTANTS
  Macs = {"m"}
  Addrs = {"u"}
  EtherWorkers = {r1, r2}
  UdpWorkers = {1}
  Callers = {1}
  FaceIds = {f1, f2, f3}
  MaxBusy = 2
  MaxStreams = 1
  MaxListeners = 2
  SizeModulus = 8
INVARIANT LiveFacesAreListed
INVARIANT SizeIsNearlyExact
INVARIANT OnePerPeer
SYMMETRY Symmetry
CHECK_DEADLOCK FALSE

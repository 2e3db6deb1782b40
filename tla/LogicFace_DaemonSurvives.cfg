CONSTANTS
  LFSendQueSize = 1
  LFRecvQueSize = 1
  PacketQueueSize = 1
  HeartbeatLimit = 1
SPECIFICATION Spec
CHECK_DEADLOCK FALSE
INVARIANT DaemonSurvives

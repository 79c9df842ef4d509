SPECIFICATION SensorSpec
CONSTANTS
  StreamTypes = {"ROTATION_VECTOR", "LIGHT", "POSE_6DOF", "UNKNOWN"}
  QueueSize = 2
  MAX_RECEIVE_BUFFER_EVENT_COUNT = 3
  MaxBatch = 3
INVARIANTS StreamIntact InjectionIntact
CHECK_DEADLOCK FALSE

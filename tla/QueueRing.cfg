SPECIFICATION FairRingSpec
CONSTANTS
  Keys = {k1, k2, k3, k4}
  Records = {v1, v2}
  Capacity = 3
PROPERTIES
  RingIsLatestQueue
  QuietIsTaken

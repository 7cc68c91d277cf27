\* A node of the five-node cluster of docker-compose.yml.
SPECIFICATION Spec
CONSTANT Peers = {p1, p2, p3, p4}
INVARIANTS
  ElectionTimerRuns
  CandidateWatchesElection
PROPERTIES
  CandidateRetries
  LeaderBeats
  StopEndsRun

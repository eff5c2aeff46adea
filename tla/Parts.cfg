\* The instances are given in Parts.tla.  Cases, requests and files come to
\* rest when their bounds are used up.
CONSTANTS
  Interval = 3
  Lease = 20
  MaxCall = 3
  MaxDelay = 2
  MaxFailures = 2
  Horizon = 34
  Candidate = {"a", "b"}
  Typed = {"typed"}
  Frame = {"best"}
  MaxJobs = 2
  Type = {"s1", "s2"}
  Plate = {"plate", "long"}
  LongPlate = {"long"}
  Moment = {"time", "old"}
  OldTime = {"old"}
  MaxLog = 2
  MaxRev = 2
  K = 4
  Case <- Cases
  Proposal <- Proposals
  Padding = 6
  Text <- Texts
  FullPlate <- Plates
  Question = 0
  Score = {1, 2}
  MinScore = 2
  Unit = 2
  Gap = {1, 100}
  Error <- Errors
  MaxFrames = 6
  MaxPoor = 1
  MaxSamples = 3
  Poll = {1, 2}
  MaxChanges = 2
  MaxCommands = 1
  Call = {"one", "other"}
  Version = {1, 2}
  MaxData = 1
  MaxRuns = 3
  Worker = {"new", "old"}
  Source = {"front", "next"}
  Wanted <- Videos
  Format <- Formats
  Chunks = 2
  MaxFileChanges = 2
  MaxVideoCalls = 2
SPECIFICATION Spec
INVARIANTS
  TypeOK
  ReadsBounded
  HeartbeatHolds
  VideoFollowsCase
  EvidenceSound
  SpansSound
  ReadoutSound
  RegisterSound
  MediaSound
  BackupSound
  ReleaseRecoverable
  ScreenFollows
CHECK_DEADLOCK FALSE

\* Two jobs, up to three executions each.  Two uploads and one run of a tool beside
\* one cleaner; two attempts of a provider, finalised by the Worker or a sweep; two
\* starts of the measurement, with two kills or failures, on a host whose Worker
\* did not run before.  Requests come to rest when their bounds are used up.
CONSTANTS
  Job = {j1, j2}
  RetryMax = 2
  Upload = {u1, u2}
  Tool = {tool}
  Cleaner = {cleaner}
  NoFile = NoFile
  Retries = 1
  Pass = {"worker", "sweep"}
  MaxRuns = 2
  MaxTroubles = 2
  Before = {{"mysql", "api"}}
SPECIFICATION DurableSpec
INVARIANTS
  LifecycleTypeOK
  AttemptChain
  CancelSticks
  FilesKept
  BooksAgree
  ProbeSound
PROPERTIES
  LeftoversSettled
CHECK_DEADLOCK FALSE

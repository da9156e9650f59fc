SPECIFICATION MCSpec
CONSTANTS
  n1 = n1
  w1 = w1
  w2 = w2
  w3 = w3
  x = x
  y = y
  A = A
  B = B
  i1 = i1
  i2 = i2
  q1 = q1
  q2 = q2
  Jobs <- MCJobs
  LaneOf <- MCLaneOf
  Entities = {"a"}
  ReplayKeys = {k1, k2}
  Capacity <- MCCapacity
  Concurrency <- MCConcurrency
  Executors <- MCExecutors
  Serves <- MCServes
  LastAttempt = 1
  Window = 1
  MaxJitter = 1
  MaxDelay = 2
  MaxTime = 1
  MaxLetters = 1
  MaxVersion = 2
  Variants = {"v1", "v2"}
  Artifacts = {"f1", "f2"}
  ArtifactOf <- MCArtifactOf
  Texts = {"old", "new"}
  NoText = "none"
  Actors = {"editor", "reviewer", "service"}
  RolesOf <- MCRoles
  RiskClasses = {"money"}
  Calls = {"c1", "c2"}
  NoOne = "none"
  MaxRevision = 7
  MaxContent = 2
  MaxSource = 1
  Writers = {p1, p2}
  Nobody = nobody
  MaxPublishVersion = 2
  MaxPointerRevision = 2
  Manifests = {A, B}
  PostsOf <- MCPosts
  MediaOf <- MCMedia
  NoPrompt = "none"
  Importers = {i1, i2}
  GivenTo <- MCGivenTo
  MaxRunRevision <- MCMaxRunRevision
  Requests = {q1, q2}
  Contents <- MCContents
  MaxAttempts = 2
  MaxCheckpoint = 2
  Candidates = {e1}
  Reviewers = {"ann", "bob"}
  Machine = "machine"
  NoReviewer = "none"
  EvidenceSources = {s1}
  MaxCandidate <- MCMaxCandidate
  MaxMaterial = 1
INVARIANTS
  TypeOK
  NeverOverbooked
  ReplayedOnce
  BuriedAsRevoked
  ApprovedWasReviewed
  PointerLinear
  ImportedIsComplete
  AnsweredAsPublished
PROPERTIES
  OutdatedTogether
  ReviewsStand
  EmergencyNotStarved
CHECK_DEADLOCK FALSE

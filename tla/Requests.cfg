SPECIFICATION RequestsSpec
CONSTANTS
  Users = {"u"}
  Root = "root"
  Nobody = "anon"
  Buckets = {"b", "c"}
  Keys = {"k"}
  Reqs = {1}
  Policies <- MCPolicies
  Blocks <- MCBlocks
  Acls = {"", "public-read"}
  Ownership = {"ObjectWriter", "BucketOwnerEnforced"}
  IdentityPolicies <- MCNoPolicies
  SessionPolicies <- MCNoPolicies
  MaxClock = 5
  ConfReqs = {r1, r2}
  ConfDocs <- MCDocs
  ConfAcls = {"", "public-read-write"}
  ConfBlocks <- MCConfBlocks
  NamedIds = {1, 2}
  NamedLimit = 1
  MaxConf = 3
  MaxCreated = 2
  Addresses = {1, 2}
  ListKeys <- MCListKeys
  Prefixes <- MCPrefixes
  PageSizes = {1, 2}
  ListKinds = {"objects", "versions", "uploads"}
  Collapsed = {"objects", "versions"}
  Purges = {"objects", "versions"}
  MaxChanges = 1
  MaxPages = 5
  Chars = {"a", "b", "*"}
  MaxPattern = 4
  MaxText = 4
  Sources = {"files", "self-signed"}
  MaxIssues = 4
  MaxWrites = 5
  MaxTlsCrashes = 1
  Layouts <- MCLayouts
  ChunkSize = 2
  ChunkOverhead = 1
  BufSize = 2
  MaxOffset = 5
  MaxStopped = 1
SYMMETRY MCConfSymmetry
CHECK_DEADLOCK FALSE
INVARIANTS
  ActedAsDecided
  CopiedAsDecided
  RootNotLockedOut
  ClosedUnlessPublic
  ListedOnce
  MatchExact
  PollSeesChange
  ReadExact
PROPERTIES
  OwnFieldsOnly
  ConfiguredAsDecided

CONSTANTS
  alice = alice
  bob = bob
  p1 = p1
  p2 = p2
  r1 = r1
  r2 = r2
  c1 = c1
  c2 = c2
  c3 = c3
  d1 = d1
  d2 = d2
  d3 = d3
  Users <- MCUsers
  Repos <- MCRepos
  Pulls <- MCPulls
  RepoOf <- MCRepoOf
  Comments <- MCComments
  Author <- MCAuthor
  PullOf <- MCPullOf
  Deliveries <- MCDeliveries
  CommentOf <- MCCommentOf
  h1 = h1
  h2 = h2
  Requests <- MCRequests
  UserPerHour = 1
  RepoPerHour = 1
  MaxActive = 1
  Hour = 1
  Retention = 1
  MaxTime = 3
SPECIFICATION Spec
INVARIANTS OneReviewPerTrigger HourlyQuota QueueBounded
PROPERTIES ReplaysAreDropped
SYMMETRY Handlers
CHECK_DEADLOCK FALSE

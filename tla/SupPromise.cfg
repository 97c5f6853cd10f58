SPECIFICATION Spec
CONSTANTS
  N = 3
  Policy <- EachPolicy
  MaxRestarts <- UpToSeven
  Calls = {"stop", "wait", "reset"}
INVARIANT BackoffFollowsCount
PROPERTIES KeepsPromise AlwaysComesBack

CONSTANTS
  Files <- MCFiles
  Launches <- MCLaunches
  Callers <- MCCallers
  Requests <- MCRequests
  HashValues = {1, 2, 3}

SPECIFICATION PipelineSpec

INVARIANT ServedUnderPolicy

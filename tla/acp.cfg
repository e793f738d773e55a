SPECIFICATION ServingFairSpec
CONSTANTS
  Conns = {a, b}
  None = None
  MaxRequests = 3
  MaxEnds = 1
  Prompts = {1, 2}
  Forks = {1, 2}
  Nobody = 0
  MaxDrops = 1
CHECK_DEADLOCK FALSE
INVARIANTS OneServes DeletesAlone PromptsTakeTurns
PROPERTIES ClaimsEnd PromptsAreAnswered

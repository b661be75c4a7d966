SPECIFICATION Spec
CONSTANTS
  p1 = p1
  p2 = p2
  n1 = n1
  n2 = n2
  p3 = p3
  c1 = c1
  c2 = c2
  Places = {p1, p2, p3}
  Answers <- MCAnswers
  None = None
  Archives = {a1}
  Older = {a0}
  Configs = {c1, c2}
  First <- MCFirst
  MaxTasks = 3
  MaxRetries = 2
  MaxCrashes = 1
SYMMETRY Symmetry
INVARIANTS ToldTruly ShownAreSelected
PROPERTIES GoesToSelected UsesSaved
CHECK_DEADLOCK FALSE

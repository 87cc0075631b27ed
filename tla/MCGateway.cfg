SPECIFICATION FairSpec
CONSTANTS
  p1 = p1  v1 = v1
  Containers = {c1}
  Sessions = {s1, s2}
  Payments = {p1}
  Views = {v1}
  Flaws <- MCFlaws
  RotatedLate = {}
  Lifetimes = {3, 6}
  Margin = 4
  FetchTimeout = 1
  Transit = 1
  InvokeTimeout = 2
  MaxFaults = 2
  None = None
INVARIANTS TokensSound RefusedMeansUncharged
PROPERTIES AnswerComes

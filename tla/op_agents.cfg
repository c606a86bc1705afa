CONSTANTS
  a1 = a1
  a2 = a2
  Agent = {a1, a2}
  Specs = {"plain", "tooled"}
  UsesTool = {"tooled"}
  Foreign = {a2}
  Budget = 3
  underscore = underscore
  dot = dot
  dash = dash
  x = x
  nine = nine
  Letter = {x}
  Digit = {nine}
  OtherChar = {dash, dot}
  Underscore = underscore
  Dot = dot
  DefaultNamespace = "default"
  DefaultPackage = "agent"
  MaxName = 4
SPECIFICATION FairSpec
INVARIANTS IInv QuietMeansDeployed DeployedTopicStored
PROPERTIES EventuallyDeployed OperatorRespectsAgents
CHECK_DEADLOCK FALSE

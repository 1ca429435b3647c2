CONSTANTS
    Repos = {"ours/api", "theirs/api", "ours/web"}
    Unknown = "unknown"
    Dir <- LastPart
    Elsewhere = "elsewhere"
    MaxSecondary = 2
    MaxContext = 1
SPECIFICATION Spec
INVARIANTS PlanIsSound AgentFindsItsRepos DeviationsAreSeen

CONSTANTS
    Repos = {"api", "web"}
    LocalSource = {"web"}
    Expected = "issue"
    OtherBranches = {"main"}
SPECIFICATION Spec
INVARIANTS PushesStayOnIssueBranch
PROPERTIES WorkIsKept SetupRecovers

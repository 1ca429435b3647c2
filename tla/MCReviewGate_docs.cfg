CONSTANTS
    a = a
    b = b
    c = c
    d = d
    PRs = {a, b, c, d}
    Attached = {a}
    InWorkpad = {c}
    OnBranch = {{a}, {d}}
    Deps <- Names
    Cap = 4
    SourcesMayFail = TRUE
SPECIFICATION Spec
PROPERTIES DoneOnlyAfterMerge

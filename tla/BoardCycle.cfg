SPECIFICATION Spec
CONSTANTS
    Session = {s1, s2}
    Task = {t1, t2}
    Approval = {}
    Worker = {w1}
    Lead = Lead
    User = User
    Op = {"patch"}
    Field = {"deps"}
    MaxFields = 1
    RuleSets = {{}}
    MaxRequests = 3
    MaxCrashes = 0
    NoOne = NoOne
    Free = Free
    Absent = Absent
SYMMETRY Symmetry
CHECK_DEADLOCK FALSE
INVARIANT Acyclic

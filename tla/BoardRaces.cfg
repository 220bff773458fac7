SPECIFICATION Spec
CONSTANTS
    Session = {s1, s2}
    Task = {t1, t2}
    Approval = {a1, a2}
    Worker = {}
    Lead = Lead
    User = User
    Op = {"patch", "delete", "ask", "decide"}
    Field = {"status"}
    MaxFields = 1
    RuleSets = {{"pending"}}
    MaxRequests = 4
    MaxCrashes = 1
    NoOne = NoOne
    Free = Free
    Absent = Absent
SYMMETRY Symmetry
CHECK_DEADLOCK FALSE
INVARIANT TypeOK
INVARIANT OnePending
PROPERTY PendingBlocks

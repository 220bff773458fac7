SPECIFICATION Spec
CONSTANTS
    Session = {s1}
    Task = {t1, t2}
    Approval = {a1}
    Worker = {w1, w2}
    Lead = Lead
    User = User
    Op = {"create", "patch", "ask", "decide"}
    Field = {"status", "who", "deps"}
    MaxFields = 2
    RuleSets = {{}, {"approval", "review"}, {"leadonly"}}
    MaxRequests = 5
    MaxCrashes = 0
    NoOne = NoOne
    Free = Free
    Absent = Absent
SYMMETRY Symmetry
CHECK_DEADLOCK FALSE
PROPERTY DoneEarned
PROPERTY ReworkReturns
INVARIANT BlockedTasksWait

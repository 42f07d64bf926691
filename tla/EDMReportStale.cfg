SPECIFICATION Spec
CONSTANTS
    m1 = m1  e1 = e1  e2 = e2  c1 = c1
    Absent = Absent  Expired = Expired
    Messages = {m1}
    Errors = {e1}
    MessageOf <- OneMessage
    Queueless = {}
    Calls = {c1}
    Retries = 0
INVARIANTS ReportedHasNoError

CHECK_DEADLOCK FALSE

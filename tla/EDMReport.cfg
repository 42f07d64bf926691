SPECIFICATION FairSpec
CONSTANTS
    m1 = m1  e1 = e1  e2 = e2  c1 = c1
    Absent = Absent  Expired = Expired
    Messages = {m1}
    Errors = {e1, e2}
    MessageOf <- OneMessage
    Queueless = {e2}
    Calls = {c1}
    Retries = 1
INVARIANTS TypeOK AnnouncedHasRecord ReturnMeansAnnounced SettledIsVisible
PROPERTIES StaysQuiet ImplementsOutbox ReportingSettles
CHECK_DEADLOCK FALSE

SPECIFICATION MakeEvidenceSpec
CONSTANTS
    m1 = m1  e1 = e1  e2 = e2  h1 = h1  p1 = p1
    Absent = Absent  Expired = Expired  None = None  Corrupt = Corrupt
    Messages = {m1}
    Errors = {e1}
    MessageOf <- OneMessage
    Queueless = {}
    Calls = {}
    Retries = 0
    Handlers = {h1}
    HandlerMessage <- OneConversation
    Requests <- TwoRequests
    People = {p1}
    IfPreview = FALSE
    PdfDefaults = FALSE
    MaxDocs = 1
    Ordered = FALSE
    MaxCalls = 4
PROPERTIES AnswersImplementOutbox
CHECK_DEADLOCK FALSE

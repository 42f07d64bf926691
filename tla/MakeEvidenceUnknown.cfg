SPECIFICATION MakeEvidenceSpec
CONSTANTS
    m1 = m1  e1 = e1  e2 = e2  h1 = h1  p1 = p1
    Absent = Absent  Expired = Expired  None = None  Corrupt = Corrupt
    Messages = {m1}
    Errors = {e1, e2}
    MessageOf <- OneMessage
    Queueless = {}
    Calls = {}
    Retries = 0
    Handlers = {h1}
    HandlerMessage <- OneConversation
    Requests <- JustUnknown
    People = {p1}
    IfPreview = FALSE
    PdfDefaults = TRUE
    MaxDocs = 1
    Ordered = TRUE
    MaxCalls = 3
INVARIANTS UnknownFormatRejected
CHECK_DEADLOCK FALSE

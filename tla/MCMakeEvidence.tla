--------------------------- MODULE MCMakeEvidence ---------------------------
(* Instances of MakeEvidence for TLC. *)
EXTENDS MakeEvidence

CONSTANTS m1, e1, e2, h1, p1

OneMessage == [e \in Errors |-> m1]
OneConversation == [h \in Handlers |-> m1]

\* Formats and preview flags are paired, so that a mixture of two requests
\* shows.
PdfPreview == [format |-> "pdf",   preview |-> TRUE]
XmlDirect  == [format |-> "xml",   preview |-> FALSE]
Untyped    == [format |-> "none",  preview |-> FALSE]
Unknown    == [format |-> "other", preview |-> FALSE]

AllRequests   == {PdfPreview, XmlDirect, Untyped, Unknown}
TwoRequests   == {PdfPreview, XmlDirect}
JustXml       == {XmlDirect}
JustUnknown   == {Unknown}
=============================================================================

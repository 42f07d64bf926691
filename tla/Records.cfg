SPECIFICATION Spec
CONSTANTS
    id1 = id1  id2 = id2  badId = badId  number = number  d1 = d1  d2 = d2
    badDate = badDate  n1 = n1  n2 = n2  l1 = l1  g2 = g2  low = low
    other = other  c1 = c1  c2 = c2  a1 = a1  h1 = h1
    None = None  Torn = Torn  High = High  Eidas = Eidas
    Identifiers = {id1, id2}
    Texts = {badId}
    Numbers = {number}
    Dates = {d1, d2}
    Schemes = {Eidas, other}
    Hrefs = {h1}
    Nodes = {"MainEvidence", "Annex"}
    Inputs <- MCInputs
    Elements <- MCElements
    MaxReads = 3
INVARIANTS TypeOK OnePerson SavedComesBack EvidenceKept ReadersAgree HiddenStaysHidden
CHECK_DEADLOCK FALSE

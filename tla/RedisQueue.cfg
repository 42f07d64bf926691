SPECIFICATION FairSpec
CONSTANTS
    m1 = m1  m2 = m2  c1 = c1  c2 = c2
    Messages = {m1, m2}
    Consumers = {c1, c2}
    Retries = 1
INVARIANTS TypeOK InOnePlace
PROPERTIES ImplementsDelivery EveryEntryTaken

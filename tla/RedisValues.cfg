SPECIFICATION Spec
CONSTANTS
    plain = plain  app = app  app2 = app2  d1 = d1
    None = None  Null = Null  Absent = Absent  Garbled = Garbled  Binary = Binary
    Apps = {plain, app, app2}
    GivenPrefix <- ThreePrefixes
    RedisPrefix <- NoPrefix
    Names <- MCNames
    Documents = {d1}
INVARIANTS TypeOK NothingMadeUp
PROPERTIES ImplementsNamespaces

---------------------------- MODULE RecordsProofs ----------------------------
(***************************************************************************)
(* Proofs about Records, for any inputs of the kinds that its assumptions  *)
(* describe.  The lemmas say what each conversion of a person and of       *)
(* evidence keeps; the invariant says of every place that its data is a    *)
(* rendering of what its origin tells.                                     *)
(***************************************************************************)
EXTENDS Records, ListProofs, TLAPS

-----------------------------------------------------------------------------
(* Persons.  Of the person o, p has every field but the schemeID and the   *)
(* LevelOfAssurance.                                                       *)
Tells(p, o) ==
    /\ IdentifierValue(p) = IdentifierValue(o)
    /\ \A f \in Fields \ {"identifier", "LevelOfAssurance"} : p[f] = o[f]

LEMMA Names ==
    /\ Fields = {"LevelOfAssurance", "identifier", "FamilyName",
                 "FamilyNameNonLatin", "DateOfBirth", "Gender"}
    /\ \A f, g \in Fields : Alias[f] = Alias[g] => f = g
    /\ \A f \in Fields : Alias[f] \notin Fields
    /\ Alias["identifier"] = "eidas_identifier"
    /\ Range(Alias) = {Alias[f] : f \in Fields}
BY DEF Fields, Alias, Range

LEMMA Dating ==
    /\ \A d \in {None} \cup Dates :
          IsDate(Iso(d)) /\ ParseDate(Iso(d)) = d /\ Plain(Iso(d))
    /\ \A t : IsDate(t) => ParseDate(t) \in {None} \cup Dates
    /\ \A x : Plain(x) => Iso(x) = x
<1> USE PersonAssumption DEF Iso, IsoTexts, ParseDate, IsDate, Plain
<1>1. ASSUME NEW d \in Dates PROVE IsDate(Iso(d)) /\ ParseDate(Iso(d)) = d /\ Plain(Iso(d))
  <2>1. Iso(d) = <<"iso", d>> /\ Iso(d) \in IsoTexts
    OBVIOUS
  <2> QED
    BY <2>1
<1>2. IsDate(Iso(None)) /\ ParseDate(Iso(None)) = None /\ Plain(Iso(None))
  OBVIOUS
<1>3. ASSUME NEW t, IsDate(t) PROVE ParseDate(t) \in {None} \cup Dates
  <2>1. CASE t \in IsoTexts
    <3>1. PICK d \in Dates : t = <<"iso", d>>
      BY <2>1
    <3> QED
      BY <2>1, <3>1
  <2> QED
    BY <1>3, <2>1
<1>4. \A x : Plain(x) => Iso(x) = x
  OBVIOUS
<1> HIDE DEF Iso, IsoTexts, ParseDate, IsDate, Plain
<1> QED
  BY <1>1, <1>2, <1>3, <1>4

LEMMA IdentifierIs ==
    ASSUME NEW v, NEW s \in {None, Eidas} \cup Schemes, Ok(Identifier(v, s))
    PROVE  /\ Identifier(v, s).value \in IdentifierObjects
           /\ Identifier(v, s).value # None
           /\ Identifier(v, s).value.value = v
           /\ v \in {None} \cup Identifiers
<1> USE PersonAssumption
<1>1. v \in {None} \cup Identifiers
  BY DEF Identifier, Ok, Returned, Raised
<1>2. v \notin Texts
  BY <1>1
<1>3. Identifier(v, s) = Returned([value |-> v, schemeID |-> IF s = None THEN Eidas ELSE s])
  BY <1>1, <1>2 DEF Identifier
<1> QED
  BY <1>1, <1>3 DEF IdentifierObjects, Returned

(* What set_from_dict makes of the identifier of a dictionary.             *)
LEMMA IdentifierRead ==
    ASSUME NEW d, PersonData(d), Ok(IdentifierIn(d))
    PROVE  LET i == IdentifierIn(d).value
           IN  /\ i \in {None} \cup IdentifierObjects
               /\ \A p : DataOf(d, p) =>
                    (IF i = None THEN None ELSE i.value) = IdentifierValue(p)
<1> DEFINE i == Get(d, "identifier", None)
           l == Get(d, "eidas_identifier", None)
           known == {None} \cup Identifiers \cup Texts \cup Numbers
<1> USE PersonAssumption
<1>1. "identifier" \in Fields /\ Alias["identifier"] = "eidas_identifier"
  BY Names
<1>2. CASE "identifier" \in DOMAIN d
  <2>1. "eidas_identifier" \notin DOMAIN d /\ i = d["identifier"] /\ l = None
    <3>1. "eidas_identifier" \notin Fields /\ "identifier" \notin Range(Alias)
      BY Names
    <3> QED
      BY <1>2, <3>1 DEF PersonData, Get
  <2>2. Under(d, "identifier") = {i}
    BY <1>1, <1>2, <2>1 DEF Under
  <2>3. \A p : DataOf(d, p) =>
            IdentifierText(i) \in {IdentifierValue(p)} \cup Texts \cup Numbers
    BY <2>2 DEF DataOf
  <2>4. CASE i \in Identifiers \cup Texts
    <3>1. IdentifierIn(d) = Identifier(i, Eidas)
      BY <2>4 DEF IdentifierIn
    <3>2. IdentifierText(i) = i
      BY <2>4 DEF IdentifierText
    <3>3. i \in Identifiers
      BY <2>4, <3>1, IdentifierIs
    <3> QED
      BY <2>3, <3>1, <3>2, <3>3, IdentifierIs
  <2>5. CASE i \in Numbers \cup {None}
    <3>1. IdentifierIn(d) = Returned(None)
      BY <2>1, <2>5 DEF IdentifierIn
    <3>2. ASSUME NEW p, DataOf(d, p) PROVE IdentifierValue(p) = None
      <4>1. CASE i \in Numbers
        BY <3>2, <4>1 DEF DataOf
      <4>2. CASE i = None
        <5>1. IdentifierText(i) = None
          BY <4>2 DEF IdentifierText
        <5> QED
          BY <2>3, <3>2, <5>1
      <4> QED
        BY <2>5, <4>1, <4>2
    <3> QED
      BY <3>1, <3>2 DEF Returned
  <2>6. CASE i \notin known
    <3>1. IdentifierIn(d) = Identifier(Get(i, "value", None), Get(i, "schemeID", Eidas))
      BY <2>6 DEF IdentifierIn
    <3>2. IdentifierText(i) = Get(i, "value", None)
      BY <2>6 DEF IdentifierText
    <3>3. Get(i, "schemeID", Eidas) \in {None, Eidas} \cup Schemes
      BY <1>2, <2>1, <2>6 DEF PersonData
    <3> QED
      BY <2>3, <3>1, <3>2, <3>3, IdentifierIs
  <2> QED
    BY <1>2, <2>1, <2>4, <2>5, <2>6 DEF PersonData
<1>3. CASE "identifier" \notin DOMAIN d
  <2>1. i = None
    BY <1>3 DEF Get
  <2>2. Under(d, "identifier") = {l}
    BY <1>1, <1>3 DEF Under, Get
  <2>3. \A p : DataOf(d, p) =>
            IdentifierText(l) \in {IdentifierValue(p)} \cup Texts \cup Numbers
    BY <2>2 DEF DataOf
  <2>4. CASE l = None
    <3>1. IdentifierIn(d) = Returned(None)
      BY <2>1, <2>4 DEF IdentifierIn
    <3>2. IdentifierText(l) = None
      BY <2>4 DEF IdentifierText
    <3> QED
      BY <2>3, <3>1, <3>2 DEF Returned
  <2>5. CASE l # None
    <3>1. IdentifierIn(d) = Identifier(l, Eidas)
      BY <2>1, <2>5 DEF IdentifierIn
    <3>2. l \in {None} \cup Identifiers
      BY <3>1, IdentifierIs
    <3>3. IdentifierText(l) = l
      BY <3>2 DEF IdentifierText
    <3> QED
      BY <2>3, <3>1, <3>2, <3>3, IdentifierIs
  <2> QED
    BY <2>4, <2>5
<1> QED
  BY <1>2, <1>3

(* from_dict, of a dictionary of either generation.                        *)
LEMMA PersonRead ==
    ASSUME NEW d, PersonData(d), Ok(SetFromDict(d))
    PROVE  /\ PersonObject(SetFromDict(d).value)
           /\ \A p : PersonObject(p) /\ DataOf(d, p) => Tells(SetFromDict(d).value, p)
<1> DEFINE v == SetFromDict(d).value
           i == IdentifierIn(d).value
<1> USE PersonAssumption
<1>1. /\ Ok(IdentifierIn(d)) /\ IsDate(Lookup(d, "DateOfBirth"))
      /\ SetFromDict(d) = Returned(
            [f \in Fields |->
                CASE f = "identifier" -> i
                  [] f = "LevelOfAssurance" -> Assurance(Lookup(d, f))
                  [] f = "DateOfBirth" -> ParseDate(Lookup(d, f))
                  [] OTHER -> Lookup(d, f)])
  BY DEF SetFromDict, Ok, Raised
<1>2. /\ v = [f \in Fields |-> v[f]]
      /\ v["identifier"] = i
      /\ v["LevelOfAssurance"] = Assurance(Lookup(d, "LevelOfAssurance"))
      /\ v["DateOfBirth"] = ParseDate(Lookup(d, "DateOfBirth"))
      /\ \A f \in Fields \ {"identifier", "LevelOfAssurance", "DateOfBirth"} :
            v[f] = Lookup(d, f)
  BY <1>1, Names DEF Returned
<1> HIDE DEF v
<1>3. \A f \in Fields : Lookup(d, f) \in Under(d, f) /\ Plain(Lookup(d, f))
  BY DEF Lookup, Under, Get, PersonData, Plain
<1>4. PersonObject(v)
  <2>1. v.identifier \in {None} \cup IdentifierObjects
    BY <1>1, <1>2, IdentifierRead
  <2>2. v.DateOfBirth \in {None} \cup Dates
    BY <1>1, <1>2, Dating
  <2>3. Plain(v["LevelOfAssurance"])
    BY <1>2, <1>3, Names DEF Assurance, Plain
  <2>4. \A f \in Fields \ {"identifier", "DateOfBirth"} : Plain(v[f])
    BY <1>2, <1>3, <2>3
  <2> QED
    BY <1>2, <2>1, <2>2, <2>4 DEF PersonObject
<1>5. ASSUME NEW p, PersonObject(p), DataOf(d, p) PROVE Tells(v, p)
  <2>1. IdentifierValue(v) = IdentifierValue(p)
    <3>1. (IF i = None THEN None ELSE i.value) = IdentifierValue(p)
      BY <1>1, <1>5, IdentifierRead
    <3> QED
      BY <1>2, <3>1 DEF IdentifierValue
  <2>2. v["DateOfBirth"] = p["DateOfBirth"]
    <3>1. Lookup(d, "DateOfBirth") = Iso(p["DateOfBirth"])
      BY <1>1, <1>3, <1>5, Names DEF DataOf
    <3>2. p["DateOfBirth"] \in {None} \cup Dates
      BY <1>5 DEF PersonObject
    <3> QED
      BY <1>2, <3>1, <3>2, Dating
  <2>3. ASSUME NEW f \in Fields \ {"identifier", "LevelOfAssurance", "DateOfBirth"}
        PROVE  v[f] = p[f]
    <3>1. Lookup(d, f) = Iso(p[f])
      BY <1>3, <1>5, <2>3 DEF DataOf
    <3>2. Plain(p[f])
      BY <1>5 DEF PersonObject
    <3> QED
      BY <1>2, <3>1, <3>2, Dating
  <2> QED
    BY <2>1, <2>2, <2>3 DEF Tells
<1> QED
  BY <1>4, <1>5 DEF v

(* The dictionary of a person tells whatever the person tells.             *)
LEMMA PersonWritten ==
    ASSUME NEW p, PersonObject(p)
    PROVE  /\ PersonData(LegacyDict(p, Fields))
           /\ \A o : Tells(p, o) => DataOf(LegacyDict(p, Fields), o)
<1> DEFINE d == LegacyDict(p, Fields)
<1> USE PersonAssumption
<1>1. /\ DOMAIN d = {Alias[f] : f \in Fields}
      /\ \A f \in Fields : d[Alias[f]] =
            IF f = "identifier" THEN IdentifierValue(p) ELSE Iso(p[f])
  BY Names DEF LegacyDict
<1> HIDE DEF d
<1>2. IdentifierValue(p) \in {None} \cup Identifiers
  BY DEF PersonObject, IdentifierValue, IdentifierObjects
<1>3. \A f \in Fields : f # "identifier" => Plain(Iso(p[f]))
  <2>1. \A f \in Fields \ {"identifier", "DateOfBirth"} : Plain(Iso(p[f]))
    BY Dating DEF PersonObject
  <2>2. Plain(Iso(p["DateOfBirth"]))
    BY Dating DEF PersonObject
  <2> QED
    BY <2>1, <2>2
<1>4. Plain(IdentifierValue(p))
  BY <1>2 DEF Plain
<1>5. PersonData(d)
  <2>1. "identifier" \notin DOMAIN d /\ DOMAIN d \subseteq Range(Alias)
    BY <1>1, Names
  <2>2. \A k \in DOMAIN d : Plain(d[k])
    BY <1>1, <1>3, <1>4
  <2> QED
    BY <2>1, <2>2 DEF PersonData
<1>6. ASSUME NEW f \in Fields PROVE Under(d, f) = {d[Alias[f]]}
  <2>1. f \notin DOMAIN d /\ Alias[f] \in DOMAIN d
    BY <1>1, Names
  <2>2. {f, Alias[f]} \cap DOMAIN d = {Alias[f]}
    BY <2>1
  <2> QED
    BY <2>2 DEF Under
<1>7. ASSUME NEW o, Tells(p, o) PROVE DataOf(d, o)
  <2>1. \A x \in Under(d, "identifier") : IdentifierText(x) = IdentifierValue(o)
    <3>1. "identifier" \in Fields
      BY Names
    <3>2. Under(d, "identifier") = {IdentifierValue(p)}
      BY <1>1, <1>6, <3>1
    <3>3. IdentifierText(IdentifierValue(p)) = IdentifierValue(p)
      BY <1>2 DEF IdentifierText
    <3> QED
      BY <1>7, <3>2, <3>3 DEF Tells
  <2>2. \A f \in Fields \ {"identifier", "LevelOfAssurance"} :
            Under(d, f) = {Iso(o[f])}
    BY <1>1, <1>6, <1>7 DEF Tells
  <2>3. Get(d, "identifier", None) \notin Numbers
    <3>1. "identifier" \notin DOMAIN d
      BY <1>1, Names
    <3> QED
      BY <3>1 DEF Get
  <2> QED
    BY <2>1, <2>2, <2>3 DEF DataOf
<1> QED
  BY <1>5, <1>7 DEF d

(* The round trip through Redis loses the scheme of the identifier and     *)
(* that there is no LevelOfAssurance, and nothing else.                    *)
THEOREM RoundTrip ==
    ASSUME NEW p, PersonObject(p)
    PROVE  SetFromDict(LegacyDict(p, Fields)) = Returned(Restored(p))
<1> DEFINE d == LegacyDict(p, Fields)
<1> USE PersonAssumption
<1>1. /\ DOMAIN d = {Alias[f] : f \in Fields}
      /\ \A f \in Fields : d[Alias[f]] =
            IF f = "identifier" THEN IdentifierValue(p) ELSE Iso(p[f])
  BY Names DEF LegacyDict
<1> HIDE DEF d
<1>2. IdentifierValue(p) \in {None} \cup Identifiers
  BY DEF PersonObject, IdentifierValue, IdentifierObjects
<1>3. IdentifierIn(d) =
        Returned(IF IdentifierValue(p) = None THEN None
                 ELSE [value |-> IdentifierValue(p), schemeID |-> Eidas])
  <2>1. Get(d, "identifier", None) = None
        /\ Get(d, "eidas_identifier", None) = IdentifierValue(p)
    BY <1>1, Names DEF Get
  <2>2. IdentifierIn(d) = IF IdentifierValue(p) = None THEN Returned(None)
                          ELSE Identifier(IdentifierValue(p), Eidas)
    BY <2>1 DEF IdentifierIn
  <2>3. Identifier(IdentifierValue(p), Eidas) =
            Returned([value |-> IdentifierValue(p), schemeID |-> Eidas])
    BY <1>2 DEF Identifier
  <2> QED
    BY <2>2, <2>3
<1>4. \A f \in Fields \ {"identifier"} : Lookup(d, f) = Iso(p[f])
  <2>1. \A f \in Fields : f \notin DOMAIN d /\ Alias[f] \in DOMAIN d
    BY <1>1, Names
  <2> QED
    BY <1>1, <2>1 DEF Lookup, Get
<1>5. /\ IsDate(Lookup(d, "DateOfBirth"))
      /\ ParseDate(Lookup(d, "DateOfBirth")) = p["DateOfBirth"]
  BY <1>4, Names, Dating DEF PersonObject
<1>6. \A f \in Fields \ {"identifier", "DateOfBirth"} : Lookup(d, f) = p[f]
  BY <1>4, Dating DEF PersonObject
<1> DEFINE i == IdentifierIn(d).value
           v == [f \in Fields |->
                    CASE f = "identifier" -> i
                      [] f = "LevelOfAssurance" -> Assurance(Lookup(d, f))
                      [] f = "DateOfBirth" -> ParseDate(Lookup(d, f))
                      [] OTHER -> Lookup(d, f)]
<1>7. SetFromDict(d) = Returned(v)
  BY <1>3, <1>5 DEF SetFromDict, Ok, Returned
<1>8. i = IF IdentifierValue(p) = None THEN None
          ELSE [value |-> p.identifier.value, schemeID |-> Eidas]
  BY <1>3 DEF Returned, IdentifierValue
<1>9. DOMAIN p = Fields /\ DOMAIN Restored(p) = Fields
      /\ Restored(p) = [f \in Fields |-> Restored(p)[f]]
  BY DEF PersonObject, Restored
<1>10. ASSUME NEW f \in Fields PROVE v[f] = Restored(p)[f]
  <2>1. CASE f = "identifier"
    BY <1>8, <1>9, <2>1 DEF Restored
  <2>2. CASE f = "LevelOfAssurance"
    BY <1>6, <1>9, <2>2 DEF Restored
  <2>3. CASE f = "DateOfBirth"
    BY <1>5, <1>9, <2>3 DEF Restored
  <2>4. CASE f \notin {"identifier", "LevelOfAssurance", "DateOfBirth"}
    BY <1>6, <1>9, <2>4 DEF Restored
  <2> QED
    BY <2>1, <2>2, <2>3, <2>4
<1>11. v = Restored(p)
  <2>1. v = [f \in Fields |-> v[f]]
    OBVIOUS
  <2> HIDE DEF v
  <2> QED
    BY <1>9, <1>10, <2>1
<1> QED
  BY <1>7, <1>11 DEF d

LEMMA RestoredTells ==
    ASSUME NEW p, PersonObject(p)
    PROVE  PersonObject(Restored(p)) /\ \A o : Tells(p, o) => Tells(Restored(p), o)
<1>1. Ok(SetFromDict(LegacyDict(p, Fields)))
      /\ SetFromDict(LegacyDict(p, Fields)).value = Restored(p)
  BY RoundTrip DEF Ok, Returned
<1>2. PersonObject(Restored(p))
  BY <1>1, PersonRead, PersonWritten
<1>3. Tells(Restored(p), p)
  <2>1. Tells(p, p)
    BY DEF Tells
  <2> QED
    BY <1>1, <2>1, PersonRead, PersonWritten
<1> QED
  BY <1>2, <1>3 DEF Tells

(* The xml setter: it leaves a person in any case, and that of the element *)
(* if it does not raise, or if the element is of the person it replaces.   *)
LEMMA XmlRead ==
    ASSUME NEW p, NEW x, PersonObject(p), ElementData(x)
    PROVE  /\ PersonObject(SetXml(p, x).value)
           /\ \A o : /\ PersonObject(o) /\ ElementOf(x, o)
                     /\ Ok(SetXml(p, x)) \/ Tells(p, o)
                     => Tells(SetXml(p, x).value, o)
<1> DEFINE id == Identifier(Text(x, "identifier"), Attr(x, "identifier"))
           date == Text(x, "DateOfBirth")
           p1 == [p EXCEPT !.LevelOfAssurance = Text(x, "LevelOfAssurance")]
           p2 == [p1 EXCEPT !.identifier = id.value,
                            !.FamilyName = Text(x, "FamilyName"),
                            !.FamilyNameNonLatin = Attr(x, "FamilyName")]
           p3 == [f \in Fields |->
                     CASE f = "DateOfBirth" -> ParseDate(date)
                       [] f \in TextFields -> Text(x, f)
                       [] OTHER -> p2[f]]
           after == SetXml(p, x)
<1> USE PersonAssumption
<1>1. /\ ~Ok(id) => after = [raised |-> id.raised, value |-> p1]
      /\ Ok(id) /\ ~IsDate(date) => after = [raised |-> "ValueError", value |-> p2]
      /\ Ok(id) /\ IsDate(date) => after = Returned(p3)
  BY DEF SetXml
<1>2. \A t : Plain(Text(x, t))
  BY DEF ElementData, Text, Plain
<1>3. Plain(Attr(x, "FamilyName")) /\ Attr(x, "identifier") \in {None, Eidas} \cup Schemes
  BY DEF ElementData
<1>4. DOMAIN p = Fields
  BY DEF PersonObject
<1>5. /\ p1 = [f \in Fields |-> p1[f]]
      /\ p1["LevelOfAssurance"] = Text(x, "LevelOfAssurance")
      /\ \A f \in Fields \ {"LevelOfAssurance"} : p1[f] = p[f]
  BY <1>4, Names
<1> HIDE DEF p1
<1>6. /\ p2 = [f \in Fields |-> p2[f]]
      /\ p2["identifier"] = id.value
      /\ p2["FamilyName"] = Text(x, "FamilyName")
      /\ p2["FamilyNameNonLatin"] = Attr(x, "FamilyName")
      /\ p2["LevelOfAssurance"] = p1["LevelOfAssurance"]
      /\ p2["DateOfBirth"] = p1["DateOfBirth"] /\ p2["Gender"] = p1["Gender"]
  <2>1. DOMAIN p1 = Fields
    BY <1>5
  <2> QED
    BY <2>1, Names
<1> HIDE DEF p2
<1>7. /\ p3 = [f \in Fields |-> p3[f]]
      /\ p3["DateOfBirth"] = ParseDate(date)
      /\ p3["Gender"] = Text(x, "Gender")
      /\ \A f \in Fields \ {"DateOfBirth", "Gender"} : p3[f] = p2[f]
  BY Names DEF TextFields
<1> HIDE DEF p3
<1>8. PersonObject(p1)
  <2>1. \A f \in Fields \ {"identifier", "DateOfBirth"} : Plain(p1[f])
    BY <1>2, <1>5 DEF PersonObject
  <2> QED
    BY <1>5, <2>1, Names DEF PersonObject
<1>9. ASSUME Ok(id) PROVE id.value \in IdentifierObjects /\ id.value # None
                          /\ id.value.value = Text(x, "identifier")
                          /\ Text(x, "identifier") \in {None} \cup Identifiers
  BY <1>3, <1>9, IdentifierIs
<1>10. ASSUME Ok(id) PROVE PersonObject(p2)
  <2>1. \A f \in Fields \ {"identifier", "DateOfBirth"} : Plain(p2[f])
    BY <1>2, <1>3, <1>6, <1>8, Names DEF PersonObject
  <2>2. p2["DateOfBirth"] \in {None} \cup Dates
    BY <1>6, <1>8 DEF PersonObject
  <2> QED
    BY <1>6, <1>9, <1>10, <2>1, <2>2 DEF PersonObject
<1>11. ASSUME Ok(id), IsDate(date) PROVE PersonObject(p3)
  <2>1. \A f \in Fields \ {"identifier", "DateOfBirth"} : Plain(p3[f])
    BY <1>2, <1>7, <1>10, <1>11 DEF PersonObject
  <2>2. p3["DateOfBirth"] \in {None} \cup Dates
    BY <1>7, <1>11, Dating
  <2>3. p3["identifier"] \in {None} \cup IdentifierObjects
    BY <1>7, <1>10, <1>11, Names DEF PersonObject
  <2> QED
    BY <1>7, <2>1, <2>2, <2>3 DEF PersonObject
<1>12. PersonObject(after.value)
  BY <1>1, <1>8, <1>10, <1>11 DEF Returned
<1>13. ASSUME NEW o, PersonObject(o), ElementOf(x, o), Ok(after) \/ Tells(p, o)
       PROVE  Tells(after.value, o)
  <2>1. CASE ~Ok(id)
    <3>1. after.value = p1 /\ ~Ok(after)
      BY <1>1, <2>1 DEF Ok
    <3> QED
      BY <1>5, <1>13, <3>1, Names DEF Tells, IdentifierValue
  <2>2. Ok(id) => Text(x, "identifier") = IdentifierValue(o)
    BY <1>9, <1>13 DEF ElementOf
  <2>3. CASE Ok(id) /\ ~IsDate(date)
    <3>1. after.value = p2 /\ ~Ok(after)
      BY <1>1, <2>3 DEF Ok
    <3>2. IdentifierValue(p2) = IdentifierValue(o)
      BY <1>6, <1>9, <2>2, <2>3 DEF IdentifierValue
    <3>3. p2["FamilyName"] = o["FamilyName"]
          /\ p2["FamilyNameNonLatin"] = o["FamilyNameNonLatin"]
      BY <1>6, <1>13 DEF ElementOf
    <3>4. p2["DateOfBirth"] = o["DateOfBirth"] /\ p2["Gender"] = o["Gender"]
      BY <1>5, <1>6, <1>13, <3>1, Names DEF Tells
    <3> QED
      BY <3>1, <3>2, <3>3, <3>4, Names DEF Tells
  <2>4. CASE Ok(id) /\ IsDate(date)
    <3>1. after.value = p3
      BY <1>1, <2>4 DEF Returned
    <3>2. p3["identifier"] = id.value
      BY <1>6, <1>7, Names
    <3>3. IdentifierValue(p3) = IdentifierValue(o)
      BY <1>9, <2>2, <2>4, <3>2 DEF IdentifierValue
    <3>4. p3["FamilyName"] = o["FamilyName"]
          /\ p3["FamilyNameNonLatin"] = o["FamilyNameNonLatin"]
      BY <1>6, <1>7, <1>13, Names DEF ElementOf
    <3>5. p3["Gender"] = o["Gender"]
      BY <1>7, <1>13 DEF ElementOf, TextFields
    <3>6. p3["DateOfBirth"] = o["DateOfBirth"]
      <4>1. date = Iso(o["DateOfBirth"])
        BY <1>13, <2>4 DEF ElementOf
      <4>2. o["DateOfBirth"] \in {None} \cup Dates
        BY <1>13 DEF PersonObject
      <4> QED
        BY <1>7, <4>1, <4>2, Dating
    <3> QED
      BY <3>1, <3>3, <3>4, <3>5, <3>6, Names DEF Tells
  <2> QED
    BY <2>1, <2>3, <2>4
<1> QED
  BY <1>12, <1>13

(* get_element writes an element that tells whatever the person tells.     *)
LEMMA XmlWritten ==
    ASSUME NEW p, PersonObject(p)
    PROVE  /\ ElementData(GetElement(p, Fields))
           /\ \A o : Tells(p, o) => ElementOf(GetElement(p, Fields), o)
<1> DEFINE x == GetElement(p, Fields)
           has == IdentifierValue(p) # None
<1> USE PersonAssumption
<1>1. /\ \A t \in {"LevelOfAssurance", "DateOfBirth", "Gender"} :
            t \in DOMAIN x /\ x[t] = Child(Iso(p[t]), None)
      /\ "FamilyName" \in DOMAIN x
      /\ x["FamilyName"] = Child(p.FamilyName, p.FamilyNameNonLatin)
      /\ "identifier" \in DOMAIN x <=> has
      /\ has => x["identifier"] = Child(p.identifier.value, p.identifier.schemeID)
      /\ DOMAIN x \subseteq {"LevelOfAssurance", "identifier", "FamilyName",
                             "DateOfBirth", "Gender"}
  BY Names DEF GetElement, Nonlatin
<1> HIDE DEF x
<1>2. /\ Text(x, "FamilyName") = p.FamilyName
      /\ Attr(x, "FamilyName") = p.FamilyNameNonLatin
      /\ Text(x, "DateOfBirth") = Iso(p["DateOfBirth"])
      /\ Text(x, "Gender") = Iso(p["Gender"])
  BY <1>1 DEF Text, Attr, Child
<1>3. /\ Text(x, "identifier") = IdentifierValue(p)
      /\ Attr(x, "identifier") \in {None, Eidas} \cup Schemes
      /\ has => Plain(x["identifier"].text)
  <2>1. CASE ~has
    BY <1>1, <2>1 DEF Text, Attr
  <2>2. CASE has
    <3>1. p.identifier \in IdentifierObjects /\ IdentifierValue(p) = p.identifier.value
      BY <2>2 DEF IdentifierValue, PersonObject
    <3>2. x["identifier"].text = IdentifierValue(p)
          /\ x["identifier"].attr = p.identifier.schemeID
          /\ "identifier" \in DOMAIN x
      BY <1>1, <2>2, <3>1 DEF Child
    <3>3. IdentifierValue(p) \in Identifiers
          /\ p.identifier.schemeID \in {Eidas} \cup Schemes
      BY <2>2, <3>1 DEF IdentifierObjects
    <3> QED
      BY <3>2, <3>3 DEF Text, Attr, Plain
  <2> QED
    BY <2>1, <2>2
<1>4. Plain(p.FamilyName) /\ Plain(p.FamilyNameNonLatin) /\ Plain(p.Gender)
      /\ Plain(p.LevelOfAssurance) /\ p.DateOfBirth \in {None} \cup Dates
  BY Names DEF PersonObject
<1>5. ElementData(x)
  <2>1. \A t \in {"LevelOfAssurance", "DateOfBirth", "Gender"} : Plain(x[t].text)
    BY <1>1, <1>4, Dating DEF Child
  <2>2. Plain(x["FamilyName"].text)
    BY <1>1, <1>4 DEF Child
  <2> QED
    BY <1>1, <1>2, <1>3, <1>4, <2>1, <2>2 DEF ElementData
<1>6. ASSUME NEW o, Tells(p, o) PROVE ElementOf(x, o)
  BY <1>2, <1>3, <1>4, <1>6, Names, Dating DEF ElementOf, Tells, TextFields
<1> QED
  BY <1>5, <1>6 DEF x

(* The round trip through get_element and the xml setter loses nothing but *)
(* the scheme of an identifier without a value, whomever it replaces.      *)
THEOREM XmlRoundTrip ==
    ASSUME NEW p, PersonObject(p), NEW q, DOMAIN q = Fields
    PROVE  SetXml(q, GetElement(p, Fields)) =
              Returned([p EXCEPT !.identifier =
                            IF IdentifierValue(p) # None THEN @
                            ELSE [value |-> None, schemeID |-> Eidas]])
<1> DEFINE x == GetElement(p, Fields)
           has == IdentifierValue(p) # None
           i == IF has THEN p.identifier ELSE [value |-> None, schemeID |-> Eidas]
           id == Identifier(Text(x, "identifier"), Attr(x, "identifier"))
           r == [p EXCEPT !.identifier = i]
<1> USE PersonAssumption
<1>1. /\ \A t \in {"LevelOfAssurance", "DateOfBirth", "Gender"} :
            t \in DOMAIN x /\ x[t] = Child(Iso(p[t]), None)
      /\ "FamilyName" \in DOMAIN x
      /\ x["FamilyName"] = Child(p.FamilyName, p.FamilyNameNonLatin)
      /\ "identifier" \in DOMAIN x <=> has
      /\ has => x["identifier"] = Child(p.identifier.value, p.identifier.schemeID)
  BY Names DEF GetElement, Nonlatin
<1> HIDE DEF x
<1>2. /\ Text(x, "LevelOfAssurance") = p["LevelOfAssurance"]
      /\ Text(x, "FamilyName") = p["FamilyName"]
      /\ Attr(x, "FamilyName") = p["FamilyNameNonLatin"]
      /\ Text(x, "Gender") = p["Gender"]
      /\ Text(x, "DateOfBirth") = Iso(p["DateOfBirth"])
  <2>1. Iso(p["LevelOfAssurance"]) = p["LevelOfAssurance"] /\ Iso(p["Gender"]) = p["Gender"]
    BY Names, Dating DEF PersonObject
  <2> QED
    BY <1>1, <2>1 DEF Text, Attr, Child
<1>3. IsDate(Text(x, "DateOfBirth"))
      /\ ParseDate(Text(x, "DateOfBirth")) = p["DateOfBirth"]
  BY <1>2, Dating DEF PersonObject
<1>4. id = Returned(i)
  <2>1. CASE ~has
    <3>1. Text(x, "identifier") = None /\ Attr(x, "identifier") = None
      BY <1>1, <2>1 DEF Text, Attr
    <3> QED
      BY <2>1, <3>1 DEF Identifier
  <2>2. CASE has
    <3>1. p.identifier \in IdentifierObjects
      BY <2>2 DEF IdentifierValue, PersonObject
    <3>2. PICK v \in Identifiers \cup {None}, s \in Schemes \cup {Eidas} :
              p.identifier = [value |-> v, schemeID |-> s]
      BY <3>1 DEF IdentifierObjects
    <3>3. Text(x, "identifier") = v /\ Attr(x, "identifier") = s /\ s # None
      BY <1>1, <2>2, <3>2 DEF Text, Attr, Child
    <3>4. Identifier(v, s) = Returned([value |-> v, schemeID |-> s])
      BY <3>3 DEF Identifier
    <3> QED
      BY <2>2, <3>2, <3>3, <3>4
  <2> QED
    BY <2>1, <2>2
<1> HIDE DEF i
<1> DEFINE p1 == [q EXCEPT !.LevelOfAssurance = Text(x, "LevelOfAssurance")]
           p2 == [p1 EXCEPT !.identifier = id.value,
                            !.FamilyName = Text(x, "FamilyName"),
                            !.FamilyNameNonLatin = Attr(x, "FamilyName")]
           p3 == [f \in Fields |->
                     CASE f = "DateOfBirth" -> ParseDate(Text(x, "DateOfBirth"))
                       [] f \in TextFields -> Text(x, f)
                       [] OTHER -> p2[f]]
<1>5. SetXml(q, x) = Returned(p3)
  BY <1>3, <1>4 DEF SetXml, Ok, Returned
<1>6. id.value = i
  BY <1>4 DEF Returned
<1>7. /\ DOMAIN p1 = Fields
      /\ p1["LevelOfAssurance"] = p["LevelOfAssurance"]
  BY <1>2, Names
<1> HIDE DEF p1, id
<1>8. /\ p2["identifier"] = i
      /\ p2["FamilyName"] = p["FamilyName"]
      /\ p2["FamilyNameNonLatin"] = p["FamilyNameNonLatin"]
      /\ p2["LevelOfAssurance"] = p["LevelOfAssurance"]
  BY <1>2, <1>6, <1>7, Names
<1> HIDE DEF p2
<1>9. /\ p3 = [f \in Fields |-> p3[f]]
      /\ p3["DateOfBirth"] = p["DateOfBirth"] /\ p3["Gender"] = p["Gender"]
      /\ \A f \in Fields \ {"DateOfBirth", "Gender"} : p3[f] = p2[f]
  BY <1>2, <1>3, Names DEF TextFields
<1> HIDE DEF p3
<1>10. /\ r = [f \in Fields |-> r[f]]
       /\ r["identifier"] = i /\ \A f \in Fields \ {"identifier"} : r[f] = p[f]
  BY Names DEF PersonObject
<1>11. r = [p EXCEPT !.identifier = IF has THEN @
                                    ELSE [value |-> None, schemeID |-> Eidas]]
  BY DEF i
<1> HIDE DEF r
<1>12. p3 = r
  <2>1. \A f \in Fields : p3[f] = r[f]
    BY <1>8, <1>9, <1>10, Names
  <2> QED
    BY <1>9, <1>10, <2>1
<1> QED
  BY <1>5, <1>11, <1>12 DEF x

(* serialization_fields: what a person shows is a function of the fields   *)
(* that are allowed, in all four renderings.                               *)
THEOREM ShownOnlyAllowed ==
    ASSUME NEW p, NEW allowed \in SUBSET Fields
    PROVE  Exported(p, allowed) = Exported(Only(p, allowed), allowed)
<1> DEFINE q == Only(p, allowed)
<1>1. \A f \in allowed : q[f] = p[f]
  BY DEF Only
<1>2. "identifier" \in allowed =>
        q.identifier = p.identifier /\ IdentifierValue(q) = IdentifierValue(p)
  BY <1>1 DEF IdentifierValue
<1> HIDE DEF q
<1>3. LegacyDict(p, allowed) = LegacyDict(q, allowed)
  <2> DEFINE F(a) == CHOOSE g \in Fields : Alias[g] = a
  <2>1. \A a \in {Alias[f] : f \in allowed} : F(a) \in allowed
    BY Names
  <2>2. \A r : LegacyDict(r, allowed) =
           [a \in {Alias[f] : f \in allowed} |->
               IF F(a) = "identifier" THEN IdentifierValue(r) ELSE Iso(r[F(a)])]
    BY DEF LegacyDict
  <2> HIDE DEF F
  <2>3. \A a \in {Alias[f] : f \in allowed} :
           (IF F(a) = "identifier" THEN IdentifierValue(p) ELSE Iso(p[F(a)]))
             = (IF F(a) = "identifier" THEN IdentifierValue(q) ELSE Iso(q[F(a)]))
    BY <1>1, <1>2, <2>1
  <2> QED
    BY <2>2, <2>3
<1>4. GetDict(p, allowed) = GetDict(q, allowed)
  BY <1>1 DEF GetDict
<1>5. GetElement(p, allowed) = GetElement(q, allowed)
  <2> DEFINE T(r) == {f \in allowed \ {"FamilyNameNonLatin"} :
                        f = "identifier" => IdentifierValue(r) # None}
             V(r, t) == CASE t = "identifier" ->
                               Child(r.identifier.value, r.identifier.schemeID)
                          [] t = "FamilyName" -> Child(r[t], Nonlatin(r, allowed))
                          [] OTHER -> Child(Iso(r[t]), None)
  <2>1. T(p) = T(q)
    BY <1>2
  <2>2. Nonlatin(p, allowed) = Nonlatin(q, allowed)
    BY <1>1 DEF Nonlatin
  <2>3. \A t \in T(p) : V(p, t) = V(q, t)
    BY <1>1, <1>2, <2>2
  <2>4. \A r : GetElement(r, allowed) = [t \in T(r) |-> V(r, t)]
    BY DEF GetElement
  <2> HIDE DEF T, V
  <2> QED
    BY <2>1, <2>3, <2>4
<1>6. SdgXml(p, allowed) = SdgXml(q, allowed)
  <2> DEFINE T(r) == (allowed \cap {"identifier", "FamilyName", "DateOfBirth"})
                        \ (IF IdentifierValue(r) = None THEN {"identifier"} ELSE {})
             V(r, t) == CASE t = "identifier" ->
                               Child(r.identifier.value, r.identifier.schemeID)
                          [] t = "FamilyName" ->
                               Child(IF r[t] # None THEN r[t] ELSE Nonlatin(r, allowed), None)
                          [] OTHER -> Child(Iso(r[t]), None)
  <2>1. T(p) = T(q)
    BY <1>2
  <2>2. Nonlatin(p, allowed) = Nonlatin(q, allowed)
    BY <1>1 DEF Nonlatin
  <2>3. \A t \in T(p) : V(p, t) = V(q, t)
    BY <1>1, <1>2, <2>2
  <2>4. \A r : SdgXml(r, allowed) = [t \in T(r) |-> V(r, t)]
    BY DEF SdgXml
  <2> HIDE DEF T, V
  <2> QED
    BY <2>1, <2>3, <2>4
<1> QED
  BY <1>3, <1>4, <1>5, <1>6 DEF Exported, q

-----------------------------------------------------------------------------
(* Evidence.  What _dict_to_evidences returns.                             *)
EvidencesObject(e) ==
    /\ e = [title |-> e.title, PreviewDescription |-> e.PreviewDescription,
            preview |-> e.preview, evidences |-> e.evidences]
    /\ IsList(e.evidences) /\ IsList(e.PreviewDescription)
    /\ \A x \in ToSet(e.PreviewDescription) : "lang" \in DOMAIN x /\ x.lang # "lang"
    /\ \A p \in ToSet(e.evidences) :
          /\ p = [RegistryPackage |-> p.RegistryPackage, permit |-> p.permit]
          /\ IsList(p.RegistryPackage)
          /\ \A o \in ToSet(p.RegistryPackage) :
                /\ o = [classification |-> o.classification,
                        RepositoryItemRef |-> [href |-> o.RepositoryItemRef.href],
                        content |-> o.content]
                /\ o.classification \in Nodes
                /\ o.RepositoryItemRef.href \in References

LEMMA Lists ==
    /\ IsList(<<>>) /\ ToSet(<<>>) = {} /\ DOMAIN <<>> = {}
    /\ \A s : IsList(s) => DOMAIN s = 1..Len(s) /\ Len(s) \in Nat
    /\ \A s : IsList(s) => DOMAIN s \subseteq Nat /\ (ToSet(s) = {} => s = <<>>)
    /\ \A s : IsList(s) /\ s # <<>> => 1 \in DOMAIN s
    /\ \A s, t : IsList(s) /\ DOMAIN t = DOMAIN s /\ t = [i \in DOMAIN s |-> t[i]] => IsList(t)
<1>1. IsList(<<>>) /\ ToSet(<<>>) = {} /\ DOMAIN <<>> = {}
  BY EmptySeq DEF IsList, ToSet
<1>2. ASSUME NEW s, IsList(s)
      PROVE  /\ DOMAIN s = 1..Len(s) /\ Len(s) \in Nat
             /\ DOMAIN s \subseteq Nat /\ (ToSet(s) = {} => s = <<>>)
             /\ s # <<>> => 1 \in DOMAIN s
  <2>1. s \in Seq(ToSet(s))
    BY <1>2 DEF IsList
  <2>2. DOMAIN s = 1..Len(s) /\ Len(s) \in Nat
    BY <2>1, LenProperties
  <2>3. s # <<>> => Len(s) \in Nat \ {0}
    BY <2>1, EmptySeq
  <2>4. s # <<>> => 1 \in DOMAIN s
    BY <2>2, <2>3
  <2>5. ToSet(s) = {} => s = <<>>
    BY <2>4 DEF ToSet
  <2> QED
    BY <2>2, <2>4, <2>5
<1>3. ASSUME NEW s, NEW t, IsList(s), DOMAIN t = DOMAIN s, t = [i \in DOMAIN s |-> t[i]]
      PROVE  IsList(t)
  <2>1. DOMAIN t = 1..Len(s) /\ Len(s) \in Nat
    BY <1>2, <1>3
  <2>2. \A i \in 1..Len(s) : t[i] \in ToSet(t)
    BY <2>1 DEF ToSet
  <2>3. t \in [1..Len(s) -> ToSet(t)]
    BY <1>3, <2>1, <2>2
  <2> QED
    BY <2>1, <2>3, SeqDef DEF IsList
<1> QED
  BY <1>1, <1>2, <1>3

LEMMA NoFaults ==
    ASSUME NEW d, NEW n, Ok(DictToEvidences(d, n))
    PROVE  /\ Faults(d) = {}
           /\ \A x \in ToSet(Get(d, "PreviewDescription", <<>>)) : "lang" \in DOMAIN x
           /\ \A p \in ToSet(Get(d, "evidences", <<>>)) :
                 /\ "RegistryPackage" \in DOMAIN p
                 /\ \A o \in ToSet(p.RegistryPackage) :
                       /\ o.classification \in Nodes
                       /\ Get(o, "RepositoryItemRef", <<>>) # None
<1>1. "nothing" \notin Faults(d)
  <2>1. \A p : "nothing" \notin PackageFaults(p)
    BY DEF PackageFaults
  <2>2. "nothing" \notin UNION {PackageFaults(p) : p \in ToSet(Get(d, "evidences", <<>>))}
    BY <2>1
  <2> DEFINE A == IF \A x \in ToSet(Get(d, "PreviewDescription", <<>>)) : "lang" \in DOMAIN x
                  THEN {} ELSE {"KeyError"}
             B == UNION {PackageFaults(p) : p \in ToSet(Get(d, "evidences", <<>>))}
             C == IF "title" \in DOMAIN d THEN {} ELSE {"KeyError"}
  <2>3. Faults(d) = A \cup B \cup C
    BY DEF Faults
  <2>4. "nothing" \notin A /\ "nothing" \notin C
    OBVIOUS
  <2> HIDE DEF A, B, C
  <2> QED
    BY <2>2, <2>3, <2>4 DEF B
<1>2. Faults(d) = {}
  BY <1>1 DEF DictToEvidences, Ok, Raised
<1>3. \A x \in ToSet(Get(d, "PreviewDescription", <<>>)) : "lang" \in DOMAIN x
  BY <1>2 DEF Faults
<1>4. ASSUME NEW p \in ToSet(Get(d, "evidences", <<>>))
      PROVE  /\ "RegistryPackage" \in DOMAIN p
             /\ \A o \in ToSet(p.RegistryPackage) :
                   /\ o.classification \in Nodes
                   /\ Get(o, "RepositoryItemRef", <<>>) # None
  <2>1. PackageFaults(p) = {}
    BY <1>2 DEF Faults
  <2>2. "RegistryPackage" \in DOMAIN p
    BY <2>1 DEF PackageFaults
  <2>3. \A o \in ToSet(p.RegistryPackage) : ObjectFault(o) = "nothing"
    BY <2>1, <2>2 DEF PackageFaults
  <2>4. ASSUME NEW o, ObjectFault(o) = "nothing"
        PROVE  o.classification \in Nodes /\ Get(o, "RepositoryItemRef", <<>>) # None
    BY <2>4 DEF ObjectFault
  <2> QED
    BY <2>2, <2>3, <2>4
<1> QED
  BY <1>2, <1>3, <1>4

(* A reference is kept, or generated where it is missing.                  *)
LEMMA ReferenceRead ==
    ASSUME NEW o, NEW c \in Cids, Href(o) \in References,
           Get(o, "RepositoryItemRef", <<>>) # None
    PROVE  /\ ReadObject(o, c).RepositoryItemRef.href \in References
           /\ Given(ReadObject(o, c).RepositoryItemRef.href) = Given(Href(o))
<1> USE EvidencesAssumption DEF References
<1> DEFINE ref == Get(o, "RepositoryItemRef", <<>>)
           h == ReadObject(o, c).RepositoryItemRef.href
<1>1. h = Get(ref, "href", c) /\ Href(o) = Get(ref, "href", None)
  BY DEF ReadObject, Href
<1> HIDE DEF h, ref
<1>2. CASE "href" \in DOMAIN ref
  BY <1>1, <1>2 DEF Get, h
<1>3. CASE "href" \notin DOMAIN ref
  <2>1. h = c /\ Href(o) = None
    BY <1>1, <1>3 DEF Get
  <2>2. Given(c) = None /\ Given(None) = None
    BY DEF Given
  <2> QED
    BY <2>1, <2>2 DEF h
<1> QED
  BY <1>2, <1>3

(* In an object that was read the reference is where Href looks for it.    *)
LEMMA HrefOfObject ==
    ASSUME NEW o, o.RepositoryItemRef = [href |-> o.RepositoryItemRef.href],
           "RepositoryItemRef" \in DOMAIN o, o.RepositoryItemRef.href \in References
    PROVE  Href(o) = o.RepositoryItemRef.href
           /\ Get(o, "RepositoryItemRef", <<>>) # None
<1> DEFINE h == o.RepositoryItemRef.href
<1>1. [href |-> h] \in [href : References]
  OBVIOUS
<1>2. [href |-> h] # None
  BY <1>1, EvidencesAssumption
<1> QED
  BY <1>2 DEF Href, Get

LEMMA PackageRead ==
    ASSUME NEW p, NEW i \in Nat, NEW n \in Nat, "RegistryPackage" \in DOMAIN p,
           IsList(p.RegistryPackage),
           \A o \in ToSet(p.RegistryPackage) :
              /\ Href(o) \in References /\ o.classification \in Nodes
              /\ Get(o, "RepositoryItemRef", <<>>) # None
    PROVE  LET q == ReadPackage(p, i, n)
           IN  /\ q = [RegistryPackage |-> q.RegistryPackage, permit |-> q.permit]
               /\ IsList(q.RegistryPackage)
               /\ \A o \in ToSet(q.RegistryPackage) :
                     /\ o = [classification |-> o.classification,
                             RepositoryItemRef |-> [href |-> o.RepositoryItemRef.href],
                             content |-> o.content]
                     /\ o.classification \in Nodes
                     /\ o.RepositoryItemRef.href \in References
               /\ MainDocuments(q) = MainDocuments(p)
<1> DEFINE q == ReadPackage(p, i, n)
           R == p.RegistryPackage
           S == q.RegistryPackage
           Read(j) == ReadObject(R[j], Cid(n, i, j))
<1>1. /\ q = [RegistryPackage |-> S, permit |-> Get(p, "permit", FALSE)]
      /\ S = [j \in DOMAIN R |-> Read(j)]
  BY DEF ReadPackage
<1>0. /\ IsList(R) /\ "RegistryPackage" \in DOMAIN p
      /\ \A o \in ToSet(R) :
            /\ Href(o) \in References /\ o.classification \in Nodes
            /\ Get(o, "RepositoryItemRef", <<>>) # None
  OBVIOUS
<1> HIDE DEF q, S
<1>7. q.permit = Get(p, "permit", FALSE)
  BY <1>1
<1>2. DOMAIN R \subseteq Nat /\ DOMAIN S = DOMAIN R /\ IsList(S)
  <2>1. DOMAIN S = DOMAIN R /\ S = [j \in DOMAIN R |-> S[j]]
    BY <1>1
  <2> QED
    BY <1>0, <2>1, Lists
<1> HIDE DEF R
<1>3. \A j \in DOMAIN R : S[j] = Read(j) /\ R[j] \in ToSet(R)
  BY <1>1 DEF ToSet
<1>4. ASSUME NEW j \in DOMAIN R
      PROVE  /\ S[j] = [classification |-> R[j].classification,
                        RepositoryItemRef |-> [href |-> S[j].RepositoryItemRef.href],
                        content |-> R[j].content]
             /\ S[j].RepositoryItemRef.href \in References
             /\ S[j].classification = R[j].classification /\ S[j].content = R[j].content
             /\ Given(Href(S[j])) = Given(Href(R[j]))
  <2>0. Href(R[j]) \in References /\ Get(R[j], "RepositoryItemRef", <<>>) # None
    BY <1>0, <1>3
  <2>1. Cid(n, i, j) \in Cids
    BY <1>2 DEF Cid, Cids
  <2>2. S[j].RepositoryItemRef.href \in References
        /\ Given(S[j].RepositoryItemRef.href) = Given(Href(R[j]))
    BY <1>3, <2>0, <2>1, ReferenceRead
  <2>3. S[j] = [classification |-> R[j].classification,
                RepositoryItemRef |-> [href |-> S[j].RepositoryItemRef.href],
                content |-> R[j].content]
        /\ S[j].classification = R[j].classification /\ S[j].content = R[j].content
        /\ "RepositoryItemRef" \in DOMAIN S[j]
    <3>1. PICK h : S[j] = [classification |-> R[j].classification,
                           RepositoryItemRef |-> [href |-> h], content |-> R[j].content]
      BY <1>3 DEF ReadObject
    <3> QED
      BY <3>1
  <2>4. Href(S[j]) = S[j].RepositoryItemRef.href
    BY <2>2, <2>3, HrefOfObject
  <2> QED
    BY <2>2, <2>3, <2>4
<1>5. ASSUME NEW o \in ToSet(S)
      PROVE  /\ o = [classification |-> o.classification,
                     RepositoryItemRef |-> [href |-> o.RepositoryItemRef.href],
                     content |-> o.content]
             /\ o.classification \in Nodes
             /\ o.RepositoryItemRef.href \in References
  <2>1. PICK j \in DOMAIN R : o = S[j]
    BY <1>2 DEF ToSet
  <2>2. R[j].classification \in Nodes
    BY <1>0, <1>3
  <2> QED
    BY <1>4, <2>1, <2>2
<1>6. MainDocuments(q) = MainDocuments(p)
  <2> DEFINE One(o, b) == IF o.classification = "MainEvidence"
                          THEN << <<o.content, Get(b, "permit", FALSE), Given(Href(o))>> >>
                          ELSE <<>>
  <2>1. "RegistryPackage" \in DOMAIN q /\ Get(q, "permit", FALSE) = Get(p, "permit", FALSE)
    BY <1>1 DEF Get
  <2>2. /\ MainDocuments(q) = FlattenSeq([j \in DOMAIN S |-> One(S[j], q)])
        /\ MainDocuments(p) = FlattenSeq([j \in DOMAIN R |-> One(R[j], p)])
    BY <1>0, <2>1 DEF MainDocuments, S, R
  <2>3. ASSUME NEW j \in DOMAIN R PROVE One(S[j], q) = One(R[j], p)
    <3>1. /\ S[j].classification = R[j].classification
          /\ S[j].content = R[j].content /\ Given(Href(S[j])) = Given(Href(R[j]))
      BY <1>4
    <3> QED
      BY <2>1, <3>1
  <2> HIDE DEF One
  <2>4. [j \in DOMAIN S |-> One(S[j], q)] = [j \in DOMAIN R |-> One(R[j], p)]
    BY <1>2, <2>3
  <2> QED
    BY <2>2, <2>4
<1> QED
  BY <1>1, <1>2, <1>5, <1>6, <1>7 DEF q, S

(* _dict_to_evidences keeps what the evidence tells.                       *)
LEMMA EvidenceRead ==
    ASSUME NEW d, NEW n \in Nat, EvidenceData(d), Ok(DictToEvidences(d, n))
    PROVE  /\ EvidencesObject(DictToEvidences(d, n).value)
           /\ Essence(DictToEvidences(d, n).value) = Essence(d)
<1> DEFINE P == Get(d, "evidences", <<>>)
           V == Get(d, "PreviewDescription", <<>>)
           e == DictToEvidences(d, n).value
           Q == e.evidences
<1>1. /\ IsList(P) /\ IsList(V)
      /\ \A x \in ToSet(V) : "lang" \in DOMAIN x /\ x.lang # "lang"
      /\ \A p \in ToSet(P) :
            /\ "RegistryPackage" \in DOMAIN p /\ IsList(p.RegistryPackage)
            /\ \A o \in ToSet(p.RegistryPackage) :
                  /\ Href(o) \in References /\ o.classification \in Nodes
                  /\ Get(o, "RepositoryItemRef", <<>>) # None
  <2>1. /\ \A x \in ToSet(V) : "lang" \in DOMAIN x
        /\ \A p \in ToSet(P) :
              /\ "RegistryPackage" \in DOMAIN p
              /\ \A o \in ToSet(p.RegistryPackage) :
                    /\ o.classification \in Nodes
                    /\ Get(o, "RepositoryItemRef", <<>>) # None
    BY NoFaults
  <2>2. /\ IsList(P) /\ IsList(V)
        /\ \A p \in ToSet(P) : "RegistryPackage" \in DOMAIN p =>
              /\ IsList(p.RegistryPackage)
              /\ \A o \in ToSet(p.RegistryPackage) : Href(o) \in References
        /\ \A x \in ToSet(V) : "lang" \in DOMAIN x => x.lang # "lang"
    BY DEF EvidenceData
  <2> HIDE DEF P, V
  <2> QED
    BY <2>1, <2>2
<1>2. DictToEvidences(d, n) = Returned(
        [title |-> d.title, PreviewDescription |-> V, preview |-> Get(d, "preview", TRUE),
         evidences |-> [i \in DOMAIN P |-> ReadPackage(d.evidences[i], i, n)]])
  BY NoFaults DEF DictToEvidences
<1>3. /\ e = [title |-> d.title, PreviewDescription |-> V,
              preview |-> Get(d, "preview", TRUE), evidences |-> Q]
      /\ e.PreviewDescription = V /\ e.preview = Get(d, "preview", TRUE)
      /\ Q = [i \in DOMAIN P |-> ReadPackage(d.evidences[i], i, n)]
  <2> DEFINE L == [i \in DOMAIN P |-> ReadPackage(d.evidences[i], i, n)]
  <2>1. e = [title |-> d.title, PreviewDescription |-> V,
             preview |-> Get(d, "preview", TRUE), evidences |-> L]
    BY <1>2 DEF Returned
  <2> HIDE DEF L, e, P, V
  <2>2. Q = L
    BY <2>1
  <2> QED
    BY <2>1, <2>2 DEF L
<1>4. \A i \in DOMAIN P : d.evidences[i] = P[i]
  BY Lists DEF Get
<1> HIDE DEF P, V, e, Q
<1>5. DOMAIN P \subseteq Nat /\ DOMAIN Q = DOMAIN P /\ IsList(Q)
  <2>1. DOMAIN Q = DOMAIN P /\ Q = [i \in DOMAIN P |-> Q[i]]
    BY <1>3
  <2> QED
    BY <1>1, <2>1, Lists
<1>6. ASSUME NEW i \in DOMAIN P
      PROVE  /\ Q[i] = [RegistryPackage |-> Q[i].RegistryPackage, permit |-> Q[i].permit]
             /\ IsList(Q[i].RegistryPackage)
             /\ \A o \in ToSet(Q[i].RegistryPackage) :
                   /\ o = [classification |-> o.classification,
                           RepositoryItemRef |-> [href |-> o.RepositoryItemRef.href],
                           content |-> o.content]
                   /\ o.classification \in Nodes
                   /\ o.RepositoryItemRef.href \in References
             /\ MainDocuments(Q[i]) = MainDocuments(P[i])
  <2>1. P[i] \in ToSet(P) /\ i \in Nat
    BY <1>5 DEF ToSet
  <2>2. Q[i] = ReadPackage(P[i], i, n)
    BY <1>3, <1>4
  <2> QED
    BY <1>1, <2>1, <2>2, PackageRead
<1>7. \A p \in ToSet(Q) : \E i \in DOMAIN P : p = Q[i]
  BY <1>5 DEF ToSet
<1>8. EvidencesObject(e)
  <2>1. e = [title |-> e.title, PreviewDescription |-> e.PreviewDescription,
             preview |-> e.preview, evidences |-> e.evidences]
    BY <1>3 DEF Q
  <2>2. e.evidences = Q
    BY DEF Q
  <2>3. /\ IsList(e.PreviewDescription)
        /\ \A x \in ToSet(e.PreviewDescription) : "lang" \in DOMAIN x /\ x.lang # "lang"
    BY <1>1, <1>3
  <2>4. \A p \in ToSet(Q) :
          /\ p = [RegistryPackage |-> p.RegistryPackage, permit |-> p.permit]
          /\ IsList(p.RegistryPackage)
          /\ \A o \in ToSet(p.RegistryPackage) :
                /\ o = [classification |-> o.classification,
                        RepositoryItemRef |-> [href |-> o.RepositoryItemRef.href],
                        content |-> o.content]
                /\ o.classification \in Nodes
                /\ o.RepositoryItemRef.href \in References
    BY <1>6, <1>7
  <2> QED
    BY <1>5, <2>1, <2>2, <2>3, <2>4 DEF EvidencesObject
<1>9. Essence(e) = Essence(d)
  <2>1. "evidences" \in DOMAIN e /\ "preview" \in DOMAIN e /\ e.evidences = Q
    BY <1>3 DEF Q
  <2>2. /\ Essence(e) = [documents |-> FlattenSeq([i \in DOMAIN Q |-> MainDocuments(Q[i])]),
                         preview   |-> Get(d, "preview", TRUE)]
        /\ Essence(d) = [documents |-> FlattenSeq([i \in DOMAIN P |-> MainDocuments(P[i])]),
                         preview   |-> Get(d, "preview", TRUE)]
    BY <1>3, <2>1 DEF Essence, Get, P
  <2>3. [i \in DOMAIN Q |-> MainDocuments(Q[i])] = [i \in DOMAIN P |-> MainDocuments(P[i])]
    BY <1>5, <1>6
  <2> QED
    BY <2>2, <2>3
<1> QED
  BY <1>8, <1>9 DEF e

(* Evidence that was read is a dictionary that can be stored and is read   *)
(* back as it is, whatever references a reading would generate.            *)
LEMMA ObjectIsData ==
    ASSUME NEW e, EvidencesObject(e)
    PROVE  EvidenceData(e)
<1>1. /\ Get(e, "evidences", <<>>) = e.evidences
      /\ Get(e, "PreviewDescription", <<>>) = e.PreviewDescription
      /\ "exaption" \notin DOMAIN e
  BY DEF EvidencesObject, Get
<1>2. ASSUME NEW p \in ToSet(e.evidences), NEW o \in ToSet(p.RegistryPackage)
      PROVE  Href(o) \in References
  <2>1. /\ o = [classification |-> o.classification,
                RepositoryItemRef |-> [href |-> o.RepositoryItemRef.href],
                content |-> o.content]
        /\ o.RepositoryItemRef.href \in References
    BY DEF EvidencesObject
  <2>2. "RepositoryItemRef" \in DOMAIN o
        /\ o.RepositoryItemRef = [href |-> o.RepositoryItemRef.href]
    BY <2>1
  <2> QED
    BY <2>1, <2>2, HrefOfObject
<1> QED
  BY <1>1, <1>2 DEF EvidencesObject, EvidenceData

THEOREM EvidenceReadBack ==
    ASSUME NEW e, EvidencesObject(e), NEW n \in Nat
    PROVE  DictToEvidences(e, n) = Returned(e)
<1>1. /\ Get(e, "evidences", <<>>) = e.evidences
      /\ Get(e, "PreviewDescription", <<>>) = e.PreviewDescription
      /\ Get(e, "preview", TRUE) = e.preview /\ "title" \in DOMAIN e
      /\ \A x \in ToSet(e.PreviewDescription) : "lang" \in DOMAIN x
  BY DEF EvidencesObject, Get
<1>2. ASSUME NEW p \in ToSet(e.evidences), NEW o \in ToSet(p.RegistryPackage)
      PROVE  /\ DOMAIN o = {"classification", "RepositoryItemRef", "content"}
             /\ o = [classification |-> o.classification,
                     RepositoryItemRef |-> [href |-> o.RepositoryItemRef.href],
                     content |-> o.content]
             /\ "href" \in DOMAIN o.RepositoryItemRef
             /\ Get(o, "RepositoryItemRef", <<>>) # None
             /\ o.classification \in Nodes
  <2>1. /\ o = [classification |-> o.classification,
                RepositoryItemRef |-> [href |-> o.RepositoryItemRef.href],
                content |-> o.content]
        /\ o.RepositoryItemRef.href \in References /\ o.classification \in Nodes
    BY DEF EvidencesObject
  <2>2. DOMAIN o = {"classification", "RepositoryItemRef", "content"}
        /\ o.RepositoryItemRef = [href |-> o.RepositoryItemRef.href]
    BY <2>1
  <2> QED
    BY <2>1, <2>2, HrefOfObject
<1>3. Faults(e) = {}
  <2>1. ASSUME NEW p \in ToSet(e.evidences) PROVE PackageFaults(p) = {}
    <3>1. \A o \in ToSet(p.RegistryPackage) : ObjectFault(o) = "nothing"
      BY <1>2 DEF ObjectFault
    <3>2. "RegistryPackage" \in DOMAIN p
      BY DEF EvidencesObject
    <3> QED
      BY <3>1, <3>2 DEF PackageFaults
  <2> QED
    BY <1>1, <2>1 DEF Faults
<1>4. ASSUME NEW i \in DOMAIN e.evidences
      PROVE  ReadPackage(e.evidences[i], i, n) = e.evidences[i]
  <2> DEFINE p == e.evidences[i]
             R == p.RegistryPackage
  <2>1. p \in ToSet(e.evidences)
    BY DEF ToSet
  <2>2. p = [RegistryPackage |-> R, permit |-> p.permit] /\ IsList(R)
    BY <2>1 DEF EvidencesObject
  <2>3. ASSUME NEW j \in DOMAIN R PROVE ReadObject(R[j], Cid(n, i, j)) = R[j]
    <3>1. R[j] \in ToSet(R)
      BY DEF ToSet
    <3> HIDE DEF p, R
    <3> DEFINE o == R[j]
    <3>2. /\ o = [classification |-> o.classification,
                  RepositoryItemRef |-> [href |-> o.RepositoryItemRef.href],
                  content |-> o.content]
          /\ DOMAIN o = {"classification", "RepositoryItemRef", "content"}
          /\ "href" \in DOMAIN o.RepositoryItemRef
      BY <1>2, <2>1, <3>1 DEF R
    <3> HIDE DEF o
    <3>3. Get(Get(o, "RepositoryItemRef", <<>>), "href", Cid(n, i, j))
            = o.RepositoryItemRef.href
      BY <3>2 DEF Get
    <3>4. ReadObject(o, Cid(n, i, j)) = o
      BY <3>2, <3>3 DEF ReadObject
    <3> QED
      BY <3>4 DEF o
  <2>4. R = [j \in DOMAIN R |-> R[j]]
    BY <2>2 DEF IsList
  <2>5. Get(p, "permit", FALSE) = p.permit
    BY <2>2 DEF Get
  <2> HIDE DEF p, R
  <2>6. [j \in DOMAIN R |-> ReadObject(R[j], Cid(n, i, j))] = R
    BY <2>3, <2>4
  <2>7. ReadPackage(p, i, n) = p
    BY <2>2, <2>5, <2>6 DEF ReadPackage, R
  <2> QED
    BY <2>7 DEF p
<1>5. [i \in DOMAIN e.evidences |-> ReadPackage(e.evidences[i], i, n)] = e.evidences
  <2>1. e.evidences = [i \in DOMAIN e.evidences |-> e.evidences[i]]
    BY DEF EvidencesObject, IsList
  <2> QED
    BY <1>4, <2>1
<1>6. DictToEvidences(e, n) = Returned(
        [title |-> e.title, PreviewDescription |-> e.PreviewDescription,
         preview |-> e.preview, evidences |-> e.evidences])
  BY <1>1, <1>3, <1>5 DEF DictToEvidences
<1> QED
  BY <1>6 DEF EvidencesObject

-----------------------------------------------------------------------------
(* The legacy dictionary.                                                  *)
LEMMA SeqIsList ==
    /\ \A S : \A s \in Seq(S) : IsList(s)
    /\ \A s, S : IsList(s) /\ (\A i \in DOMAIN s : s[i] \in S) => s \in Seq(S)
<1>1. ASSUME NEW S, NEW s \in Seq(S) PROVE IsList(s)
  <2>1. /\ Len(s) \in Nat /\ DOMAIN s = 1..Len(s) /\ s \in [1..Len(s) -> S]
    BY LenProperties
  <2>2. s \in [1..Len(s) -> ToSet(s)]
    BY <2>1 DEF ToSet
  <2> QED
    BY <2>1, <2>2, SeqDef DEF IsList
<1>2. ASSUME NEW s, NEW S, IsList(s), \A i \in DOMAIN s : s[i] \in S PROVE s \in Seq(S)
  <2>1. s \in Seq(ToSet(s))
    BY <1>2 DEF IsList
  <2>2. Len(s) \in Nat /\ DOMAIN s = 1..Len(s) /\ s \in [1..Len(s) -> ToSet(s)]
    BY <2>1, LenProperties
  <2>3. s \in [1..Len(s) -> S]
    BY <1>2, <2>2
  <2> QED
    BY <2>2, <2>3, SeqDef
<1> QED
  BY <1>1, <1>2

Main(p) == {o \in ToSet(p.RegistryPackage) : o.classification = "MainEvidence"}

(* The items of a package are its main documents.                          *)
LEMMA ItemsAreMain ==
    ASSUME NEW p, IsList(p.RegistryPackage)
    PROVE  /\ IsList(LegacyItems(p))
           /\ ToSet(LegacyItems(p)) = {LegacyItem(o, p) : o \in Main(p)}
<1> DEFINE R == p.RegistryPackage
           One(o) == IF o.classification = "MainEvidence"
                     THEN <<LegacyItem(o, p)>> ELSE <<>>
           ss == [j \in DOMAIN R |-> One(R[j])]
           S == {LegacyItem(o, p) : o \in ToSet(R)}
<1>1. LegacyItems(p) = FlattenSeq(ss)
  BY DEF LegacyItems
<1>2. \A o \in ToSet(R) : One(o) \in Seq(S)
  <2>1. <<>> \in Seq(S)
    BY EmptySeq
  <2>2. \A y \in S : <<y>> \in Seq(S)
    OBVIOUS
  <2>3. \A o \in ToSet(R) : LegacyItem(o, p) \in S
    OBVIOUS
  <2> HIDE DEF S
  <2> QED
    BY <2>1, <2>2, <2>3
<1>3. \A o : ToSet(One(o)) = IF o.classification = "MainEvidence"
                             THEN {LegacyItem(o, p)} ELSE {}
  <2>1. \A x : ToSet(<<x>>) = {x}
    BY DEF ToSet
  <2> QED
    BY <2>1, Lists
<1>4. IsList(R)
  OBVIOUS
<1> HIDE DEF R, One, S
<1>5. DOMAIN ss = DOMAIN R /\ ss = [j \in DOMAIN R |-> ss[j]]
      /\ \A j \in DOMAIN R : ss[j] = One(R[j])
  OBVIOUS
<1> HIDE DEF ss
<1>6. IsList(ss)
  BY <1>4, <1>5, Lists
<1>7. \A j \in DOMAIN ss : ss[j] \in Seq(S)
  BY <1>2, <1>5 DEF ToSet
<1>8. ss \in Seq(Seq(S))
  BY <1>6, <1>7, SeqIsList
<1>9. /\ FlattenSeq(ss) \in Seq(S)
      /\ ToSet(FlattenSeq(ss)) = UNION {ToSet(s) : s \in ToSet(ss)}
  BY <1>8, FlattenHasAll
<1>10. UNION {ToSet(s) : s \in ToSet(ss)} = {LegacyItem(o, p) : o \in Main(p)}
  <2>1. ToSet(ss) = {One(o) : o \in ToSet(R)}
    BY <1>5 DEF ToSet
  <2>2. Main(p) = {o \in ToSet(R) : o.classification = "MainEvidence"}
    BY DEF Main, R
  <2> QED
    BY <1>3, <2>1, <2>2
<1> QED
  BY <1>1, <1>9, <1>10, SeqIsList

(* What an item tells is what the document tells, so that the items of a   *)
(* package tell, in their order, what its main documents do.               *)
Document(item) == <<item.content, item.permit, Given(item.cid)>>

LEMMA ItemsTell ==
    ASSUME NEW p, IsList(p.RegistryPackage), DOMAIN p = {"RegistryPackage", "permit"},
           \A o \in ToSet(p.RegistryPackage) : Href(o) = o.RepositoryItemRef.href,
           NEW S, \A o \in Main(p) : LegacyItem(o, p) \in S,
           NEW D, NEW G \in Maps(S, D), \A x \in S : G[x] = Document(x)
    PROVE  Mapped(G, LegacyItems(p)) = MainDocuments(p)
<1> DEFINE R == p.RegistryPackage
           One(o) == IF o.classification = "MainEvidence"
                     THEN <<LegacyItem(o, p)>> ELSE <<>>
           Told(o) == IF o.classification = "MainEvidence"
                      THEN << <<o.content, Get(p, "permit", FALSE), Given(Href(o))>> >>
                      ELSE <<>>
           ss == [j \in DOMAIN R |-> One(R[j])]
<1>1. LegacyItems(p) = FlattenSeq(ss)
  BY DEF LegacyItems
<1>2. MainDocuments(p) = FlattenSeq([j \in DOMAIN R |-> Told(R[j])])
  BY DEF MainDocuments
<1>3. ASSUME NEW o \in ToSet(R)
      PROVE  One(o) \in Seq(S) /\ Mapped(G, One(o)) = Told(o)
  <2>1. CASE o.classification = "MainEvidence"
    <3> DEFINE x == LegacyItem(o, p)
    <3>1. x \in S
      BY <2>1 DEF Main
    <3>2. Document(x) = <<o.content, Get(p, "permit", FALSE), Given(Href(o))>>
      BY DEF Document, LegacyItem, Get
    <3>3. G[x] = Document(x)
      BY <3>1
    <3> HIDE DEF x
    <3>4. Mapped(G, <<x>>) = <<G[x]>> /\ <<x>> \in Seq(S)
      BY <3>1, MappedShort
    <3>5. One(o) = <<x>> /\ Told(o) = << <<o.content, Get(p, "permit", FALSE), Given(Href(o))>> >>
      BY <2>1 DEF x
    <3> HIDE DEF One, Told
    <3> QED
      BY <3>2, <3>3, <3>4, <3>5
  <2>2. CASE o.classification # "MainEvidence"
    <3>1. One(o) = <<>> /\ Told(o) = <<>>
      BY <2>2
    <3>2. Mapped(G, <<>>) = <<>> /\ <<>> \in Seq(S)
      BY MappedShort, EmptySeq
    <3> HIDE DEF One, Told
    <3> QED
      BY <3>1, <3>2
  <2> QED
    BY <2>1, <2>2
<1>4. IsList(R)
  OBVIOUS
<1> HIDE DEF R, One, Told
<1>5. DOMAIN ss = DOMAIN R /\ ss = [j \in DOMAIN R |-> ss[j]]
      /\ \A j \in DOMAIN R : ss[j] = One(R[j]) /\ R[j] \in ToSet(R)
  BY DEF ToSet
<1> HIDE DEF ss
<1>6. ss \in Seq(Seq(S))
  <2>1. IsList(ss)
    BY <1>4, <1>5, Lists
  <2>2. \A j \in DOMAIN ss : ss[j] \in Seq(S)
    BY <1>3, <1>5
  <2> QED
    BY <2>1, <2>2, SeqIsList
<1>7. Mapped(G, FlattenSeq(ss)) = FlattenSeq([j \in DOMAIN ss |-> Mapped(G, ss[j])])
  BY ONLY G \in Maps(S, D), <1>6, MappedFlatten
<1>8. [j \in DOMAIN ss |-> Mapped(G, ss[j])] = [j \in DOMAIN R |-> Told(R[j])]
  BY <1>3, <1>5
<1> QED
  BY <1>1, <1>2, <1>7, <1>8

(* to_legacy_evidences_dict tells what the evidence tells.                 *)
LEMMA LegacyWritten ==
    ASSUME NEW e, EvidencesObject(e)
    PROVE  /\ EvidenceData(ToLegacy(e)) /\ Essence(ToLegacy(e)) = Essence(e)
           /\ \A x \in ToSet(ToLegacy(e).evidences) : "RegistryPackage" \notin DOMAIN x
<1> DEFINE P == e.evidences
           ss == [i \in DOMAIN P |-> LegacyItems(P[i])]
           F == FlattenSeq(ss)
           V == [i \in DOMAIN e.PreviewDescription |->
                    LET d == e.PreviewDescription[i] IN [l \in {d.lang} |-> d.value]]
           l == ToLegacy(e)
           S == UNION {ToSet(LegacyItems(p)) : p \in ToSet(P)}
<1>1. l = [title |-> e.title, PreviewDescription |-> V, preview |-> e.preview,
           exaption |-> "", evidences |-> F]
  BY DEF ToLegacy
<1> HIDE DEF l
<1>2. /\ Get(l, "evidences", <<>>) = F /\ Get(l, "PreviewDescription", <<>>) = V
      /\ Get(l, "preview", TRUE) = e.preview
  BY <1>1 DEF Get
<1>3. /\ IsList(P) /\ IsList(e.PreviewDescription)
      /\ \A p \in ToSet(P) :
            /\ IsList(p.RegistryPackage) /\ DOMAIN p = {"RegistryPackage", "permit"}
            /\ \A o \in ToSet(p.RegistryPackage) : Href(o) = o.RepositoryItemRef.href
  <2>1. ASSUME NEW p \in ToSet(P), NEW o \in ToSet(p.RegistryPackage)
        PROVE  Href(o) = o.RepositoryItemRef.href
    <3>1. /\ o = [classification |-> o.classification,
                  RepositoryItemRef |-> [href |-> o.RepositoryItemRef.href],
                  content |-> o.content]
          /\ o.RepositoryItemRef.href \in References
      BY DEF EvidencesObject
    <3>2. "RepositoryItemRef" \in DOMAIN o
          /\ o.RepositoryItemRef = [href |-> o.RepositoryItemRef.href]
      BY <3>1
    <3> QED
      BY <3>1, <3>2, HrefOfObject
  <2>2. \A p \in ToSet(P) : p = [RegistryPackage |-> p.RegistryPackage, permit |-> p.permit]
                            /\ IsList(p.RegistryPackage)
    BY DEF EvidencesObject
  <2>3. \A p \in ToSet(P) : DOMAIN p = {"RegistryPackage", "permit"}
    BY <2>2
  <2> QED
    BY <2>1, <2>2, <2>3 DEF EvidencesObject
<1>4. \A x \in ToSet(V) : "lang" \notin DOMAIN x
  <2>1. \A i \in DOMAIN e.PreviewDescription : e.PreviewDescription[i].lang # "lang"
    BY DEF EvidencesObject, ToSet
  <2>2. DOMAIN V = DOMAIN e.PreviewDescription
        /\ \A i \in DOMAIN V : DOMAIN V[i] = {e.PreviewDescription[i].lang}
    OBVIOUS
  <2> HIDE DEF V
  <2> QED
    BY <2>1, <2>2 DEF ToSet
<1>5. IsList(V)
  <2>1. DOMAIN V = DOMAIN e.PreviewDescription
        /\ V = [i \in DOMAIN e.PreviewDescription |-> V[i]]
    OBVIOUS
  <2> HIDE DEF V
  <2> QED
    BY <1>3, <2>1, Lists
<1> HIDE DEF V, P, S
<1>6. /\ DOMAIN ss = DOMAIN P /\ ss = [i \in DOMAIN P |-> ss[i]]
      /\ \A i \in DOMAIN P : ss[i] = LegacyItems(P[i])
  OBVIOUS
<1> HIDE DEF ss
<1>7. /\ IsList(F) /\ F \in Seq(S) /\ ss \in Seq(Seq(S))
      /\ ToSet(F) = UNION {ToSet(LegacyItems(p)) : p \in ToSet(P)}
  <2>1. \A i \in DOMAIN ss : ss[i] \in Seq(S)
    <3>1. ASSUME NEW i \in DOMAIN P PROVE LegacyItems(P[i]) \in Seq(S)
      <4>1. P[i] \in ToSet(P)
        BY DEF ToSet
      <4>2. IsList(LegacyItems(P[i])) /\ ToSet(LegacyItems(P[i])) \subseteq S
        BY <1>3, <4>1, ItemsAreMain DEF S
      <4>3. LegacyItems(P[i]) \in Seq(ToSet(LegacyItems(P[i])))
        BY <4>2 DEF IsList
      <4> QED
        BY <4>2, <4>3, SeqMonotonic
    <3> QED
      BY <1>6, <3>1
  <2>2. ss \in Seq(Seq(S))
    <3>1. IsList(ss)
      BY <1>3, <1>6, Lists
    <3> QED
      BY <2>1, <3>1, SeqIsList
  <2>3. F \in Seq(S) /\ ToSet(F) = UNION {ToSet(s) : s \in ToSet(ss)}
    BY <2>2, FlattenHasAll
  <2>4. ToSet(ss) = {LegacyItems(p) : p \in ToSet(P)}
    BY <1>6 DEF ToSet
  <2> QED
    BY <2>2, <2>3, <2>4, SeqIsList
<1>14. F = FlattenSeq(ss)
  OBVIOUS
<1> HIDE DEF F
<1>8. ASSUME NEW x \in ToSet(F)
      PROVE  \E p \in ToSet(P) : \E o \in Main(p) : x = LegacyItem(o, p)
  BY <1>3, <1>7, ItemsAreMain
<1>9. \A p \in ToSet(P) : \A o \in Main(p) : LegacyItem(o, p) \in S
  BY <1>3, ItemsAreMain DEF S
<1>10. \A o, p : "RegistryPackage" \notin DOMAIN LegacyItem(o, p)
  BY DEF LegacyItem
<1>11. \A x \in ToSet(l.evidences) : "RegistryPackage" \notin DOMAIN x
  BY <1>1, <1>8, <1>10
<1>12. EvidenceData(l)
  <2>1. l.evidences = F
    BY <1>1
  <2> QED
    BY <1>2, <1>4, <1>5, <1>7, <1>11, <2>1 DEF EvidenceData
<1>13. Essence(l) = Essence(e)
  <2> DEFINE G == [x \in S |-> Document(x)]
             D == {Document(x) : x \in S}
             M == Mapped(G, F)
  <2>1. G \in Maps(S, D) /\ \A x \in S : G[x] = Document(x)
    BY DEF Maps
  <2> HIDE DEF G, D
  <2>2. M = FlattenSeq([i \in DOMAIN ss |-> Mapped(G, ss[i])])
    BY ONLY <1>7, <1>14, <2>1, MappedFlatten
  <2>3. ASSUME NEW i \in DOMAIN P PROVE Mapped(G, ss[i]) = MainDocuments(P[i])
    <3>1. P[i] \in ToSet(P)
      BY DEF ToSet
    <3> QED
      BY <1>3, <1>6, <1>9, <2>1, <3>1, ItemsTell
  <2>4. [i \in DOMAIN ss |-> Mapped(G, ss[i])] = [i \in DOMAIN P |-> MainDocuments(P[i])]
    BY <1>6, <2>3
  <2>5. M \in Seq(D) /\ DOMAIN M = DOMAIN F
    BY ONLY <1>7, <2>1, MappedIsSeq
  <2>6. FlattenSeq([k \in DOMAIN M |-> <<M[k]>>]) = M
    BY ONLY <2>5, FlattenSingles
  <2>7. ASSUME NEW k \in DOMAIN F PROVE MainDocuments(F[k]) = <<M[k]>>
    <3>1. F[k] \in ToSet(F) /\ F[k] \in S
      <4>1. F[k] \in ToSet(F)
        BY DEF ToSet
      <4> QED
        BY <1>7, <4>1 DEF S
    <3>2. "RegistryPackage" \notin DOMAIN F[k]
      BY <1>8, <1>10, <3>1
    <3>3. MainDocuments(F[k]) = <<Document(F[k])>>
      BY <3>2 DEF MainDocuments, Document
    <3>4. M[k] = Document(F[k])
      BY <2>1, <3>1 DEF Mapped
    <3> QED
      BY <3>3, <3>4
  <2>8. [k \in DOMAIN F |-> MainDocuments(F[k])] = [k \in DOMAIN M |-> <<M[k]>>]
    BY <2>5, <2>7
  <2> HIDE DEF M
  <2>9. /\ Essence(l) = [documents |-> FlattenSeq([k \in DOMAIN F |-> MainDocuments(F[k])]),
                         preview |-> e.preview]
        /\ Essence(e) = [documents |-> FlattenSeq([i \in DOMAIN P |-> MainDocuments(P[i])]),
                         preview |-> e.preview]
    <3>1. Get(e, "evidences", <<>>) = P /\ Get(e, "preview", TRUE) = e.preview
      BY DEF EvidencesObject, Get, P
    <3> QED
      BY <1>2, <3>1 DEF Essence
  <2> QED
    BY <2>2, <2>4, <2>6, <2>8, <2>9
<1> QED
  BY <1>11, <1>12, <1>13 DEF l

(* What the legacy reader returned, an older application may store, and it *)
(* is read back as it is.                                                  *)
THEOREM LegacyReadBack ==
    /\ \A e, n : EvidencesObject(e) => LegacyOf(ToLegacy(e), n) = Returned(ToLegacy(e))
    /\ \A d, n : IsLegacy(d) => LegacyOf(Normalized(d), n) = Returned(Normalized(d))
<1> DEFINE Full(l) == l = [title |-> l.title, PreviewDescription |-> l.PreviewDescription,
                           preview |-> l.preview, exaption |-> l.exaption,
                           evidences |-> l.evidences]
<1>1. ASSUME NEW l, NEW n, Full(l), IsLegacy(l) PROVE LegacyOf(l, n) = Returned(l)
  <2>1. /\ Get(l, "title", "") = l.title /\ Get(l, "preview", TRUE) = l.preview
        /\ Get(l, "PreviewDescription", <<>>) = l.PreviewDescription
        /\ Get(l, "exaption", "") = l.exaption
        /\ Get(l, "evidences", <<>>) = l.evidences
    BY <1>1 DEF Get
  <2>2. Normalized(l) = l
    BY <1>1, <2>1 DEF Normalized
  <2> QED
    BY <1>1, <2>2 DEF LegacyOf
<1>2. ASSUME NEW e, EvidencesObject(e)
      PROVE  Full(ToLegacy(e)) /\ IsLegacy(ToLegacy(e))
  <2> DEFINE l == ToLegacy(e)
  <2>1. Full(l) /\ "exaption" \in DOMAIN l /\ "evidences" \in DOMAIN l
    BY DEF ToLegacy
  <2>2. EvidenceData(l) /\ \A x \in ToSet(l.evidences) : "RegistryPackage" \notin DOMAIN x
    BY <1>2, LegacyWritten
  <2> HIDE DEF l, Full
  <2>3. Get(l, "evidences", <<>>) = l.evidences
    BY <2>1 DEF Get
  <2>4. IsList(l.evidences)
    BY <2>2, <2>3 DEF EvidenceData
  <2>5. ASSUME l.evidences # <<>> PROVE l.evidences[1] \in ToSet(l.evidences)
    BY <2>4, <2>5, Lists DEF ToSet
  <2> QED
    BY <2>1, <2>2, <2>5 DEF IsLegacy, l
<1>3. ASSUME NEW d, IsLegacy(d)
      PROVE  Full(Normalized(d)) /\ IsLegacy(Normalized(d))
  <2> DEFINE l == Normalized(d)
  <2>1. Full(l) /\ "exaption" \in DOMAIN l /\ "evidences" \in DOMAIN l
        /\ l.evidences = Get(d, "evidences", <<>>)
    BY DEF Normalized
  <2>2. l.evidences = d.evidences
    BY <1>3, <2>1 DEF IsLegacy, Get
  <2> HIDE DEF l, Full
  <2> QED
    BY <1>3, <2>1, <2>2 DEF IsLegacy, l
<1> HIDE DEF Full
<1> QED
  BY <1>1, <1>2, <1>3

(* _normalize_legacy_evidences_dict changes nothing that is told.          *)
LEMMA NormalizedWritten ==
    ASSUME NEW d, EvidenceData(d), IsLegacy(d)
    PROVE  EvidenceData(Normalized(d)) /\ Essence(Normalized(d)) = Essence(d)
<1> DEFINE l == Normalized(d)
<1>1. /\ Get(l, "evidences", <<>>) = Get(d, "evidences", <<>>)
      /\ Get(l, "PreviewDescription", <<>>) = Get(d, "PreviewDescription", <<>>)
      /\ Get(l, "preview", TRUE) = Get(d, "preview", TRUE)
  BY DEF Normalized, Get
<1>2. Essence(l) = Essence(d)
  BY <1>1 DEF Essence
<1>3. "evidences" \in DOMAIN d /\ Get(d, "evidences", <<>>) = d.evidences
      /\ (d.evidences = <<>> => "exaption" \in DOMAIN d)
  BY DEF IsLegacy, Get
<1> HIDE DEF l
<1>4. EvidenceData(l)
  BY <1>1, <1>3 DEF EvidenceData
<1> QED
  BY <1>2, <1>4 DEF l

-----------------------------------------------------------------------------
(* The invariant.  Whatever is in a place is a rendering of what the       *)
(* person or the evidence of its origin tells, and while the key holds     *)
(* what the library saved, it holds the dictionary of that very object.    *)
Known(place) == origin[place] \notin {None, Torn}

PersonInv ==
    /\ PersonObject(copy)
    /\ \A place \in Places : Known(place) => PersonObject(origin[place])
    /\ Known("copy") => Tells(copy, origin["copy"])
    /\ cell.form \in {"dict", "list"} =>
          PersonData(cell.data) /\ (Known("cell") => DataOf(cell.data, origin["cell"]))
    /\ xml # None =>
          ElementData(xml) /\ (Known("xml") => ElementOf(xml, origin["xml"]))
    /\ saved # None => PersonObject(saved) /\ cell = Dict(LegacyDict(saved, Fields))

EvidenceInv ==
    /\ cell.form \in {"dict", "list"} =>
          EvidenceData(cell.data) /\ Essence(cell.data) = origin["cell"]
    /\ copy # None =>
          /\ EvidenceData(copy) /\ Essence(copy) = origin["copy"]
          /\ ~legacy => EvidencesObject(copy)
    /\ saved # None => EvidencesObject(saved) /\ cell = Dict(saved)

IsRequest(r) == r = [k \in RequestKeys |-> r[k]]

RequestInv ==
    /\ copy # None => IsRequest(copy)
    /\ saved # None => IsRequest(saved) /\ cell \in {Dict(saved), List(saved)}

Inv ==
    /\ TypeOK
    /\ model = "person" => PersonInv
    /\ model = "evidences" => EvidenceInv
    /\ model = "request" => RequestInv

LEMMA Loads ==
    \A c, r, wrapped :
        LET got == LoadModel(c, r, wrapped)
        IN  /\ c.form \in {"none", "dict", "list", "empty", "other"}
            /\ Ok(got) /\ got.value # None
            => c.form \in {"dict", "list"} /\ Ok(r) /\ got = r
BY DEF LoadModel, Ok, Returned, Raised

LEMMA InitInv == Init => Inv
<1> SUFFICES ASSUME Init PROVE Inv
  OBVIOUS
<1> USE DEF Init
<1>1. \A place \in Places : ~Known(place)
  BY DEF Known
<1>2. TypeOK
  <2>1. model = "person" => DOMAIN copy = Fields
    BY DEF Blank
  <2>2. model = "request" => copy = None
    OBVIOUS
  <2>3. cell.form = "none" /\ DOMAIN origin = Places
    BY DEF Nothing
  <2>4. reads \in 0..MaxReads
    BY RecordsAssumption
  <2> QED
    BY <2>1, <2>2, <2>3, <2>4 DEF TypeOK
<1>3. ASSUME model = "person" PROVE PersonInv
  <2>1. PersonObject(copy)
    <3>1. copy = Blank
      BY <1>3
    <3>2. Plain(None) /\ Plain(High)
      BY PersonAssumption DEF Plain
    <3> QED
      BY <3>1, <3>2, Names DEF PersonObject, Blank
  <2> QED
    BY <1>1, <2>1 DEF PersonInv, Nothing, Places
<1>4. ASSUME model = "evidences" PROVE EvidenceInv
  BY <1>4 DEF EvidenceInv, Nothing
<1>5. ASSUME model = "request" PROVE RequestInv
  BY <1>5 DEF RequestInv
<1> QED
  BY <1>2, <1>3, <1>4, <1>5 DEF Inv

(* Loading a person.                                                       *)
LEMMA PersonLoaded ==
    ASSUME TypeOK, PersonInv, Ok(GetPerson), GetPerson.value # None
    PROVE  /\ PersonObject(GetPerson.value)
           /\ Known("cell") => Tells(GetPerson.value, origin["cell"])
<1>1. /\ cell.form \in {"dict", "list"} /\ Ok(SetFromDict(cell.data))
      /\ GetPerson = SetFromDict(cell.data)
  BY Loads DEF GetPerson, TypeOK
<1>2. PersonData(cell.data) /\ (Known("cell") => DataOf(cell.data, origin["cell"]))
  BY <1>1 DEF PersonInv
<1>3. Known("cell") => PersonObject(origin["cell"])
  BY DEF PersonInv, Places
<1> QED
  BY <1>1, <1>2, <1>3, PersonRead

LEMMA PersonHeld ==
    ASSUME TypeOK, PersonInv, NEW r, Holds(r, FALSE),
           Ok(r) /\ r.value # None =>
              PersonObject(r.value) /\ (Known("cell") => Tells(r.value, origin["cell"]))
    PROVE  PersonInv'
<1>1. UNCHANGED <<cell, xml, saved>> /\ DOMAIN origin' = Places
      /\ \A place \in Places \ {"copy"} : origin'[place] = origin[place]
  BY DEF Holds, Move, TypeOK
<1>2. /\ PersonObject(copy)'
      /\ Known("copy")' => Tells(copy, origin["copy"])'
      /\ Known("copy")' => PersonObject(origin["copy"])'
  <2>1. CASE Ok(r) /\ r.value # None
    <3>1. copy' = r.value /\ origin'["copy"] = origin["cell"]
      BY <2>1 DEF Holds, Move, TypeOK, Places
    <3> QED
      BY <2>1, <3>1 DEF PersonInv, Known, Places
  <2>2. CASE ~(Ok(r) /\ r.value # None)
    <3>1. copy' = copy /\ origin' = origin
      BY <2>2 DEF Holds
    <3> QED
      BY <3>1 DEF PersonInv, Known, Places
  <2> QED
    BY <2>1, <2>2
<1>3. /\ Known("cell")' <=> Known("cell")
      /\ Known("xml")' <=> Known("xml")
      /\ origin'["cell"] = origin["cell"] /\ origin'["xml"] = origin["xml"]
  BY <1>1 DEF Known, Places
<1> QED
  BY <1>1, <1>2, <1>3 DEF PersonInv, Places

LEMMA PersonStep ==
    ASSUME Inv, model = "person", Next
    PROVE  PersonInv'
<1>1. TypeOK /\ PersonInv
  BY DEF Inv
<1>2. ~legacy /\ DOMAIN origin = Places
  BY <1>1 DEF TypeOK
<1>3. CASE Written
  <2>1. UNCHANGED <<copy, xml>> /\ saved' = None
    BY <1>3 DEF Written
  <2>2. ASSUME NEW i \in Inputs[model],
               cell' \in {Dict(i.data), List(i.data)},
               origin' = [origin EXCEPT !["cell"] = i.of]
        PROVE  PersonInv'
    <3>1. PersonObject(i.of) /\ PersonData(i.data) /\ DataOf(i.data, i.of)
      BY RecordsAssumption
    <3>2. cell'.data = i.data
      BY <2>2 DEF Dict, List
    <3>3. /\ origin'["cell"] = i.of /\ origin'["copy"] = origin["copy"]
          /\ origin'["xml"] = origin["xml"]
      BY <1>2, <2>2 DEF Places
    <3> QED
      BY <1>1, <2>1, <3>1, <3>2, <3>3 DEF PersonInv, Known, Places
  <2>3. ASSUME cell' \in {Nothing, EmptyList, Other}, UNCHANGED origin
        PROVE  PersonInv'
    <3>1. cell'.form \notin {"dict", "list"}
      BY <2>3 DEF Nothing, EmptyList, Other
    <3> QED
      BY <1>1, <2>1, <2>3, <3>1 DEF PersonInv, Known, Places
  <2> QED
    BY <1>3, <2>2, <2>3 DEF Written
<1>4. CASE Load
  <2>1. Holds(GetPerson, FALSE)
    BY <1>4 DEF Load
  <2> QED
    BY <1>1, <2>1, PersonLoaded, PersonHeld
<1>5. CASE FromRedis
  <2> DEFINE loaded == Ok(GetPerson) /\ GetPerson.value # None
             r == IF loaded THEN SetFromDict(LegacyDict(GetPerson.value, Fields))
                  ELSE GetPerson
  <2>1. Holds(r, FALSE)
    BY <1>5 DEF FromRedis
  <2>2. ASSUME Ok(r), r.value # None
        PROVE  PersonObject(r.value) /\ (Known("cell") => Tells(r.value, origin["cell"]))
    <3>1. loaded
      BY <2>2
    <3>2. /\ PersonObject(GetPerson.value)
          /\ Known("cell") => Tells(GetPerson.value, origin["cell"])
      BY <1>1, <3>1, PersonLoaded
    <3>3. r.value = Restored(GetPerson.value)
      BY <3>1, <3>2, RoundTrip DEF Returned
    <3> QED
      BY <3>2, <3>3, RestoredTells
  <2> HIDE DEF r
  <2> QED
    BY <1>1, <2>1, <2>2, PersonHeld
<1>6. CASE Save
  <2> DEFINE d == LegacyDict(copy, Fields)
  <2>1. cell' = Dict(d) /\ saved' = copy /\ UNCHANGED <<copy, xml>>
    BY <1>2, <1>6 DEF Save, Payload, SaveModel
  <2>2. /\ origin'["cell"] = origin["copy"] /\ origin'["copy"] = origin["copy"]
        /\ origin'["xml"] = origin["xml"]
    BY <1>2, <1>6 DEF Save, Move, Places
  <2>3. PersonData(d) /\ (Known("copy") => DataOf(d, origin["copy"]))
    BY <1>1, PersonWritten DEF PersonInv
  <2>4. cell'.data = d
    BY <2>1 DEF Dict
  <2> HIDE DEF d
  <2>5. PersonData(cell.data)' /\ (Known("cell")' => DataOf(cell.data, origin["cell"])')
    BY <2>2, <2>3, <2>4 DEF Known
  <2>6. PersonObject(saved)' /\ (cell = Dict(LegacyDict(saved, Fields)))'
    BY <1>1, <2>1 DEF PersonInv, d
  <2> QED
    BY <1>1, <2>1, <2>2, <2>5, <2>6 DEF PersonInv, Known, Places
<1>7. CASE SetPersonXml
  <2>1. PICK x \in Elements \cup
                (IF xml = None THEN {} ELSE {[of |-> origin["xml"], data |-> xml]}) :
          /\ copy' = SetXml(copy, x.data).value
          /\ origin' = [origin EXCEPT !["copy"] =
                  IF Ok(SetXml(copy, x.data)) \/ x.of = @ THEN x.of ELSE Torn]
    BY <1>7 DEF SetPersonXml
  <2>2. UNCHANGED <<cell, xml, saved>>
    BY <1>7 DEF SetPersonXml
  <2>3. /\ ElementData(x.data)
        /\ x.of \notin {None, Torn} => PersonObject(x.of) /\ ElementOf(x.data, x.of)
    <3>1. CASE x \in Elements
      BY <3>1, RecordsAssumption
    <3>2. CASE xml # None /\ x = [of |-> origin["xml"], data |-> xml]
      BY <1>1, <3>2 DEF PersonInv, Known, Places
    <3> QED
      BY <2>1, <3>1, <3>2
  <2>4. /\ origin'["copy"] = IF Ok(SetXml(copy, x.data)) \/ x.of = origin["copy"]
                             THEN x.of ELSE Torn
        /\ origin'["cell"] = origin["cell"] /\ origin'["xml"] = origin["xml"]
    BY <1>2, <2>1 DEF Places
  <2>5. PersonObject(copy)'
    BY <1>1, <2>1, <2>3, XmlRead DEF PersonInv
  <2>6. ASSUME Known("copy")'
        PROVE  PersonObject(origin["copy"])' /\ Tells(copy, origin["copy"])'
    <3>1. /\ x.of \notin {None, Torn} /\ origin'["copy"] = x.of
          /\ Ok(SetXml(copy, x.data)) \/ x.of = origin["copy"]
      BY <2>4, <2>6 DEF Known
    <3>2. Ok(SetXml(copy, x.data)) \/ Tells(copy, x.of)
      BY <1>1, <3>1 DEF PersonInv, Known
    <3> QED
      BY <1>1, <2>1, <2>3, <3>1, <3>2, XmlRead DEF PersonInv
  <2> QED
    BY <1>1, <2>2, <2>4, <2>5, <2>6 DEF PersonInv, Known, Places
<1>8. CASE WritePersonXml
  <2>1. xml' = GetElement(copy, Fields) /\ UNCHANGED <<cell, copy, saved>>
    BY <1>8 DEF WritePersonXml
  <2>2. /\ origin'["xml"] = origin["copy"] /\ origin'["copy"] = origin["copy"]
        /\ origin'["cell"] = origin["cell"]
    BY <1>2, <1>8 DEF WritePersonXml, Move, Places
  <2>3. ElementData(xml)' /\ (Known("xml")' => ElementOf(xml, origin["xml"])')
    BY <1>1, <2>1, <2>2, XmlWritten DEF PersonInv, Known
  <2> QED
    BY <1>1, <2>1, <2>2, <2>3 DEF PersonInv, Known, Places
<1> QED
  BY <1>3, <1>4, <1>5, <1>6, <1>7, <1>8 DEF Next

(* Reading evidence, with either reader.                                   *)
LEMMA EvidenceLoaded ==
    ASSUME TypeOK, EvidenceInv, Ok(GetEvidences), GetEvidences.value # None
    PROVE  /\ cell.form \in {"dict", "list"} /\ EvidenceData(cell.data)
           /\ Ok(DictToEvidences(cell.data, reads))
           /\ GetEvidences = DictToEvidences(cell.data, reads)
           /\ EvidencesObject(GetEvidences.value)
           /\ Essence(GetEvidences.value) = origin["cell"]
<1>1. /\ cell.form \in {"dict", "list"} /\ Ok(DictToEvidences(cell.data, reads))
      /\ GetEvidences = DictToEvidences(cell.data, reads)
  BY Loads DEF GetEvidences, TypeOK
<1>2. /\ EvidenceData(cell.data)
      /\ Essence(cell.data) = origin["cell"]
  BY <1>1 DEF EvidenceInv
<1>3. reads \in Nat
  BY RecordsAssumption DEF TypeOK
<1> QED
  BY <1>1, <1>2, <1>3, EvidenceRead

LEMMA LegacyLoaded ==
    ASSUME TypeOK, EvidenceInv, Ok(GetLegacy), GetLegacy.value # None
    PROVE  EvidenceData(GetLegacy.value) /\ Essence(GetLegacy.value) = origin["cell"]
<1>1. cell.form = "dict" /\ GetLegacy = LegacyOf(cell.data, reads)
  BY DEF GetLegacy, Ok, Returned, Raised
<1>2. EvidenceData(cell.data) /\ Essence(cell.data) = origin["cell"]
  BY <1>1 DEF EvidenceInv
<1>3. CASE IsLegacy(cell.data)
  <2>1. GetLegacy.value = Normalized(cell.data)
    BY <1>1, <1>3 DEF LegacyOf, Returned
  <2> QED
    BY <1>2, <1>3, <2>1, NormalizedWritten
<1>4. CASE ~IsLegacy(cell.data)
  <2> DEFINE e == DictToEvidences(cell.data, reads)
  <2>1. Ok(e) /\ GetLegacy.value = ToLegacy(e.value)
    BY <1>1, <1>4 DEF LegacyOf, Ok, Returned
  <2>2. reads \in Nat
    BY RecordsAssumption DEF TypeOK
  <2>3. EvidencesObject(e.value) /\ Essence(e.value) = Essence(cell.data)
    BY <1>2, <2>1, <2>2, EvidenceRead
  <2> HIDE DEF e
  <2> QED
    BY <1>2, <2>1, <2>3, LegacyWritten
<1> QED
  BY <1>3, <1>4

LEMMA EvidenceHeld ==
    ASSUME TypeOK, EvidenceInv, NEW r, NEW old \in BOOLEAN, Holds(r, old),
           Ok(r) /\ r.value # None =>
              /\ EvidenceData(r.value) /\ Essence(r.value) = origin["cell"]
              /\ ~old => EvidencesObject(r.value)
    PROVE  EvidenceInv'
<1>1. UNCHANGED <<cell, saved>> /\ origin'["cell"] = origin["cell"]
  BY DEF Holds, Move, TypeOK, Places
<1>2. copy' # None => /\ EvidenceData(copy') /\ Essence(copy') = origin'["copy"]
                      /\ ~legacy' => EvidencesObject(copy')
  <2>1. CASE Ok(r) /\ r.value # None
    <3>1. copy' = r.value /\ legacy' = old /\ origin'["copy"] = origin["cell"]
      BY <2>1 DEF Holds, Move, TypeOK, Places
    <3> QED
      BY <2>1, <3>1
  <2>2. CASE ~(Ok(r) /\ r.value # None)
    <3>1. UNCHANGED <<copy, legacy, origin>>
      BY <2>2 DEF Holds
    <3> QED
      BY <3>1 DEF EvidenceInv
  <2> QED
    BY <2>1, <2>2
<1> QED
  BY <1>1, <1>2 DEF EvidenceInv

LEMMA EvidenceStep ==
    ASSUME Inv, model = "evidences", Next
    PROVE  EvidenceInv'
<1>1. TypeOK /\ EvidenceInv
  BY DEF Inv
<1>2. DOMAIN origin = Places
  BY <1>1 DEF TypeOK
<1>3. CASE Written
  <2>1. UNCHANGED <<copy, legacy>> /\ saved' = None
    BY <1>3 DEF Written
  <2>2. ASSUME NEW i \in Inputs[model],
               cell' \in {Dict(i.data), List(i.data)},
               origin' = [origin EXCEPT !["cell"] = i.of]
        PROVE  EvidenceInv'
    <3>1. EvidenceData(i.data) /\ i.of = Essence(i.data)
      BY RecordsAssumption
    <3>2. cell'.data = i.data
      BY <2>2 DEF Dict, List
    <3>3. origin'["cell"] = i.of /\ origin'["copy"] = origin["copy"]
      BY <1>2, <2>2 DEF Places
    <3> QED
      BY <1>1, <2>1, <2>2, <3>1, <3>2, <3>3 DEF EvidenceInv
  <2>3. ASSUME cell' \in {Nothing, EmptyList, Other}, UNCHANGED origin
        PROVE  EvidenceInv'
    <3>1. cell'.form \notin {"dict", "list"}
      BY <2>3 DEF Nothing, EmptyList, Other
    <3> QED
      BY <1>1, <2>1, <2>3, <3>1 DEF EvidenceInv
  <2> QED
    BY <1>3, <2>2, <2>3 DEF Written
<1>4. CASE Load
  <2>1. Holds(GetEvidences, FALSE) \/ Holds(GetLegacy, TRUE)
    BY <1>4 DEF Load
  <2>2. CASE Holds(GetEvidences, FALSE)
    <3>1. Ok(GetEvidences) /\ GetEvidences.value # None =>
            EvidencesObject(GetEvidences.value) /\ EvidenceData(GetEvidences.value)
            /\ Essence(GetEvidences.value) = origin["cell"]
      BY <1>1, EvidenceLoaded, ObjectIsData
    <3> QED
      BY <1>1, <2>2, <3>1, EvidenceHeld
  <2>3. CASE Holds(GetLegacy, TRUE)
    BY <1>1, <2>3, LegacyLoaded, EvidenceHeld
  <2> QED
    BY <2>1, <2>2, <2>3
<1>5. CASE Save
  <2>1. /\ copy # None /\ cell' = Dict(copy) /\ UNCHANGED <<copy, legacy>>
        /\ saved' = IF legacy THEN None ELSE copy
    BY <1>5 DEF Save, Payload, SaveModel
  <2>2. origin'["cell"] = origin["copy"] /\ origin'["copy"] = origin["copy"]
    BY <1>2, <1>5 DEF Save, Move, Places
  <2>3. cell'.form = "dict" /\ cell'.data = copy
    BY <2>1 DEF Dict
  <2>4. /\ EvidenceData(copy) /\ Essence(copy) = origin["copy"]
        /\ ~legacy => EvidencesObject(copy)
    BY <1>1, <2>1 DEF EvidenceInv
  <2> QED
    BY <2>1, <2>2, <2>3, <2>4 DEF EvidenceInv
<1>6. ~FromRedis /\ ~SetPersonXml /\ ~WritePersonXml
  BY DEF FromRedis, SetPersonXml, WritePersonXml
<1> QED
  BY <1>3, <1>4, <1>5, <1>6 DEF Next

(* A request that was read has all keys, and is read back as it is.        *)
LEMMA RequestRead ==
    /\ \A d : Ok(ToRequest(d)) => IsRequest(ToRequest(d).value)
    /\ \A r : IsRequest(r) => ToRequest(r) = Returned(r)
<1>1. ASSUME NEW d, Ok(ToRequest(d)) PROVE IsRequest(ToRequest(d).value)
  <2> DEFINE v == [k \in RequestKeys |-> Get(d, k, None)]
  <2>1. ToRequest(d) = Returned(v)
    BY <1>1 DEF ToRequest, Ok, Raised
  <2>2. v = [k \in RequestKeys |-> v[k]]
    OBVIOUS
  <2> HIDE DEF v
  <2> QED
    BY <2>1, <2>2 DEF IsRequest, Returned
<1>2. ASSUME NEW r, IsRequest(r) PROVE ToRequest(r) = Returned(r)
  <2>1. DOMAIN r = RequestKeys /\ r = [k \in RequestKeys |-> r[k]]
    BY <1>2 DEF IsRequest
  <2>2. Required \subseteq DOMAIN r
    BY <2>1 DEF Required, RequestKeys
  <2>3. [k \in RequestKeys |-> Get(r, k, None)] = [k \in RequestKeys |-> r[k]]
    BY <2>1 DEF Get
  <2> QED
    BY <2>1, <2>2, <2>3 DEF ToRequest
<1> QED
  BY <1>1, <1>2

LEMMA RequestStep ==
    ASSUME Inv, model = "request", Next
    PROVE  RequestInv'
<1>1. TypeOK /\ RequestInv /\ ~legacy
  BY DEF Inv, TypeOK
<1>2. CASE Written
  <2>1. copy' = copy /\ saved' = None
    BY <1>2 DEF Written
  <2> QED
    BY <1>1, <2>1 DEF RequestInv, IsRequest
<1>3. CASE Load
  <2>1. Holds(GetRequest, FALSE) /\ UNCHANGED <<cell, saved>>
    BY <1>3 DEF Load, Holds
  <2>2. ASSUME Ok(GetRequest), GetRequest.value # None
        PROVE  IsRequest(GetRequest.value)
    <3>1. Ok(ToRequest(cell.data)) /\ GetRequest = ToRequest(cell.data)
      BY <1>1, <2>2, Loads DEF GetRequest, TypeOK
    <3> QED
      BY <3>1, RequestRead
  <2>3. copy' # None => IsRequest(copy')
    BY <1>1, <2>1, <2>2 DEF Holds, RequestInv
  <2> QED
    BY <1>1, <2>1, <2>3 DEF RequestInv, IsRequest
<1>4. CASE Save
  <2>1. /\ cell' \in {Dict(copy), List(copy)} /\ saved' = copy /\ copy' = copy
        /\ copy # None
    BY <1>1, <1>4 DEF Save, Payload, SaveModel
  <2> QED
    BY <1>1, <2>1 DEF RequestInv, IsRequest
<1>5. ~FromRedis /\ ~SetPersonXml /\ ~WritePersonXml
  BY DEF FromRedis, SetPersonXml, WritePersonXml
<1> QED
  BY <1>2, <1>3, <1>4, <1>5 DEF Next

LEMMA TypesStep ==
    ASSUME Inv, Next, model' = "person" => PersonInv', model' = "request" => RequestInv'
    PROVE  TypeOK'
<1>1. TypeOK
  BY DEF Inv
<1>2. model' = model /\ model \in Models
  BY <1>1 DEF Next, Written, Load, FromRedis, Save, SetPersonXml, WritePersonXml,
              Holds, TypeOK
<1>3. cell'.form \in {"none", "dict", "list", "empty", "other"}
  <2>1. CASE Written
    BY <2>1 DEF Written, Dict, List, Nothing, EmptyList, Other
  <2>2. CASE Save
    <3>1. \E as_list \in BOOLEAN : cell' = SaveModel(Payload, as_list)
      BY <2>2 DEF Save
    <3> QED
      BY <3>1 DEF SaveModel, Dict, List
  <2>3. CASE cell' = cell
    BY <1>1, <2>3 DEF TypeOK
  <2> QED
    BY <2>1, <2>2, <2>3
       DEF Next, Load, FromRedis, SetPersonXml, WritePersonXml, Holds
<1>4. legacy' \in BOOLEAN /\ (legacy' => model' = "evidences")
  <2>1. CASE Load
    <3>1. CASE legacy' = legacy
      BY <1>1, <1>2, <3>1 DEF TypeOK
    <3>2. CASE legacy' = FALSE
      BY <3>2
    <3>3. CASE legacy' = TRUE /\ model = "evidences"
      BY <1>2, <3>3
    <3> QED
      BY <2>1, <3>1, <3>2, <3>3 DEF Load, Holds
  <2>2. CASE FromRedis
    BY <1>1, <1>2, <2>2 DEF FromRedis, Holds, TypeOK
  <2>3. CASE legacy' = legacy
    BY <1>1, <1>2, <2>3 DEF TypeOK
  <2> QED
    BY <2>1, <2>2, <2>3 DEF Next, Written, Save, SetPersonXml, WritePersonXml
<1>5. model' = "person" => DOMAIN copy' = Fields
  BY DEF PersonInv, PersonObject
<1>6. model' = "request" => copy' = None \/ DOMAIN copy' = RequestKeys
  BY DEF RequestInv, IsRequest
<1>7. DOMAIN origin' = Places
  <2>1. DOMAIN origin = Places
    BY <1>1 DEF TypeOK
  <2> QED
    BY <2>1 DEF Next, Written, Load, FromRedis, Save, SetPersonXml,
                WritePersonXml, Holds, Move
<1>8. reads' \in 0..MaxReads
  <2>1. reads' = reads \/ (reads < MaxReads /\ reads' = reads + 1)
    BY DEF Next, Written, Load, FromRedis, Save, SetPersonXml, WritePersonXml, Holds
  <2> QED
    BY <1>1, <2>1, RecordsAssumption DEF TypeOK
<1> QED
  BY <1>2, <1>3, <1>4, <1>5, <1>6, <1>7, <1>8 DEF TypeOK

LEMMA InvStep == Inv /\ [Next]_vars => Inv'
<1> SUFFICES ASSUME Inv, [Next]_vars PROVE Inv'
  OBVIOUS
<1>1. CASE Next
  <2>1. model' = model
    BY <1>1 DEF Next, Written, Load, FromRedis, Save, SetPersonXml, WritePersonXml,
                Holds
  <2>2. model' = "person" => PersonInv'
    BY <1>1, <2>1, PersonStep
  <2>3. model' = "evidences" => EvidenceInv'
    BY <1>1, <2>1, EvidenceStep
  <2>4. model' = "request" => RequestInv'
    BY <1>1, <2>1, RequestStep
  <2>5. TypeOK'
    BY <1>1, <2>2, <2>4, TypesStep
  <2> QED
    BY <2>2, <2>3, <2>4, <2>5 DEF Inv
<1>2. CASE UNCHANGED vars
  BY <1>2 DEF vars, Inv, TypeOK, PersonInv, EvidenceInv, RequestInv, Known, IsRequest
<1> QED
  BY <1>1, <1>2

LEMMA Invariance == Spec => []Inv
BY InitInv, InvStep, PTL DEF Spec

(* The types of the record and of the object the application holds.        *)
THEOREM RecordsTypes == Spec => []TypeOK
<1>1. Inv => TypeOK
  BY DEF Inv
<1> QED
  BY <1>1, Invariance, PTL

(* A person's data is that of one person, through Redis and through XML,   *)
(* unless the xml setter failed half-way.                                  *)
THEOREM OnePersonAlways == Spec => []OnePerson
<1>1. Inv => OnePerson
  BY DEF Inv, PersonInv, OnePerson, Tells, Known
<1> QED
  BY <1>1, Invariance, PTL

(* What the library saved, it loads again.                                 *)
THEOREM SavedComesBackAlways == Spec => []SavedComesBack
<1>1. Inv => SavedComesBack
  <2> SUFFICES ASSUME Inv, saved # None PROVE SavedComesBack
    BY DEF SavedComesBack
  <2>1. model \in Models /\ reads \in Nat
    BY RecordsAssumption DEF Inv, TypeOK
  <2>2. CASE model = "person"
    <3> DEFINE d == LegacyDict(saved, Fields)
    <3>1. PersonObject(saved) /\ cell = Dict(d)
      BY <2>2 DEF Inv, PersonInv
    <3>2. SetFromDict(d) = Returned(Restored(saved))
      BY <3>1, RoundTrip
    <3>3. cell.form = "dict" /\ cell.data = d
      BY <3>1 DEF Dict
    <3> HIDE DEF d
    <3>4. GetPerson = Returned(Restored(saved))
      <4>1. GetPerson = LoadModel(cell, Returned(Restored(saved)), FALSE)
        BY <3>2, <3>3 DEF GetPerson
      <4> QED
        BY <3>3, <4>1 DEF LoadModel, Returned
    <3> QED
      BY <2>2, <3>4 DEF SavedComesBack
  <2>3. CASE model = "evidences"
    <3>1. EvidencesObject(saved) /\ cell = Dict(saved)
      BY <2>3 DEF Inv, EvidenceInv
    <3>2. DictToEvidences(saved, reads) = Returned(saved)
      BY <2>1, <3>1, EvidenceReadBack
    <3>3. cell.form = "dict" /\ cell.data = saved
      BY <3>1 DEF Dict
    <3>4. GetEvidences = Returned(saved)
      <4>1. GetEvidences = LoadModel(cell, Returned(saved), TRUE)
        BY <3>2, <3>3 DEF GetEvidences
      <4> QED
        BY <3>3, <4>1 DEF LoadModel, Returned
    <3> QED
      BY <2>3, <3>4 DEF SavedComesBack
  <2>4. CASE model = "request"
    <3>1. IsRequest(saved) /\ cell \in {Dict(saved), List(saved)}
      BY <2>4 DEF Inv, RequestInv
    <3>2. ToRequest(saved) = Returned(saved)
      BY <3>1, RequestRead
    <3>3. cell.form \in {"dict", "list"} /\ cell.data = saved
      BY <3>1 DEF Dict, List
    <3>4. GetRequest = Returned(saved)
      <4>1. GetRequest = LoadModel(cell, Returned(saved), FALSE)
        BY <3>2, <3>3 DEF GetRequest
      <4> QED
        BY <3>3, <4>1 DEF LoadModel, Returned
    <3> QED
      BY <2>4, <3>4 DEF SavedComesBack
  <2> QED
    BY <2>1, <2>2, <2>3, <2>4 DEF Models
<1> QED
  BY <1>1, Invariance, PTL

(* Whoever reads evidence, with either reader, reads the main documents it *)
(* was first stored with.                                                  *)
THEOREM EvidenceKeptAlways == Spec => []EvidenceKept
<1>1. Inv => EvidenceKept
  BY EvidenceLoaded, LegacyLoaded DEF Inv, EvidenceKept, Keeps
<1> QED
  BY <1>1, Invariance, PTL

(* A field that is not allowed has no influence on what a person shows.    *)
THEOREM HiddenStaysHiddenAlways == Spec => []HiddenStaysHidden
<1>1. Inv => HiddenStaysHidden
  BY ShownOnlyAllowed DEF HiddenStaysHidden
<1> QED
  BY <1>1, Invariance, PTL

(* A dictionary that both readers understand is the new generation's, or   *)
(* an old one without documents and without texts.                         *)
LEMMA ReadTwice ==
    ASSUME NEW d, EvidenceData(d), NEW n \in Nat, Ok(DictToEvidences(d, n)), IsLegacy(d)
    PROVE  LET l == ToLegacy(DictToEvidences(d, n).value)
           IN  Normalized(d) = [l EXCEPT !.exaption = Normalized(d).exaption]
<1> DEFINE packages == Get(d, "evidences", <<>>)
           preview == Get(d, "PreviewDescription", <<>>)
           e == DictToEvidences(d, n).value
<1>1. /\ Faults(d) = {}
      /\ \A x \in ToSet(preview) : "lang" \in DOMAIN x
      /\ \A p \in ToSet(packages) : "RegistryPackage" \in DOMAIN p
  BY NoFaults
<1>2. "title" \in DOMAIN d
  BY <1>1 DEF Faults
<1>3. "evidences" \in DOMAIN d /\ packages = d.evidences
  BY DEF IsLegacy, Get
<1>4. IsList(packages) /\ IsList(preview)
  BY DEF EvidenceData
<1>5. packages = <<>>
  <2>1. SUFFICES ASSUME packages # <<>> PROVE FALSE
    OBVIOUS
  <2>2. "RegistryPackage" \notin DOMAIN packages[1]
    BY <1>3, <2>1 DEF IsLegacy
  <2>3. packages[1] \in ToSet(packages)
    BY <1>4, <2>1, Lists DEF ToSet
  <2> QED
    BY <1>1, <2>2, <2>3
<1>6. "exaption" \in DOMAIN d
  BY <1>3, <1>5 DEF IsLegacy
<1>7. preview = <<>>
  <2>1. ToSet(preview) = {}
    BY <1>1, <1>3, <1>5, <1>6 DEF EvidenceData
  <2> QED
    BY <1>4, <2>1, Lists
<1>8. /\ e.title = d.title /\ e.preview = Get(d, "preview", TRUE)
      /\ e.PreviewDescription = <<>>
      /\ e.evidences = [i \in DOMAIN packages |-> ReadPackage(d.evidences[i], i, n)]
  BY <1>1, <1>7 DEF DictToEvidences, Returned
<1> HIDE DEF e
<1> DEFINE items == [i \in DOMAIN e.evidences |-> LegacyItems(e.evidences[i])]
           texts == [i \in DOMAIN e.PreviewDescription |->
                        LET x == e.PreviewDescription[i] IN [l \in {x.lang} |-> x.value]]
<1>9. \A t : DOMAIN t = DOMAIN <<>> /\ t = [i \in DOMAIN <<>> |-> t[i]] => t = <<>>
  BY Lists DEF ToSet
<1>10. items = <<>> /\ texts = <<>>
  <2>1. DOMAIN e.evidences = DOMAIN <<>> /\ DOMAIN e.PreviewDescription = DOMAIN <<>>
    BY <1>5, <1>8
  <2>2. /\ DOMAIN items = DOMAIN <<>> /\ items = [i \in DOMAIN <<>> |-> items[i]]
        /\ DOMAIN texts = DOMAIN <<>> /\ texts = [i \in DOMAIN <<>> |-> texts[i]]
    BY <2>1
  <2> HIDE DEF items, texts
  <2> QED
    BY <1>9, <2>2
<1>11. FlattenSeq(<<>>) = <<>>
  <2>1. <<>> \in Seq(Seq({}))
    BY EmptySeq
  <2>2. FlattenSeq(<<>>) \in Seq({})
        /\ ToSet(FlattenSeq(<<>>)) = UNION {ToSet(s) : s \in ToSet(<<>>)}
    BY <2>1, FlattenHasAll
  <2>3. ToSet(FlattenSeq(<<>>)) = {}
    BY <2>2, Lists
  <2> QED
    BY <2>2, <2>3, Lists, SeqIsList
<1>12. ToLegacy(e) = [title |-> e.title, PreviewDescription |-> texts,
                      preview |-> e.preview, exaption |-> "",
                      evidences |-> FlattenSeq(items)]
  BY DEF ToLegacy
<1> HIDE DEF items, texts
<1>13. ToLegacy(e) = [title |-> d.title, PreviewDescription |-> <<>>,
                      preview |-> Get(d, "preview", TRUE), exaption |-> "",
                      evidences |-> <<>>]
  BY <1>8, <1>10, <1>11, <1>12
<1>14. Normalized(d) = [title |-> d.title, PreviewDescription |-> <<>>,
                        preview |-> Get(d, "preview", TRUE),
                        exaption |-> Get(d, "exaption", ""), evidences |-> <<>>]
  <2>1. Get(d, "title", "") = d.title
    BY <1>2 DEF Get
  <2> QED
    BY <1>5, <1>7, <2>1 DEF Normalized
<1>15. Normalized(d) = [ToLegacy(e) EXCEPT !.exaption = Normalized(d).exaption]
  <2>1. \E a, b, c, x, y, f :
            /\ Normalized(d) = [title |-> a, PreviewDescription |-> b, preview |-> c,
                                exaption |-> x, evidences |-> f]
            /\ ToLegacy(e) = [title |-> a, PreviewDescription |-> b, preview |-> c,
                              exaption |-> y, evidences |-> f]
    BY <1>13, <1>14
  <2> QED
    BY <2>1
<1> QED
  BY <1>15 DEF e

(* Where get_evidences_from_redis can read a dictionary, the legacy reader *)
(* can, and it returns to_legacy_evidences_dict of the same evidence, but  *)
(* for exaption.                                                           *)
THEOREM ReadersAgreeAlways == Spec => []ReadersAgree
<1>1. Inv => ReadersAgree
  <2> SUFFICES ASSUME Inv, model = "evidences", cell.form = "dict",
                      Ok(GetEvidences), GetEvidences.value # None
               PROVE  ReadersAgree
    BY DEF ReadersAgree
  <2> DEFINE d == cell.data
             e == GetEvidences.value
  <2>1. TypeOK /\ EvidenceInv
    BY DEF Inv
  <2>2. /\ cell.form = "dict" /\ EvidenceData(d)
        /\ Ok(DictToEvidences(d, reads)) /\ e = DictToEvidences(d, reads).value
    BY <2>1, EvidenceLoaded
  <2>3. reads \in Nat /\ GetLegacy = LegacyOf(d, reads)
    BY <2>1, <2>2, RecordsAssumption DEF TypeOK, GetLegacy
  <2> HIDE DEF d
  <2>4. GetLegacy = Returned([ToLegacy(e) EXCEPT !.exaption = GetLegacy.value.exaption])
    <3>1. CASE IsLegacy(d)
      <4>1. GetLegacy = Returned(Normalized(d))
        BY <2>3, <3>1 DEF LegacyOf
      <4>2. GetLegacy.value = Normalized(d)
        BY <4>1 DEF Returned
      <4> QED
        BY <2>2, <2>3, <3>1, <4>1, <4>2, ReadTwice
    <3>2. CASE ~IsLegacy(d)
      <4>1. GetLegacy = Returned(ToLegacy(e))
        BY <2>2, <2>3, <3>2 DEF LegacyOf
      <4>2. GetLegacy.value = ToLegacy(e)
        BY <4>1 DEF Returned
      <4>3. ToLegacy(e) = [ToLegacy(e) EXCEPT !.exaption = ToLegacy(e).exaption]
        BY DEF ToLegacy
      <4> QED
        BY <4>1, <4>2, <4>3
    <3> QED
      BY <3>1, <3>2
  <2> QED
    BY <2>4 DEF ReadersAgree
<1> QED
  BY <1>1, Invariance, PTL
=============================================================================

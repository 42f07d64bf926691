------------------------------- MODULE Person -------------------------------
(***************************************************************************)
(* Person and Identifier (oots_lib/models/Person.py): how a person is      *)
(* turned into a dictionary or an XML element and read back from either.   *)
(* FamilyName stands for the four names with a nonLatin attribute, Gender  *)
(* for the five plain text fields.                                         *)
(*                                                                         *)
(* Texts are abstract: some are identifiers "country/nationality/number",  *)
(* some are dates.                                                         *)
(***************************************************************************)
EXTENDS Serde

CONSTANTS
    Identifiers,  \* texts of three parts
    Texts,        \* texts of any other shape
    Numbers,      \* JSON numbers
    Dates,        \* the dates a text may stand for
    Schemes,      \* the schemeIDs that others write
    High, Eidas   \* the defaults of LevelOfAssurance and schemeID

Alias == [LevelOfAssurance   |-> "level_of_assurance",
          identifier         |-> "eidas_identifier",
          FamilyName         |-> "family_name",
          FamilyNameNonLatin |-> "family_name_non_latin",
          DateOfBirth        |-> "date_of_birth",
          Gender             |-> "gender"]

Fields == DOMAIN Alias
TextFields == {"Gender"}

\* The text of a date, and _parse_date: the date a text stands for.
Iso(d) == IF d \in Dates THEN <<"iso", d>> ELSE d
IsoTexts == {Iso(d) : d \in Dates}
ParseDate(t) == IF t \in IsoTexts THEN t[2] ELSE t

\* The identifiers a person may have.
IdentifierObjects == [value : Identifiers \cup {None}, schemeID : Schemes \cup {Eidas}]

\* Null, numbers, texts, dates and objects are told apart.
ASSUME PersonAssumption ==
    /\ None \notin Identifiers \cup Texts \cup Numbers \cup Dates \cup IsoTexts
    /\ None \notin IdentifierObjects \cup Schemes \cup {Eidas}
    /\ Identifiers \cap Texts = {} /\ (Identifiers \cup Texts) \cap Numbers = {}
    /\ High \notin Dates /\ (Identifiers \cup IsoTexts) \cap Dates = {}

\* Person()
Blank == [f \in Fields |-> IF f = "LevelOfAssurance" THEN High ELSE None]

-----------------------------------------------------------------------------
(* Identifier(value, schemeID): only a text can be split, into three parts. *)
Identifier(value, scheme) ==
    CASE value \in Identifiers \cup {None} ->
            Returned([value    |-> value,
                      schemeID |-> IF scheme = None THEN Eidas ELSE scheme])
      [] value \in Texts -> Raised("ValueError")
      [] OTHER           -> Raised("AttributeError")

IdentifierValue(p) == IF p.identifier = None THEN None ELSE p.identifier.value

(* set_from_dict: an identifier that is no dict and no text is looked for  *)
(* under its legacy name.                                                  *)
IdentifierIn(d) ==
    LET i == Get(d, "identifier", None)
        legacy == Get(d, "eidas_identifier", None)
    IN  CASE i \in Identifiers \cup Texts -> Identifier(i, Eidas)
          [] i \in Numbers \cup {None} ->
                IF legacy = None THEN Returned(None) ELSE Identifier(legacy, Eidas)
          [] OTHER -> Identifier(Get(i, "value", None), Get(i, "schemeID", Eidas))

Lookup_LegacyOnly(d, f) == Get(d, Alias[f], None)
Lookup(d, f) == IF f \in DOMAIN d THEN d[f] ELSE Get(d, Alias[f], None)

Assurance(level) == IF level = None THEN High ELSE level

IsDate(t) == t \in IsoTexts \cup {None}

SetFromDict(d) ==
    LET id == IdentifierIn(d)
    IN  CASE ~Ok(id) -> id
          [] Ok(id) /\ ~IsDate(Lookup(d, "DateOfBirth")) -> Raised("ValueError")
          [] OTHER -> Returned(
                [f \in Fields |->
                    CASE f = "identifier" -> id.value
                      [] f = "LevelOfAssurance" -> Assurance(Lookup(d, f))
                      [] f = "DateOfBirth" -> ParseDate(Lookup(d, f))
                      [] OTHER -> Lookup(d, f)])

(* The legacy property dict, and get_dict; allowed is serialization_fields. *)
LegacyDict(p, allowed) ==
    [a \in {Alias[f] : f \in allowed} |->
        LET f == CHOOSE g \in Fields : Alias[g] = a
        IN  IF f = "identifier" THEN IdentifierValue(p) ELSE Iso(p[f])]

GetDict(p, allowed) == [f \in allowed |-> Iso(p[f])]

-----------------------------------------------------------------------------
(* An element is a function on the tags of its children; each has a text   *)
(* and, in attr, its nonLatin or schemeID.                                 *)
Child(text, attr) == [text |-> text, attr |-> attr]

Nonlatin(p, allowed) ==
    IF "FamilyNameNonLatin" \in allowed THEN p.FamilyNameNonLatin ELSE None

GetElement_AnyNonLatin(p, allowed) ==
    [t \in {f \in allowed \ {"FamilyNameNonLatin"} :
                f = "identifier" => IdentifierValue(p) # None} |->
        CASE t = "identifier" -> Child(p.identifier.value, p.identifier.schemeID)
          [] t = "FamilyName" -> Child(p[t], p.FamilyNameNonLatin)
          [] OTHER -> Child(Iso(p[t]), None)]
GetElement(p, allowed) ==
    [t \in {f \in allowed \ {"FamilyNameNonLatin"} :
                f = "identifier" => IdentifierValue(p) # None} |->
        CASE t = "identifier" -> Child(p.identifier.value, p.identifier.schemeID)
          [] t = "FamilyName" -> Child(p[t], Nonlatin(p, allowed))
          [] OTHER -> Child(Iso(p[t]), None)]

(* sdg_xml: fewer children, and a name that is missing in Latin letters is *)
(* written in the others.                                                  *)
SdgXml(p, allowed) ==
    [t \in (allowed \cap {"identifier", "FamilyName", "DateOfBirth"})
              \ (IF IdentifierValue(p) = None THEN {"identifier"} ELSE {}) |->
        CASE t = "identifier" -> Child(p.identifier.value, p.identifier.schemeID)
          [] t = "FamilyName" ->
                Child(IF p[t] # None THEN p[t] ELSE Nonlatin(p, allowed), None)
          [] OTHER -> Child(Iso(p[t]), None)]

(* The xml setter assigns field after field: an identifier or a date it    *)
(* cannot read leaves the fields before it replaced.                       *)
Text(x, t) == IF t \in DOMAIN x THEN x[t].text ELSE None
Attr(x, t) == IF t \in DOMAIN x THEN x[t].attr ELSE None

SetXml(p, x) ==
    LET id == Identifier(Text(x, "identifier"), Attr(x, "identifier"))
        date == Text(x, "DateOfBirth")
        p1 == [p EXCEPT !.LevelOfAssurance = Text(x, "LevelOfAssurance")]
        p2 == [p1 EXCEPT !.identifier = id.value,
                         !.FamilyName = Text(x, "FamilyName"),
                         !.FamilyNameNonLatin = Attr(x, "FamilyName")]
        p3 == [f \in Fields |->
                  CASE f = "DateOfBirth" -> ParseDate(date)
                    [] f \in TextFields -> Text(x, f)
                    [] OTHER -> p2[f]]
    IN  CASE ~Ok(id) -> [raised |-> id.raised, value |-> p1]
          [] Ok(id) /\ ~IsDate(date) -> [raised |-> "ValueError", value |-> p2]
          [] OTHER -> Returned(p3)
=============================================================================

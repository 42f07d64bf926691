------------------------------ MODULE Records ------------------------------
(***************************************************************************)
(* The life of one record in Redis: a request, a person or the evidence of *)
(* an answer, which the gateway and applications of several generations    *)
(* write, and which an application loads into a model object and saves     *)
(* again.  A person also arrives and leaves as XML.  Records under         *)
(* different keys do not meet, so "model" says which one is followed.      *)
(*                                                                         *)
(* origin keeps, for each place, whose data was put there.                 *)
(***************************************************************************)
EXTENDS Person, Evidences

CONSTANTS
    Inputs,      \* what others store, per model: records of a dictionary
                 \* (data) and of whom or what it tells (of)
    Elements,    \* Person elements that applications receive, likewise
    Torn,        \* origin of a person that a failed XML setter left behind
    MaxReads     \* bound: readings of evidence, each may generate cids

-----------------------------------------------------------------------------
(* What others store.  A dictionary of a person has the keys of one        *)
(* generation, and tells of each field what the person has, or something   *)
(* that cannot be read: another text or a number as an identifier, another *)
(* text as a date.                                                         *)
Plain(x) == x \notin Dates

PersonObject(p) ==
    /\ p = [f \in Fields |-> p[f]]
    /\ p.identifier \in {None} \cup IdentifierObjects
    /\ p.DateOfBirth \in {None} \cup Dates
    /\ \A f \in Fields \ {"identifier", "DateOfBirth"} : Plain(p[f])

PersonData(d) ==
    /\ DOMAIN d \subseteq Fields \/ DOMAIN d \subseteq Range(Alias)
    /\ \A k \in DOMAIN d : Plain(d[k])
    /\ "identifier" \in DOMAIN d =>
          \/ d.identifier \in {None} \cup Identifiers \cup Texts \cup Numbers
          \/ Get(d.identifier, "schemeID", Eidas) \in {None, Eidas} \cup Schemes

\* What d has under either name of f.
Under(d, f) ==
    LET keys == {f, Alias[f]} \cap DOMAIN d
    IN  IF keys = {} THEN {None} ELSE {d[k] : k \in keys}

IdentifierText(i) ==
    IF i \in {None} \cup Identifiers \cup Texts \cup Numbers THEN i
    ELSE Get(i, "value", None)

\* A number under "identifier", which from_dict overlooks, tells of none.
DataOf(d, p) ==
    /\ Get(d, "identifier", None) \in Numbers => IdentifierValue(p) = None
    /\ \A i \in Under(d, "identifier") :
          IdentifierText(i) \in {IdentifierValue(p)} \cup Texts \cup Numbers
    /\ \A f \in Fields \ {"identifier", "LevelOfAssurance"} : \A v \in Under(d, f) :
          v = Iso(p[f]) \/ (f = "DateOfBirth" /\ ~IsDate(v))

ElementData(x) ==
    /\ \A t \in DOMAIN x : Plain(x[t].text)
    /\ Plain(Attr(x, "FamilyName"))
    /\ Attr(x, "identifier") \in {None, Eidas} \cup Schemes

ElementOf(x, p) ==
    /\ Text(x, "identifier") \in {IdentifierValue(p)} \cup Texts \cup Numbers
    /\ Text(x, "DateOfBirth") = Iso(p.DateOfBirth) \/ ~IsDate(Text(x, "DateOfBirth"))
    /\ Text(x, "FamilyName") = p.FamilyName
    /\ Attr(x, "FamilyName") = p.FamilyNameNonLatin
    /\ \A t \in TextFields : Text(x, t) = p[t]

(* What evidence tells the reader of the answer, in either generation of   *)
(* dictionary: the list of the main documents, each with its permit and    *)
(* cid, and the preview.                                                   *)
(* A cid that is generated anew whenever it is missing counts as none.     *)
Href(o) ==
    LET ref == Get(o, "RepositoryItemRef", <<>>)
    IN  IF ref = None THEN None ELSE Get(ref, "href", None)
Given(cid) == IF cid \in Hrefs THEN cid ELSE None

MainDocuments(item) ==
    IF "RegistryPackage" \in DOMAIN item
    THEN FlattenSeq([j \in DOMAIN item.RegistryPackage |->
            LET o == item.RegistryPackage[j]
            IN  IF o.classification = "MainEvidence"
                THEN << <<o.content, Get(item, "permit", FALSE), Given(Href(o))>> >>
                ELSE <<>>])
    ELSE << <<item.content, item.permit, Given(item.cid)>> >>

Essence(d) ==
    LET packages == Get(d, "evidences", <<>>)
    IN  [documents |-> FlattenSeq([i \in DOMAIN packages |-> MainDocuments(packages[i])]),
         preview   |-> Get(d, "preview", TRUE)]

(* Lists are lists, references are texts; a text has a language in the new *)
(* generation, and is a dictionary of one language ("lang" is none) in the *)
(* old one, whose empty list of documents comes with exaption.             *)
IsList(s) == s \in Seq(ToSet(s))

EvidenceData(d) ==
    LET packages == Get(d, "evidences", <<>>)
        preview == Get(d, "PreviewDescription", <<>>)
    IN  /\ IsList(packages) /\ IsList(preview)
        /\ \A p \in ToSet(packages) : "RegistryPackage" \in DOMAIN p =>
              /\ IsList(p.RegistryPackage)
              /\ \A o \in ToSet(p.RegistryPackage) : Href(o) \in References
        /\ \A x \in ToSet(preview) : "lang" \in DOMAIN x =>
              /\ x.lang # "lang"
              /\ "evidences" \in DOMAIN d /\ packages = <<>> => "exaption" \notin DOMAIN d

ASSUME RecordsAssumption ==
    /\ MaxReads \in Nat
    /\ \A i \in Inputs["person"] :
          PersonObject(i.of) /\ PersonData(i.data) /\ DataOf(i.data, i.of)
    /\ \A x \in Elements :
          PersonObject(x.of) /\ ElementData(x.data) /\ ElementOf(x.data, x.of)
    /\ \A i \in Inputs["evidences"] : EvidenceData(i.data) /\ i.of = Essence(i.data)

-----------------------------------------------------------------------------
VARIABLES
    model,      \* "person", "evidences" or "request"
    cell,       \* what the key holds
    copy,       \* the object the application holds
    legacy,     \* the object is the legacy dictionary of evidence
    xml,        \* the element the person was last written as
    origin,     \* of the data in "cell", "copy" and "xml"
    saved,      \* the object the library saved, while the key holds it
    reads       \* readings of evidence so far

vars == <<model, cell, copy, legacy, xml, origin, saved, reads>>

Models == {"person", "evidences", "request"}
Places == {"cell", "copy", "xml"}

RequestKeys == {"href", "MimeType", "content", "process_queue", "content2"}
Required    == {"href", "MimeType", "content"}

(* _dict_to_edm_request                                                    *)
ToRequest_AsIs(d) ==
    IF Required \subseteq DOMAIN d THEN Returned(d) ELSE Raised("ValueError")
ToRequest(d) ==
    IF Required \subseteq DOMAIN d
    THEN Returned([k \in RequestKeys |-> Get(d, k, None)])
    ELSE Raised("ValueError")

GetRequest   == LoadModel(cell, ToRequest(cell.data), FALSE)
GetPerson    == LoadModel(cell, SetFromDict(cell.data), FALSE)
GetEvidences == LoadModel(cell, DictToEvidences(cell.data, reads), TRUE)

\* get_legacy_evidences_from_redis does not go through load_model_from_redis.
GetLegacy ==
    CASE cell.form = "none" -> Returned(None)
      [] cell.form = "dict" -> LegacyOf(cell.data, reads)
      [] OTHER              -> Raised("AttributeError")

-----------------------------------------------------------------------------
TypeOK ==
    /\ model \in Models
    /\ cell.form \in {"none", "dict", "list", "empty", "other"}
    /\ legacy \in BOOLEAN /\ (legacy => model = "evidences")
    /\ model = "person" => DOMAIN copy = Fields
    /\ model = "request" => copy = None \/ DOMAIN copy = RequestKeys
    /\ DOMAIN origin = Places
    /\ reads \in 0..MaxReads

Init ==
    /\ model \in Models
    /\ cell = Nothing /\ xml = None /\ saved = None /\ reads = 0
    /\ copy = IF model = "person" THEN Blank ELSE None
    /\ legacy = FALSE
    /\ origin = [p \in Places |-> None]

Move(from, to) == origin' = [origin EXCEPT ![to] = origin[from]]

(* Others write the key, in the old format or the new one, or spoil it; or *)
(* its TTL runs out.                                                       *)
Written ==
    /\ \/ \E i \in Inputs[model] :
             /\ cell' \in {Dict(i.data), List(i.data)}
             /\ origin' = [origin EXCEPT !["cell"] = i.of]
       \/ cell' \in {Nothing, EmptyList, Other} /\ UNCHANGED origin
    /\ saved' = None
    /\ UNCHANGED <<model, copy, legacy, xml, reads>>

(* The application gets an object, or keeps the one it has when the key is *)
(* empty and when loading raises.                                          *)
Holds(result, isLegacy) ==
    /\ IF Ok(result) /\ result.value # None
       THEN copy' = result.value /\ legacy' = isLegacy /\ Move("cell", "copy")
       ELSE UNCHANGED <<copy, legacy, origin>>
    /\ UNCHANGED <<model, cell, xml, saved>>

Load ==
    \/ model = "request" /\ Holds(GetRequest, FALSE) /\ UNCHANGED reads
    \/ model = "person" /\ Holds(GetPerson, FALSE) /\ UNCHANGED reads
    \/ /\ model = "evidences" /\ reads < MaxReads /\ reads' = reads + 1
       /\ Holds(GetEvidences, FALSE) \/ Holds(GetLegacy, TRUE)

(* Person.from_redis replaces the fields of the object by those of the     *)
(* legacy dictionary of the person that was read.                          *)
FromRedis ==
    /\ model = "person"
    /\ Holds(IF Ok(GetPerson) /\ GetPerson.value # None
             THEN SetFromDict(LegacyDict(GetPerson.value, Fields))
             ELSE GetPerson, FALSE)
    /\ UNCHANGED reads

(* save_edm_request_to_redis, save_person_to_redis, save_evidences_to_redis; *)
(* a legacy dictionary is stored by the application that made it.          *)
Payload == IF model = "person" THEN LegacyDict(copy, Fields) ELSE copy

Save ==
    /\ copy # None
    /\ \E as_list \in (IF model = "request" THEN BOOLEAN ELSE {FALSE}) :
          cell' = SaveModel(Payload, as_list)
    /\ saved' = IF legacy THEN None ELSE copy
    /\ Move("copy", "cell")
    /\ UNCHANGED <<model, copy, legacy, xml, reads>>

(* The xml setter, given an element that arrived or one the library wrote. *)
SetPersonXml ==
    /\ model = "person"
    /\ \E x \in Elements \cup
                (IF xml = None THEN {} ELSE {[of |-> origin["xml"], data |-> xml]}) :
          LET after == SetXml(copy, x.data)
          IN  /\ copy' = after.value
              /\ origin' = [origin EXCEPT !["copy"] =
                              IF Ok(after) \/ x.of = @ THEN x.of ELSE Torn]
    /\ UNCHANGED <<model, cell, legacy, xml, saved, reads>>

WritePersonXml ==
    /\ model = "person"
    /\ xml' = GetElement(copy, Fields)
    /\ Move("copy", "xml")
    /\ UNCHANGED <<model, cell, copy, legacy, saved, reads>>

Next == Written \/ Load \/ FromRedis \/ Save \/ SetPersonXml \/ WritePersonXml

Spec == Init /\ [][Next]_vars

-----------------------------------------------------------------------------
(* A person's data is that of one person, however often it went through    *)
(* Redis and XML and in whichever generation of dictionary: nothing is     *)
(* lost of what the origin told and nothing comes from somebody else, even *)
(* if a load failed; only the xml setter, when it raises, mixes two.       *)
OnePerson ==
    model = "person" /\ origin["copy"] \notin {None, Torn} =>
        /\ IdentifierValue(copy) = IdentifierValue(origin["copy"])
        /\ \A f \in Fields \ {"identifier", "LevelOfAssurance"} :
              copy[f] = origin["copy"][f]

(* What the library saved, it loads again: an equal request, equal         *)
(* evidence, and a person equal but for the two things the dictionary of   *)
(* save_person_to_redis cannot tell, its schemeID and that it has no       *)
(* LevelOfAssurance.                                                       *)
Restored(p) ==
    [p EXCEPT !.LevelOfAssurance = Assurance(p.LevelOfAssurance),
              !.identifier = IF IdentifierValue(p) = None THEN None
                             ELSE [value |-> p.identifier.value, schemeID |-> Eidas]]

SavedComesBack ==
    saved # None =>
        CASE model = "person"    -> GetPerson = Returned(Restored(saved))
          [] model = "evidences" -> GetEvidences = Returned(saved)
          [] model = "request"   -> GetRequest = Returned(saved)

(* Whoever reads evidence, with either reader and after any sequence of    *)
(* reading and saving back in either generation, reads the main documents  *)
(* it was first stored with, in their order and each with its own permit,  *)
(* or gets an exception; never less, none twice, never an annex.           *)
Keeps(read) ==
    Ok(read) /\ read.value # None => Essence(read.value) = origin["cell"]

EvidenceKept ==
    model = "evidences" => Keeps(GetEvidences) /\ Keeps(GetLegacy)

(* Where get_evidences_from_redis can read a dictionary, the legacy reader *)
(* can, and it returns to_legacy_evidences_dict of the same evidence; only *)
(* exaption, which Evidences does not know, may be another.  A dictionary  *)
(* inside a list is read by the first alone.                               *)
ReadersAgree ==
    model = "evidences" /\ cell.form = "dict"
    /\ Ok(GetEvidences) /\ GetEvidences.value # None
        => LET old == GetLegacy
           IN  old = Returned([ToLegacy(GetEvidences.value) EXCEPT
                                    !.exaption = old.value.exaption])

(* serialization_fields hides a field everywhere: whichever fields are     *)
(* allowed, both dictionaries and both elements are those of the person    *)
(* without the others, so that nothing in them depends on a hidden field.  *)
Exported(p, allowed) ==
    <<LegacyDict(p, allowed), GetDict(p, allowed), GetElement(p, allowed), SdgXml(p, allowed)>>

Only(p, allowed) == [f \in Fields |-> IF f \in allowed THEN p[f] ELSE None]

HiddenStaysHidden ==
    model = "person" =>
        \A allowed \in SUBSET Fields :
            Exported(copy, allowed) = Exported(Only(copy, allowed), allowed)
=============================================================================

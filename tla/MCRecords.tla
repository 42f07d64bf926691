----------------------------- MODULE MCRecords -----------------------------
(* Instances of Records for TLC. *)
EXTENDS Records

CONSTANTS id1, id2, badId, number, d1, d2, badDate, n1, n2, l1, g2, low, other,
          c1, c2, a1, h1

\* Two people who differ in everything; the second has no name in other
\* letters, no LevelOfAssurance and another scheme.
Anna == [LevelOfAssurance |-> low, identifier |-> [value |-> id1, schemeID |-> Eidas],
         FamilyName |-> n1, FamilyNameNonLatin |-> l1, DateOfBirth |-> d1,
         Gender |-> None]
Borys == [LevelOfAssurance |-> None, identifier |-> [value |-> id2, schemeID |-> other],
          FamilyName |-> n2, FamilyNameNonLatin |-> None, DateOfBirth |-> d2,
          Gender |-> g2]
Nameless == [Anna EXCEPT !.FamilyName = None, !.identifier = [value |-> None, schemeID |-> Eidas]]

From(p, data) == [of |-> p, data |-> data]

PersonInputs ==
    {From(p, LegacyDict(p, Fields)) : p \in {Anna, Borys, Nameless}}
    \cup {From(p, GetDict(p, Fields)) : p \in {Anna, Borys}}
    \cup {From([Borys EXCEPT !.Gender = None], GetDict(Borys, Fields \ {"Gender"})),
          From(Borys, [LegacyDict(Borys, Fields) EXCEPT !.date_of_birth = badDate]),
          From(Borys, [LegacyDict(Borys, Fields) EXCEPT !.eidas_identifier = badId]),
          From(Borys, [LegacyDict(Borys, Fields) EXCEPT !.eidas_identifier = number]),
          From([Anna EXCEPT !.identifier = None], [GetDict(Anna, Fields) EXCEPT !.identifier = number])}

MCElements ==
    {From(p, GetElement(p, Fields)) : p \in {Anna, Borys}}
    \cup {From(Borys, [GetElement(Borys, Fields) EXCEPT !.DateOfBirth.text = badDate]),
          From(Anna, [GetElement(Anna, Fields) EXCEPT !.identifier.text = badId])}

\* Two packages: main documents around an annex, and one that has no href.
Object(node, content) ==
    [classification |-> node, RepositoryItemRef |-> [href |-> h1], content |-> content]
Package1 == [RegistryPackage |-> <<Object("MainEvidence", c1), Object("Annex", a1),
                                   Object("MainEvidence", c2)>>,
             permit |-> TRUE]
Package2(ref) ==
    [RegistryPackage |-> <<[classification |-> "MainEvidence", RepositoryItemRef |-> ref,
                            content |-> c2]>>]
Ukrainian == <<[lang |-> "UA", value |-> "t"]>>

New(packages) == [title |-> "t", PreviewDescription |-> Ukrainian, preview |-> FALSE,
                  evidences |-> packages]
Old(items) == [title |-> "t", PreviewDescription |-> <<"UA" :> "t">>, preview |-> FALSE,
               exaption |-> "", evidences |-> items]
Bare(items) == [title |-> "t", evidences |-> items]
OldItem == [cid |-> h1, content |-> c1, permit |-> TRUE]

EvidenceInputs ==
    {From(Essence(d), d) : d \in
        {New(<<Package1, Package2([href |-> h1])>>), New(<<Package1, Package2(<<>>)>>),
         New(<<>>), Old(<<OldItem>>), Old(<<>>),
         [Old(<<>>) EXCEPT !.PreviewDescription = <<>>, !.exaption = "e"],
         Bare(<<Package1>>), Bare(<<OldItem>>),
         [evidences |-> <<Package1>>], New(<<Package2(None)>>),
         New(<<[RegistryPackage |-> <<Object("Other", c1)>>]>>)}}

Edm == [href |-> "h", MimeType |-> "m", content |-> "c"]
RequestInputs == {From(None, Edm), From(None, [href |-> "h", content |-> "c"]),
                  From(None, Edm @@ "process_queue" :> "q")}

MCInputs == [person |-> PersonInputs, evidences |-> EvidenceInputs,
             request |-> RequestInputs]
=============================================================================

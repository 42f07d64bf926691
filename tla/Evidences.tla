----------------------------- MODULE Evidences -----------------------------
(***************************************************************************)
(* Evidences (oots_lib/models/ResponseEvidences.py): the evidence of an    *)
(* answer, the dictionary it is stored as, and the legacy dictionary that  *)
(* older applications store and read.  content stands for the required     *)
(* fields of an object; ids are left out, they behave as href does.        *)
(*                                                                         *)
(* The dictionary of a dataclass (asdict) has its fields as keys, so both  *)
(* are written alike.                                                      *)
(***************************************************************************)
EXTENDS Serde, SequencesExt, Naturals

CONSTANTS
    Nodes,      \* ALLOWED_CLASSIFICATION_NODES
    Hrefs       \* the references that others give to attachments

(* _generate_cid: a new one per reading (n), package and object.           *)
Cid(n, i, j) == <<"cid", n, i, j>>
Cids == {"cid"} \X Nat \X Nat \X Nat
References == {None} \cup Hrefs \cup Cids

\* Generated references are new, and a reference is not null.
ASSUME EvidencesAssumption ==
    /\ \A h \in Hrefs \cup {None} : h \notin Cids
    /\ None \notin Hrefs
    /\ None \notin [href : References]

-----------------------------------------------------------------------------
(* What is wrong with an object of a package, in the order it is looked at. *)
ObjectFault(o) ==
    CASE "classification" \notin DOMAIN o -> "KeyError"
      [] o.classification \notin Nodes    -> "ValueError"
      [] Get(o, "RepositoryItemRef", <<>>) = None -> "AttributeError"
      [] "content" \notin DOMAIN o        -> "KeyError"
      [] OTHER -> "nothing"

PackageFaults(p) ==
    IF "RegistryPackage" \in DOMAIN p
    THEN {ObjectFault(o) : o \in ToSet(p.RegistryPackage)} \ {"nothing"}
    ELSE {"KeyError"}

Faults(d) ==
    (IF \A x \in ToSet(Get(d, "PreviewDescription", <<>>)) : "lang" \in DOMAIN x
     THEN {} ELSE {"KeyError"})
    \cup (UNION {PackageFaults(p) : p \in ToSet(Get(d, "evidences", <<>>))})
    \cup (IF "title" \in DOMAIN d THEN {} ELSE {"KeyError"})

(* _dict_to_evidences; of several faults any may be the one that shows.    *)
ReadObject_NewCid(o, cid) ==
    [classification    |-> o.classification,
     RepositoryItemRef |-> [href |-> cid],
     content           |-> o.content]
ReadObject(o, cid) ==
    [classification    |-> o.classification,
     RepositoryItemRef |->
        [href |-> Get(Get(o, "RepositoryItemRef", <<>>), "href", cid)],
     content           |-> o.content]

ReadPackage(p, i, n) ==
    [RegistryPackage |-> [j \in DOMAIN p.RegistryPackage |->
                            ReadObject(p.RegistryPackage[j], Cid(n, i, j))],
     permit          |-> Get(p, "permit", FALSE)]

DictToEvidences(d, n) ==
    IF Faults(d) # {} THEN Raised(CHOOSE x \in Faults(d) : TRUE)
    ELSE Returned(
        [title |-> d.title,
         PreviewDescription |-> Get(d, "PreviewDescription", <<>>),
         preview |-> Get(d, "preview", TRUE),
         evidences |-> [i \in DOMAIN Get(d, "evidences", <<>>) |->
                            ReadPackage(d.evidences[i], i, n)]])

-----------------------------------------------------------------------------
(* to_legacy_evidences_dict: one list of the main objects of all packages. *)
LegacyItem(o, package) ==
    [cid |-> o.RepositoryItemRef.href, content |-> o.content, permit |-> package.permit]
LegacyItems_All(package) ==
    [j \in DOMAIN package.RegistryPackage |->
        LegacyItem(package.RegistryPackage[j], package)]
LegacyItems(package) ==
    FlattenSeq([j \in DOMAIN package.RegistryPackage |->
        LET o == package.RegistryPackage[j]
        IN  IF o.classification = "MainEvidence"
            THEN <<LegacyItem(o, package)>> ELSE <<>>])

ToLegacy(e) ==
    [title |-> e.title,
     PreviewDescription |->
        [i \in DOMAIN e.PreviewDescription |->
            LET d == e.PreviewDescription[i] IN [l \in {d.lang} |-> d.value]],
     preview |-> e.preview,
     exaption |-> "",
     evidences |-> FlattenSeq([i \in DOMAIN e.evidences |->
                                  LegacyItems(e.evidences[i])])]

(* _is_legacy_evidences_dict: told by the first item, or without one by    *)
(* the key that only legacy dictionaries have.                             *)
IsLegacy_Empty(d) ==
    /\ "evidences" \in DOMAIN d
    /\ d.evidences # <<>> => "RegistryPackage" \notin DOMAIN d.evidences[1]
IsLegacy(d) ==
    /\ "evidences" \in DOMAIN d
    /\ IF d.evidences = <<>> THEN "exaption" \in DOMAIN d
       ELSE "RegistryPackage" \notin DOMAIN d.evidences[1]

(* _normalize_legacy_evidences_dict                                        *)
Normalized(d) ==
    [title |-> Get(d, "title", ""),
     PreviewDescription |-> Get(d, "PreviewDescription", <<>>),
     preview |-> Get(d, "preview", TRUE),
     exaption |-> Get(d, "exaption", ""),
     evidences |-> Get(d, "evidences", <<>>)]

(* get_legacy_evidences_from_redis, of a dictionary.                       *)
LegacyOf(d, n) ==
    IF IsLegacy(d) THEN Returned(Normalized(d))
    ELSE LET e == DictToEvidences(d, n)
         IN  IF Ok(e) THEN Returned(ToLegacy(e.value)) ELSE e
=============================================================================

------------------------------ MODULE Convert ------------------------------
(***************************************************************************)
(* `cmctl convert` (pkg/convert): decodes every document to the internal   *)
(* version of its kind, converts it to the output version, and prints all  *)
(* of them or nothing.  A document is followed by one of its fields.  What *)
(* the conversion functions do with the field is not the command's affair: *)
(* module Conversions has it.                                              *)
(***************************************************************************)
EXTENDS Naturals, Sequences

CONSTANTS
    DecodedField(_),     \* where the field of a document arrives in the internal version
    EncodedField(_, _)   \* and where it arrives from there in another version

\* The versions of a group in the order they are registered in: the first is the default.
CertManagerVersions == <<"v1", "v1beta1", "v1alpha3", "v1alpha2">>
ACMEVersions == <<"v1", "v1alpha2", "v1alpha3", "v1beta1">>

CertManagerKinds == {"Certificate", "CertificateRequest", "Issuer", "ClusterIssuer"}
ACMEKinds == {"Order", "Challenge"}
Kinds == CertManagerKinds \cup ACMEKinds

GroupOf(kind) == IF kind \in CertManagerKinds THEN "cert-manager.io" ELSE "acme.cert-manager.io"
VersionsOf(group) ==
    CASE group = "cert-manager.io" -> CertManagerVersions
      [] group = "acme.cert-manager.io" -> ACMEVersions
      [] OTHER -> <<>>

Document(kind, version, path, value) ==
    [kind |-> kind, version |-> version, path |-> path, value |-> value]

Carried(doc, version, arrival) ==
    Document(doc.kind, version, arrival.path,
             IF doc.value \in DOMAIN arrival.spelling THEN arrival.spelling[doc.value]
             ELSE doc.value)

\* The scheme sets the kind and the version of what it converts.
Decoded(doc) == Carried(doc, "internal", DecodedField(doc))
Encoded(doc, v) == Carried(doc, v, EncodedField(doc, v))

-----------------------------------------------------------------------------
VARIABLES
    documents,     \* what the files hold, in order; kind "foreign" is not a cert-manager one
    forceList,     \* whether more than a single file was read
    outputVersion, \* --output-version
    objects,       \* the documents in the internal version
    converted,     \* the objects in the output version
    convertStep,   \* where the command is
    output         \* what it printed

convertVars == <<documents, forceList, outputVersion, objects, converted, convertStep, output>>

Unspecified == [group |-> "", version |-> ""]
Malformed == [group |-> "a/b", version |-> "c"]
Nothing == [list |-> FALSE, items |-> <<>>]

\* What the files may hold: a kind no scheme of the command knows is "foreign".
Documents ==
    [kind : Kinds \cup {"foreign"}, version : {"v1", "v1beta1", "v1alpha3", "v1alpha2"},
     path : Seq(STRING), value : STRING]

ConvertIdle ==
    /\ objects = <<>>
    /\ converted = <<>>
    /\ convertStep = "read"
    /\ output = Nothing

ConvertInit ==
    /\ documents \in Seq(Documents)
    /\ forceList \in BOOLEAN
    /\ outputVersion \in [group : STRING, version : STRING]
    /\ ConvertIdle

ConvertFails ==
    /\ convertStep' = "error"
    /\ UNCHANGED <<documents, forceList, outputVersion, objects, converted, output>>

\* The builder decodes all the files before anything else; a kind without an internal version fails.
Infos ==
    /\ convertStep = "read"
    /\ \A i \in DOMAIN documents : documents[i].kind # "foreign"
    /\ documents # <<>>
    /\ objects' = [i \in DOMAIN documents |-> Decoded(documents[i])]
    /\ convertStep' = "version"
    /\ UNCHANGED <<documents, forceList, outputVersion, converted, output>>

InfosFail ==
    /\ convertStep = "read"
    /\ documents = <<>> \/ \E i \in DOMAIN documents : documents[i].kind = "foreign"
    /\ ConvertFails

ParseGroupVersion ==
    /\ convertStep = "version"
    /\ \/ outputVersion = Malformed /\ ConvertFails
       \/ /\ outputVersion # Malformed
          /\ convertStep' = "convert"
          /\ UNCHANGED <<documents, forceList, outputVersion, objects, converted, output>>

\* The specified version only, or those of the object's group in their order.
TargetVersions(object) ==
    IF outputVersion # Unspecified THEN <<outputVersion>>
    ELSE LET group == GroupOf(object.kind)
         IN  [i \in DOMAIN VersionsOf(group) |->
                 [group |-> group, version |-> VersionsOf(group)[i]]]

Converts(object, target) ==
    /\ target.group = GroupOf(object.kind)
    /\ \E i \in DOMAIN VersionsOf(target.group) : VersionsOf(target.group)[i] = target.version

\* Variant: an object that does not convert is left out.
SkipUnconverted ==
    /\ convertStep = "convert"
    /\ LET Can(object) == \E i \in DOMAIN TargetVersions(object) :
                              Converts(object, TargetVersions(object)[i])
           able == SelectSeq(objects, Can)
       IN  converted' = [i \in DOMAIN able |-> Encoded(able[i], TargetVersions(able[i])[1].version)]
    /\ convertStep' = "print"
    /\ UNCHANGED <<documents, forceList, outputVersion, objects, output>>

\* tryConvert for the next object: the first of the versions that it converts to.
AsVersionedObject ==
    /\ convertStep = "convert"
    /\ Len(converted) < Len(objects)
    /\ LET object == objects[Len(converted) + 1]
           versions == TargetVersions(object)
           works == {i \in DOMAIN versions : Converts(object, versions[i])}
       IN  \/ works = {} /\ ConvertFails
           \/ /\ works # {}
              /\ converted' = Append(converted, Encoded(object,
                    versions[CHOOSE i \in works : \A j \in works : i <= j].version))
              /\ UNCHANGED <<documents, forceList, outputVersion, objects, convertStep, output>>

AllConverted ==
    /\ convertStep = "convert"
    /\ Len(converted) = Len(objects)
    /\ convertStep' = "print"
    /\ UNCHANGED <<documents, forceList, outputVersion, objects, converted, output>>

\* A List never converts to a version of cert-manager: it falls back to v1.
PrintObj ==
    /\ convertStep = "print"
    /\ output' = [list |-> Len(converted) # 1 \/ forceList, items |-> converted]
    /\ convertStep' = "done"
    /\ UNCHANGED <<documents, forceList, outputVersion, objects, converted>>

ConvertNext ==
    Infos \/ InfosFail \/ ParseGroupVersion \/ AsVersionedObject \/ AllConverted \/ PrintObj

ConvertSpec == ConvertInit /\ [][ConvertNext]_convertVars

-----------------------------------------------------------------------------
(***************************************************************************)
(* All or nothing (convert.go:209-250): what is printed are all the        *)
(* documents, in their order and each of its kind, in the version that was *)
(* asked for, or in v1; and nothing is printed when one cannot be          *)
(* converted, although those before it could.                              *)
(***************************************************************************)
ConvertWhole ==
    /\ convertStep = "done" =>
         /\ Len(output.items) = Len(documents)
         /\ \A i \in DOMAIN documents :
                /\ output.items[i].kind = documents[i].kind
                /\ IF outputVersion = Unspecified THEN output.items[i].version = "v1"
                   ELSE /\ outputVersion.version = output.items[i].version
                        /\ outputVersion.group = GroupOf(documents[i].kind)
    /\ convertStep = "error" => output = Nothing
=============================================================================

---------------------------- MODULE Conversions ----------------------------
(***************************************************************************)
(* The conversion functions of pkg/convert/internal/apis: where a field of *)
(* a document is found again in another version, and how its value is      *)
(* spelled there.                                                          *)
(***************************************************************************)
EXTENDS Convert, Layouts, FiniteSets

Internal == INSTANCE SchemaInternal
V1 == INSTANCE SchemaV1
V1beta1 == INSTANCE SchemaV1beta1
V1alpha3 == INSTANCE SchemaV1alpha3
V1alpha2 == INSTANCE SchemaV1alpha2

\* What the scheme knows: layouts, generated and hand-written conversions, by version.
SharedTypes == Internal!LocalObjectReferenceTypes
Layout == [internal |-> Internal!Types, v1 |-> Internal!Types,
           v1beta1 |-> SharedTypes @@ V1beta1!Types, v1alpha3 |-> SharedTypes @@ V1alpha3!Types,
           v1alpha2 |-> SharedTypes @@ V1alpha2!Types]

Shared == Internal!LocalObjectReferenceMoves
Generated == [v1 |-> Shared @@ V1!CertManagerConversions @@ V1!ACMEConversions,
              v1beta1 |-> Shared @@ V1beta1!CertManagerConversions @@ V1beta1!ACMEConversions,
              v1alpha3 |-> Shared @@ V1alpha3!CertManagerConversions @@ V1alpha3!ACMEConversions,
              v1alpha2 |-> Shared @@ V1alpha2!CertManagerConversions @@ V1alpha2!ACMEConversions]

\* By hand.
WrittenIntoInternal == [v1 |-> <<>>, v1beta1 |-> V1beta1!ToInternal,
                        v1alpha3 |-> V1alpha3!ToInternal, v1alpha2 |-> V1alpha2!ToInternal]
WrittenFromInternal == [v1 |-> <<>>, v1beta1 |-> V1beta1!FromInternal,
                        v1alpha3 |-> V1alpha3!FromInternal, v1alpha2 |-> V1alpha2!FromInternal]

-----------------------------------------------------------------------------
Field(types, struct, name) ==
    LET i == CHOOSE i \in DOMAIN types[struct] : types[struct][i].name = name
    IN  types[struct][i]

HasField(types, struct, name) ==
    struct \in DOMAIN types /\ \E i \in DOMAIN types[struct] : types[struct][i].name = name

\* The fields of a struct that hold a value, as paths from the struct down to them.
RECURSIVE Leaves(_, _)
Leaves(types, struct) ==
    UNION {LET f == types[struct][i]
           IN  IF f.of = "value" THEN {<<f.name>>}
               ELSE {<<f.name>> \o path : path \in Leaves(types, f.of)} :
           i \in DOMAIN types[struct]}

Arrived(path, spelling) == [path |-> path, spelling |-> spelling]
Under(name, arrival) == [arrival EXCEPT !.path = <<name>> \o @]
Lost == Arrived(<<>>, Same)

\* unsafe.Pointer: the field at the same position of the other struct.
RECURSIVE ByPosition(_, _, _, _, _)
ByPosition(from, to, sf, st, path) ==
    LET i == CHOOSE i \in DOMAIN from[sf] : from[sf][i].name = Head(path)
    IN  IF st \notin DOMAIN to \/ i > Len(to[st]) THEN Lost
        ELSE Under(to[st][i].name,
                   IF Len(path) = 1 THEN Lost
                   ELSE ByPosition(from, to, from[sf][i].of, to[st][i].of, Tail(path)))

(***************************************************************************)
(* A conversion function calls the generated one and then overwrites what  *)
(* it sets by hand; the generated one copies a field, casts what it points *)
(* to, or calls the conversion of the struct it holds.                     *)
(***************************************************************************)
RECURSIVE ByName(_, _, _, _, _, _)
ByName(from, to, moves, hand, struct, path) ==
    LET name == Head(path)
        inner == Field(from, struct, name).of
    IN  IF struct \in DOMAIN hand /\ path \in DOMAIN hand[struct]
        THEN Arrived(hand[struct][path].path, hand[struct][path].spelling)
        ELSE IF ~HasField(to, struct, name) THEN Lost
        ELSE IF Len(path) = 1
        THEN IF name \in moves[struct].copied \cup moves[struct].cast \cup moves[struct].converted
             THEN Arrived(path, Same) ELSE Lost
        ELSE IF name \in moves[struct].cast
        THEN Under(name, ByPosition(from, to, inner, Field(to, struct, name).of, Tail(path)))
        ELSE IF name \in moves[struct].converted
        THEN Under(name, ByName(from, to, moves, hand, inner, Tail(path)))
        ELSE Lost

FieldIntoInternal(doc) ==
    ByName(Layout[doc.version], Layout["internal"], Generated[doc.version],
           WrittenIntoInternal[doc.version], doc.kind, doc.path)

FieldFromInternal(doc, v) ==
    ByName(Layout["internal"], Layout[v], Generated[v], WrittenFromInternal[v],
           doc.kind, doc.path)

-----------------------------------------------------------------------------
(***************************************************************************)
(* The names and spellings that changed between the versions of the API,   *)
(* in whatever version they are met: all by those of v1.                   *)
(***************************************************************************)
Renamed ==
       <<"Spec", "EmailSANs">> :> <<"Spec", "EmailAddresses">>
    @@ <<"Spec", "URISANs">> :> <<"Spec", "URIs">>
    @@ <<"Spec", "Organization">> :> <<"Spec", "Subject", "Organizations">>
    @@ <<"Spec", "KeyAlgorithm">> :> <<"Spec", "PrivateKey", "Algorithm">>
    @@ <<"Spec", "KeyEncoding">> :> <<"Spec", "PrivateKey", "Encoding">>
    @@ <<"Spec", "KeySize">> :> <<"Spec", "PrivateKey", "Size">>
    @@ <<"Spec", "CSRPEM">> :> <<"Spec", "Request">>
    @@ <<"Spec", "CSR">> :> <<"Spec", "Request">>
    @@ <<"Spec", "AuthzURL">> :> <<"Spec", "AuthorizationURL">>

Respelled ==
    "rsa" :> "RSA" @@ "ecdsa" :> "ECDSA" @@ "pkcs1" :> "PKCS1" @@ "pkcs8" :> "PKCS8"
      @@ "http-01" :> "HTTP-01" @@ "dns-01" :> "DNS-01"

MeaningOf(path) == IF path \in DOMAIN Renamed THEN Renamed[path] ELSE path
MeaningOfValue(value) == IF value \in DOMAIN Respelled THEN Respelled[value] ELSE value

KeyAlgorithms == [v1 |-> Internal!KeyAlgorithmValues, v1beta1 |-> V1beta1!KeyAlgorithmValues,
                  v1alpha3 |-> V1alpha3!KeyAlgorithmValues,
                  v1alpha2 |-> V1alpha2!KeyAlgorithmValues]
KeyEncodings == [v1 |-> Internal!KeyEncodingValues, v1beta1 |-> V1beta1!KeyEncodingValues,
                 v1alpha3 |-> V1alpha3!KeyEncodingValues,
                 v1alpha2 |-> V1alpha2!KeyEncodingValues]
ChallengeTypes == [v1 |-> Internal!ChallengeTypeValues, v1beta1 |-> V1beta1!ChallengeTypeValues,
                   v1alpha3 |-> V1alpha3!ChallengeTypeValues,
                   v1alpha2 |-> V1alpha2!ChallengeTypeValues]

\* The values a field can have in a version: only a few have values of their own.
ValuesOf(kind, version, path) ==
    LET means == MeaningOf(path)
    IN  IF kind = "Certificate" /\ means = <<"Spec", "PrivateKey", "Algorithm">>
        THEN KeyAlgorithms[version]
        ELSE IF kind = "Certificate" /\ means = <<"Spec", "PrivateKey", "Encoding">>
        THEN KeyEncodings[version]
        ELSE IF kind = "Challenge" /\ means = <<"Spec", "Type">> THEN ChallengeTypes[version]
        ELSE {"a value"}

(***************************************************************************)
(* A conversion loses no field and mixes up none: what is printed has the  *)
(* meaning it had, under a name the target version has, spelled as that    *)
(* version spells it (Ed25519, which only v1 has, stays as it is), and     *)
(* converted back it is the document again.  The casts by unsafe.Pointer   *)
(* of the generated conversions trust that both structs are laid out alike.*)
(***************************************************************************)
ConvertKeeps ==
    \A i \in DOMAIN output.items :
        LET doc == documents[i]
            out == output.items[i]
        IN  /\ out.path \in Leaves(Layout[out.version], out.kind)
            /\ MeaningOf(out.path) = MeaningOf(doc.path)
            /\ MeaningOfValue(out.value) = MeaningOfValue(doc.value)
            /\ out.value \in ValuesOf(out.kind, out.version, out.path) \cup {"Ed25519"}
            /\ Encoded(Decoded(out), doc.version) = doc
=============================================================================

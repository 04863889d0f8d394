---------------------------- MODULE ReportProofs ----------------------------
(***************************************************************************)
(* Proofs about the commands that only read: Convert, for any documents    *)
(* and whatever the conversion functions do with a field; VersionChecker,  *)
(* for any installation; Inspect, for any Secret and any certificate.      *)
(***************************************************************************)
EXTENDS Convert, VersionChecker, Inspect, FiniteSetTheorems, WellFoundedInduction, TLAPS

-----------------------------------------------------------------------------
\* What the command can make of a document it can read.
Known == {doc \in Documents : doc.kind \in Kinds}
Internals == {Decoded(doc) : doc \in Known}
Targets == {"v1", outputVersion.version}
Outputs == {Encoded(object, v) : object \in Internals, v \in Targets}

\* What may be printed for a document.
Fits(out, doc) ==
    /\ out.kind = doc.kind
    /\ IF outputVersion = Unspecified THEN out.version = "v1"
       ELSE outputVersion.version = out.version /\ outputVersion.group = GroupOf(doc.kind)

\* Behind the decoding there is one internal object for each document, and the objects
\* converted so far fit the documents at their places.
ProgressInv ==
    /\ Len(objects) = Len(documents)
    /\ \A i \in 1..Len(documents) : objects[i].kind = documents[i].kind
    /\ Len(converted) <= Len(documents)
    /\ \A i \in 1..Len(converted) : Fits(converted[i], documents[i])

ConvertInv ==
    /\ documents \in Seq(Documents)
    /\ outputVersion \in [group : STRING, version : STRING]
    /\ objects \in Seq(Internals)
    /\ converted \in Seq(Outputs)
    /\ convertStep \in {"read", "version", "convert", "print", "done", "error"}
    /\ convertStep = "read" => converted = <<>>
    /\ convertStep \in {"version", "convert", "print", "done"} => ProgressInv
    /\ convertStep \in {"print", "done"} => Len(converted) = Len(documents)
    /\ convertStep = "done" => output.items = converted
    /\ convertStep # "done" => output = Nothing

\* Sequences of other items (convert.go:214, 165).
LEMMA OtherItems ==
    ASSUME NEW S, NEW s \in Seq(S), NEW T, \A i \in 1..Len(s) : s[i] \in T
    PROVE  s \in Seq(T)
OBVIOUS

LEMMA ItemsMade ==
    ASSUME NEW T, NEW n \in Nat, NEW f, f = [i \in 1..n |-> f[i]],
           \A i \in 1..n : f[i] \in T
    PROVE  f \in Seq(T) /\ Len(f) = n
<1>1. f \in [1..n -> T]
  OBVIOUS
<1> QED
  BY <1>1

\* A conversion sets kind and version, whatever it does with the fields (convert.go:253-270).
LEMMA KindKept ==
    /\ \A doc \in Known : Decoded(doc).kind = doc.kind /\ Decoded(doc).kind \in Kinds
    /\ \A object \in Internals : object.kind \in Kinds
    /\ \A object \in Internals, v \in Targets :
           /\ Encoded(object, v) \in Outputs
           /\ Encoded(object, v).kind = object.kind
           /\ Encoded(object, v).version = v
<1>1. \A doc \in Known : Decoded(doc).kind = doc.kind /\ Decoded(doc).kind \in Kinds
  BY DEF Known, Decoded, Carried, Document
<1>2. \A object \in Internals : object.kind \in Kinds
  BY <1>1 DEF Internals
<1>3. ASSUME NEW object \in Internals, NEW v \in Targets
      PROVE  /\ Encoded(object, v) \in Outputs
             /\ Encoded(object, v).kind = object.kind
             /\ Encoded(object, v).version = v
  BY DEF Outputs, Encoded, Carried, Document
<1> QED
  BY <1>1, <1>2, <1>3

\* The versions tried for an object (convert.go:216-241): the first that works is the one
\* asked for, or v1.
LEMMA VersionChosen ==
    ASSUME NEW object \in Internals, outputVersion \in [group : STRING, version : STRING],
           NEW works, works = {i \in DOMAIN TargetVersions(object) :
                                   Converts(object, TargetVersions(object)[i])},
           works # {},
           NEW first, first = CHOOSE i \in works : \A j \in works : i <= j
    PROVE  /\ IF outputVersion = Unspecified THEN TargetVersions(object)[first].version = "v1"
              ELSE /\ outputVersion.version = TargetVersions(object)[first].version
                   /\ outputVersion.group = GroupOf(object.kind)
           /\ Converts(object, TargetVersions(object)[first])
<1>1. CASE outputVersion # Unspecified
  <2>1. TargetVersions(object) = <<outputVersion>>
    BY <1>1 DEF TargetVersions
  <2>2. works = {1} /\ Converts(object, outputVersion)
    BY <2>1
  <2>3. first = 1
    BY <2>2
  <2>4. TargetVersions(object)[first] = outputVersion
    BY ONLY <2>1, <2>3
  <2>5. outputVersion.group = GroupOf(object.kind)
    BY ONLY <2>2 DEF Converts
  <2> QED
    BY ONLY <1>1, <2>2, <2>4, <2>5
<1>2. CASE outputVersion = Unspecified
  <2> DEFINE group == GroupOf(object.kind)
  <2>1. /\ VersionsOf(group) \in {CertManagerVersions, ACMEVersions}
        /\ TargetVersions(object) = [i \in DOMAIN VersionsOf(group) |->
                                        [group |-> group, version |-> VersionsOf(group)[i]]]
    BY <1>2 DEF TargetVersions, GroupOf, VersionsOf
  <2>2. DOMAIN VersionsOf(group) = 1..4 /\ VersionsOf(group)[1] = "v1"
    BY <2>1 DEF CertManagerVersions, ACMEVersions
  <2>3. works \subseteq 1..4 /\ 1 \in works
    BY <2>1, <2>2 DEF Converts
  <2>4. Converts(object, TargetVersions(object)[1])
    BY <2>3
  <2>5. first = 1
    BY <2>3
  <2>6. TargetVersions(object)[1].version = "v1"
    BY <2>1, <2>2
  <2>7. TargetVersions(object)[first].version = "v1"
    BY <2>5, <2>6
  <2>8. Converts(object, TargetVersions(object)[first])
    BY ONLY <2>4, <2>5
  <2> QED
    BY ONLY <1>2, <2>7, <2>8
<1> QED
  BY <1>1, <1>2

LEMMA ConvertStepInv == ConvertInv /\ [ConvertNext]_convertVars => ConvertInv'
<1> SUFFICES ASSUME ConvertInv, [ConvertNext]_convertVars
             PROVE  ConvertInv'
  OBVIOUS
<1>o. outputVersion' = outputVersion /\ documents' = documents
  BY DEF ConvertNext, convertVars, Infos, InfosFail, ParseGroupVersion, AsVersionedObject,
         AllConverted, PrintObj, ConvertFails
<1>p. Outputs' = Outputs
  BY <1>o DEF Outputs, Targets
<1>1. CASE Infos
  <2>0. ASSUME NEW i \in 1..Len(documents)
        PROVE  documents[i] \in Known
    <3>1. documents[i] \in Documents /\ documents[i].kind # "foreign"
      BY <1>1 DEF Infos, ConvertInv
    <3>2. documents[i].kind \in Kinds \cup {"foreign"}
      BY <3>1 DEF Documents
    <3> QED
      BY <3>1, <3>2 DEF Known
  <2>1. documents \in Seq(Known) /\ Len(documents) \in Nat
    BY <2>0, OtherItems DEF ConvertInv
  <2>2. objects' \in Seq(Internals) /\ Len(objects') = Len(documents)
    <3>1. /\ objects' = [i \in 1..Len(documents) |-> Decoded(documents[i])]
          /\ \A i \in 1..Len(documents) : objects'[i] \in Internals
      BY <1>1, <2>1, <2>0 DEF Infos, Internals
    <3>2. objects' = [i \in 1..Len(documents) |-> objects'[i]]
      BY ONLY <3>1
    <3> QED
      BY <2>1, <3>1, <3>2, ItemsMade
  <2>3. \A i \in 1..Len(documents) : objects'[i].kind = documents[i].kind
    BY <1>1, <2>1, KindKept DEF Infos
  <2>4. ProgressInv'
    <3>1. converted' = <<>> /\ documents' = documents
      BY <1>1 DEF Infos, ConvertInv
    <3> QED
      BY <2>1, <2>2, <2>3, <3>1 DEF ProgressInv
  <2> QED
    BY <1>p, <1>1, <2>2, <2>4 DEF Infos, ConvertInv
<1>2. CASE InfosFail \/ ParseGroupVersion \/ AllConverted
  BY <1>p, <1>2 DEF InfosFail, ParseGroupVersion, AllConverted, ConvertFails, ConvertInv, ProgressInv, Fits
<1>3. CASE AsVersionedObject
  <2> DEFINE object == objects[Len(converted) + 1]
             versions == TargetVersions(object)
             works == {i \in DOMAIN versions : Converts(object, versions[i])}
             first == CHOOSE i \in works : \A j \in works : i <= j
             target == versions[first]
             out == Encoded(object, target.version)
  <2>1. CASE works = {} /\ ConvertFails
    <3>1. convertStep = "convert" /\ convertStep' = "error"
          /\ UNCHANGED <<documents, outputVersion, objects, converted, output>>
      BY <1>3, <2>1 DEF AsVersionedObject, ConvertFails
    <3> QED
      BY <1>p, <3>1 DEF ConvertInv
  <2>2. CASE /\ works # {}
             /\ converted' = Append(converted, out)
             /\ UNCHANGED <<documents, forceList, outputVersion, objects, convertStep, output>>
    <3>1. object \in Internals /\ Len(converted) + 1 <= Len(documents)
          /\ object.kind = documents[Len(converted) + 1].kind
      BY <1>3 DEF AsVersionedObject, ConvertInv, ProgressInv
    <3>2. IF outputVersion = Unspecified THEN target.version = "v1"
          ELSE /\ outputVersion.version = target.version
               /\ outputVersion.group = GroupOf(object.kind)
      <4>1. outputVersion \in [group : STRING, version : STRING] /\ works # {}
        BY <2>2 DEF ConvertInv
      <4>2. works = {i \in DOMAIN TargetVersions(object) :
                        Converts(object, TargetVersions(object)[i])}
        OBVIOUS
      <4>3. first = CHOOSE i \in works : \A j \in works : i <= j
        OBVIOUS
      <4>4. target = TargetVersions(object)[first]
        OBVIOUS
      <4> HIDE DEF target, first, works, object
      <4> QED
        BY <3>1, <4>1, <4>2, <4>3, <4>4, VersionChosen
    <3>3. out \in Outputs /\ Fits(out, documents[Len(converted) + 1])
      BY <3>1, <3>2, KindKept DEF Fits, Targets
    <3> HIDE DEF out, target, first, works, versions, object
    <3>4. converted' \in Seq(Outputs) /\ Len(converted') = Len(converted) + 1
      BY <2>2, <3>3 DEF ConvertInv
    <3>a. ProgressInv /\ converted \in Seq(Outputs)
      BY <1>3 DEF AsVersionedObject, ConvertInv
    <3>b. \A i \in 1..Len(converted') : Fits(converted'[i], documents[i])
      <4> TAKE i \in 1..Len(converted')
      <4>1. CASE i \in 1..Len(converted)
        <5>1. converted'[i] = converted[i]
          BY <2>2, <3>a, <4>1
        <5> QED
          BY <3>a, <4>1, <5>1 DEF ProgressInv
      <4>2. CASE i = Len(converted) + 1
        <5>1. converted'[i] = out
          BY <2>2, <3>a, <4>2
        <5> QED
          BY <3>3, <4>2, <5>1
      <4>3. i \in 1..Len(converted) \/ i = Len(converted) + 1
        BY <3>4, <3>a
      <4> QED
        BY <4>1, <4>2, <4>3
    <3>c. UNCHANGED <<documents, objects, outputVersion>> /\ Len(converted') <= Len(documents)
      BY <2>2, <3>1, <3>4
    <3>5. ProgressInv'
      BY <3>a, <3>b, <3>c DEF ProgressInv, Fits
    <3> QED
      BY <1>p, <1>3, <2>2, <3>4, <3>5 DEF AsVersionedObject, ConvertInv
  <2> QED
    BY <1>3, <2>1, <2>2 DEF AsVersionedObject
<1>4. CASE PrintObj
  BY <1>p, <1>4 DEF PrintObj, ConvertInv, ProgressInv, Fits
<1>5. CASE UNCHANGED convertVars
  BY <1>p, <1>5 DEF convertVars, ConvertInv, ProgressInv, Fits
<1> QED
  BY <1>1, <1>2, <1>3, <1>4, <1>5 DEF ConvertNext

\* Nothing or all of the documents is printed, each as a document of its kind in the
\* version asked for (convert.go:165-250).
THEOREM AllOrNothing == ConvertSpec => []ConvertWhole
<1>1. ConvertInit => ConvertInv
  BY DEF ConvertInit, ConvertIdle, ConvertInv
<1>2. ConvertInv => ConvertWhole
  BY DEF ConvertInv, ProgressInv, Fits, ConvertWhole
<1> QED
  BY <1>1, <1>2, ConvertStepInv, PTL DEF ConvertSpec

\* The version every document is printed in (convert.go:216-241).
PrintedVersion == IF outputVersion = Unspecified THEN "v1" ELSE outputVersion.version

\* The versions a document can be printed in.
VersionsFor(doc) ==
    LET versions == VersionsOf(GroupOf(doc.kind))
    IN  {versions[i] : i \in DOMAIN versions}

\* What is read of a document and what is made of it depends on that document alone.
ExactInv ==
    convertStep \in {"version", "convert", "print", "done"} =>
        /\ \A i \in 1..Len(documents) : objects[i] = Decoded(documents[i])
        /\ \A i \in 1..Len(converted) :
               /\ converted[i] = Encoded(Decoded(documents[i]), PrintedVersion)
               /\ PrintedVersion \in VersionsFor(documents[i])

LEMMA ExactStep == ConvertInv /\ ExactInv /\ [ConvertNext]_convertVars => ExactInv'
<1> SUFFICES ASSUME ConvertInv, ExactInv, [ConvertNext]_convertVars
             PROVE  ExactInv'
  OBVIOUS
<1>o. documents' = documents /\ PrintedVersion' = PrintedVersion
  BY DEF ConvertNext, convertVars, Infos, InfosFail, ParseGroupVersion, AsVersionedObject,
         AllConverted, PrintObj, ConvertFails, PrintedVersion
<1>d. /\ documents \in Seq(Documents) /\ converted \in Seq(Outputs)
      /\ outputVersion \in [group : STRING, version : STRING]
  BY DEF ConvertInv
<1>1. CASE Infos
  <2>1. /\ convertStep = "read" /\ converted' = converted
        /\ objects' = [i \in DOMAIN documents |-> Decoded(documents[i])]
    BY <1>1 DEF Infos
  <2>2. converted = <<>>
    BY <2>1 DEF ConvertInv
  <2> QED
    BY <1>o, <1>d, <2>1, <2>2 DEF ExactInv
<1>2. CASE \/ InfosFail \/ ParseGroupVersion \/ AllConverted \/ PrintObj \/ UNCHANGED convertVars
  <2>1. \/ convertStep' = "error"
        \/ /\ convertStep' = convertStep \/ convertStep \in {"version", "convert", "print"}
           /\ objects' = objects /\ converted' = converted
    BY <1>2 DEF InfosFail, ParseGroupVersion, AllConverted, PrintObj, ConvertFails, convertVars
  <2> QED
    BY <1>o, <2>1 DEF ExactInv
<1>3. CASE AsVersionedObject
  <2> DEFINE n == Len(converted) + 1
             object == objects[n]
             versions == TargetVersions(object)
             works == {i \in DOMAIN versions : Converts(object, versions[i])}
             first == CHOOSE i \in works : \A j \in works : i <= j
             target == versions[first]
             out == Encoded(object, target.version)
  <2>1. CASE works = {} /\ ConvertFails
    BY <2>1 DEF ConvertFails, ExactInv
  <2>2. CASE /\ works # {}
             /\ converted' = Append(converted, out)
             /\ UNCHANGED <<documents, forceList, outputVersion, objects, convertStep, output>>
    <3>0. convertStep = "convert" /\ Len(converted) < Len(objects)
      BY <1>3 DEF AsVersionedObject
    <3>1. n \in 1..Len(documents) /\ object \in Internals
      BY <3>0 DEF ConvertInv, ProgressInv
    <3>2. object = Decoded(documents[n])
      BY <3>0, <3>1 DEF ExactInv
    <3>3. target.version = PrintedVersion /\ Converts(object, target)
      <4>1. works = {i \in DOMAIN TargetVersions(object) :
                        Converts(object, TargetVersions(object)[i])}
        OBVIOUS
      <4>2. first = CHOOSE i \in works : \A j \in works : i <= j
        OBVIOUS
      <4>3. target = TargetVersions(object)[first] /\ works # {}
        BY <2>2
      <4> HIDE DEF target, first, works, object
      <4>4. /\ IF outputVersion = Unspecified THEN target.version = "v1"
               ELSE outputVersion.version = target.version
            /\ Converts(object, target)
        BY <1>d, <3>1, <4>1, <4>2, <4>3, VersionChosen
      <4> QED
        BY <4>4 DEF PrintedVersion
    <3>4. /\ out = Encoded(Decoded(documents[n]), PrintedVersion)
          /\ PrintedVersion \in VersionsFor(documents[n])
      <4>1. object.kind = documents[n].kind
        BY <3>0, <3>1 DEF ConvertInv, ProgressInv
      <4> QED
        BY <3>2, <3>3, <4>1 DEF Converts, VersionsFor
    <3> HIDE DEF out, target, first, works, versions, object
    <3>5. \A i \in 1..Len(converted') :
              /\ converted'[i] = Encoded(Decoded(documents[i]), PrintedVersion)
              /\ PrintedVersion \in VersionsFor(documents[i])
      <4> SUFFICES ASSUME NEW i \in 1..Len(converted')
                   PROVE  /\ converted'[i] = Encoded(Decoded(documents[i]), PrintedVersion)
                          /\ PrintedVersion \in VersionsFor(documents[i])
        OBVIOUS
      <4>1. CASE i \in 1..Len(converted)
        <5>1. converted'[i] = converted[i]
          BY <1>d, <2>2, <4>1
        <5> QED
          BY <3>0, <4>1, <5>1 DEF ExactInv
      <4>2. CASE i = n
        <5>1. converted'[i] = out
          BY <1>d, <2>2, <4>2
        <5> QED
          BY <3>4, <4>2, <5>1
      <4>3. i \in 1..Len(converted) \/ i = n
        <5>1. Len(converted') = Len(converted) + 1
          BY <1>d, <2>2
        <5> QED
          BY <1>d, <5>1
      <4> QED
        BY <4>1, <4>2, <4>3
    <3> QED
      BY <1>o, <2>2, <3>0, <3>5 DEF ExactInv
  <2> QED
    BY <1>3, <2>1, <2>2 DEF AsVersionedObject
<1> QED
  BY <1>1, <1>2, <1>3 DEF ConvertNext

\* What is printed at a place is the document at that place, read and written in the one
\* version that was asked for: no document gets a part of another, or a version of its own
\* (convert.go:165-270).
EachByItself ==
    convertStep = "done" =>
        \A i \in DOMAIN documents :
            /\ output.items[i] = Encoded(Decoded(documents[i]), PrintedVersion)
            /\ PrintedVersion \in VersionsFor(documents[i])

THEOREM ConvertsEachByItself == ConvertSpec => []EachByItself
<1>1. ConvertInit => ConvertInv /\ ExactInv
  BY DEF ConvertInit, ConvertIdle, ConvertInv, ExactInv
<1>2. ConvertInv /\ ExactInv => EachByItself
  BY DEF ConvertInv, ExactInv, ProgressInv, EachByItself
<1> QED
  BY <1>1, <1>2, ConvertStepInv, ExactStep, PTL DEF ConvertSpec

\* So what the conversion functions do to one document alone, as ConvertKeeps says of those
\* of the repository, they do to it among others, however many there are
\* (convert.go:165-270).
THEOREM ConvertsAsItsFunctions ==
    ASSUME NEW CONSTANT Read, NEW CONSTANT Kept,
           \A doc \in Read : \A v \in VersionsFor(doc) :
               <<doc, Encoded(Decoded(doc), v)>> \in Kept
    PROVE  ConvertSpec =>
               [](convertStep = "done" =>
                      \A i \in DOMAIN documents :
                          documents[i] \in Read => <<documents[i], output.items[i]>> \in Kept)
<1> DEFINE AllKept ==
      convertStep = "done" =>
          \A i \in DOMAIN documents :
              documents[i] \in Read => <<documents[i], output.items[i]>> \in Kept
<1>1. EachByItself => AllKept
  BY DEF EachByItself
<1> QED
  BY <1>1, ConvertsEachByItself, PTL

-----------------------------------------------------------------------------
\* The least of some natural numbers (fromservice.go:55-73, secret.go:372).
LEMMA LeastPlace ==
    ASSUME NEW T \in SUBSET Nat, T # {}
    PROVE  \E x \in T : \A y \in T : x <= y
<1> DEFINE R == {ss \in Nat \X Nat : ss[1] < ss[2]}
<1>1. IsWellFoundedOn(R, Nat)
  BY NatLessThanWellFounded DEF OpToRel
<1>2. ASSUME NEW x \in Nat, NEW y \in Nat, y < x
      PROVE  <<y, x>> \in R
  BY <1>2
<1> HIDE DEF R
<1>3. PICK x \in T : \A y \in T : ~(<<y, x>> \in R)
  BY <1>1, WFMin
<1>4. ASSUME NEW y \in T
      PROVE  x <= y
  <2>1. x \in Nat /\ y \in Nat
    OBVIOUS
  <2>2. ~(y < x)
    BY <1>2, <1>3, <2>1
  <2> QED
    BY <2>1, <2>2
<1> QED
  BY <1>3, <1>4

\* The greatest: the least of the bounds that is reached.
LEMMA GreatestPlace ==
    ASSUME NEW n \in Nat, NEW T \in SUBSET (0..n), T # {}
    PROVE  \E x \in T : \A y \in T : y <= x
<1> DEFINE D == {n - y : y \in T}
<1>1. D \in SUBSET Nat /\ D # {}
  <2>1. \A y \in T : n - y \in Nat
    OBVIOUS
  <2> QED
    BY <2>1
<1> HIDE DEF D
<1>2. PICK d \in D : \A e \in D : d <= e
  BY <1>1, LeastPlace
<1>3. PICK x \in T : d = n - x
  BY <1>2 DEF D
<1>4. ASSUME NEW y \in T
      PROVE  y <= x
  <2>1. n - y \in D
    BY DEF D
  <2>2. n - x <= n - y
    BY <1>2, <1>3, <2>1
  <2>3. x \in 0..n /\ y \in 0..n
    OBVIOUS
  <2> QED
    BY <2>2, <2>3
<1> QED
  BY <1>4

\* A set with one element at most.
LEMMA OneAtMost ==
    ASSUME NEW S, IsFiniteSet(S), Cardinality(S) <= 1, NEW x \in S
    PROVE  S = {x}
<1>1. /\ Cardinality(S) \in Nat
      /\ IsFiniteSet(S \ {x})
      /\ Cardinality(S \ {x}) = Cardinality(S) - 1
  BY FS_CardinalityType, FS_RemoveElement
<1>2. Cardinality(S \ {x}) = 0
  <2>1. Cardinality(S \ {x}) \in Nat
    BY <1>1, FS_CardinalityType
  <2> QED
    BY <1>1, <2>1
<1>3. S \ {x} = {}
  BY <1>1, <1>2, FS_EmptySet
<1> QED
  BY <1>3

-----------------------------------------------------------------------------
\* The versions that were found.
Found(found) == {found[place] : place \in DOMAIN found}

Places == {"crdLabelVersion", "webhookServiceLabelVersion", "webhookPodLabelVersion",
           "webhookPodImageVersion"}

\* Where versions may have been found when a call is next.
Before(step) ==
    CASE step = "crd" -> {}
      [] step = "service" -> {"crdLabelVersion"}
      [] step = "pods" -> {"crdLabelVersion", "webhookServiceLabelVersion"}
      [] OTHER -> Places

\* What the calls before it were shown by an installation that stands still.
ShownBefore(step, inst) ==
    CASE step = "crd" -> {}
      [] step = "service" -> {extractVersionFromLabels(inst.crd.labels)} \ {""}
      [] OTHER -> {extractVersionFromLabels(inst.crd.labels),
                   extractVersionFromLabels(inst.service.labels)} \ {""}

\* The lookups that are left are the last ones, and those before them found no CRD.
LookupsInv ==
    /\ lookups \in Seq({Lookups[k] : k \in 1..4})
    /\ Len(lookups) <= 4
    /\ \A k \in 1..Len(lookups) : lookups[k] = Lookups[k + (4 - Len(lookups))]
    /\ \A k \in 1..(4 - Len(lookups)) :
          cluster.crd.name # Lookups[k].name \/ cluster.crd.api # Lookups[k].api

SourcesInv ==
    /\ versionStep \in {"crd", "service", "pods", "determine", "reported"}
    /\ versionError \in {"none", "CRDs not found", "call failed"}
    /\ versionStep \in {"crd", "service", "pods"} => versionError = "none"
    /\ DOMAIN sources \subseteq Before(versionStep)
    /\ "" \notin Found(sources)
    /\ versionError = "CRDs not found" => Found(sources) = {}

StillInv ==
    ~changed =>
        /\ cluster \in Cluster
        /\ versionStep = "crd" => LookupsInv
        /\ versionStep \in {"service", "pods"} => cluster.crd.name # "" /\ cluster.crd.webhook
        /\ versionStep \in {"crd", "service", "pods"} =>
              Found(sources) = ShownBefore(versionStep, cluster)
        /\ versionStep \in {"determine", "reported"} =>
              (versionError # "call failed" /\ Cardinality(RunsOf(cluster.pods)) <= 1 =>
                   Found(sources) = Shown(cluster))

AnswerInv ==
    versionStep = "reported" =>
        LET found == Found(sources)
        IN  answer = CASE found = {} -> [detected |-> "", error |-> "not detected"]
                       [] Cardinality(found) > 1 -> [detected |-> "", error |-> "multiple"]
                       [] OTHER -> [detected |-> CHOOSE v \in found : TRUE, error |-> versionError]

VersionInv == SourcesInv /\ StillInv /\ AnswerInv

\* A version is added under a place of its own (fromservice.go:42, 60, 67).
LEMMA FoundWith ==
    ASSUME NEW found, NEW place, place \notin DOMAIN found, NEW version
    PROVE  /\ DOMAIN With(found, place, version) \subseteq DOMAIN found \cup {place}
           /\ Found(With(found, place, version)) = Found(found) \cup ({version} \ {""})
           /\ version = "" => With(found, place, version) = found
<1>1. CASE version = ""
  BY <1>1 DEF With, Found
<1>2. CASE version # ""
  <2> DEFINE made == With(found, place, version)
  <2>1. made = [p \in DOMAIN found \cup {place} |-> IF p = place THEN version ELSE found[p]]
    BY <1>2 DEF With
  <2> HIDE DEF made
  <2>2. DOMAIN made = DOMAIN found \cup {place}
    BY <2>1
  <2>3. made[place] = version /\ \A p \in DOMAIN found : made[p] = found[p]
    BY <2>1
  <2>4. Found(made) = Found(found) \cup {version}
    BY <2>2, <2>3 DEF Found
  <2> QED
    BY <1>2, <2>2, <2>4 DEF made
<1> QED
  BY <1>1, <1>2

\* The items at the places of a finite set.
LEMMA ItemsFinite ==
    ASSUME NEW S, IsFiniteSet(S), NEW f
    PROVE  IsFiniteSet({f[x] : x \in S})
<1> DEFINE T == {f[x] : x \in S}
           g == [x \in S |-> f[x]]
<1>1. g \in Surjection(S, T)
  BY DEF Surjection
<1> HIDE DEF T, g
<1>2. IsFiniteSet(T)
  BY <1>1, FS_Surjection
<1> QED
  BY <1>2 DEF T

\* Found is a function of the sources only, and of a finite number of places.
LEMMA FoundFinite ==
    ASSUME NEW found, DOMAIN found \subseteq Places
    PROVE  IsFiniteSet(Found(found))
<1>1. IsFiniteSet(Places)
  <2>1. IsFiniteSet({})
    BY FS_EmptySet
  <2>2. IsFiniteSet({"crdLabelVersion"})
    BY FS_Singleton
  <2>3. IsFiniteSet({"crdLabelVersion"} \cup {"webhookServiceLabelVersion"})
    BY <2>2, FS_AddElement
  <2>4. IsFiniteSet({"crdLabelVersion", "webhookServiceLabelVersion"}
                        \cup {"webhookPodLabelVersion"})
    <3>1. {"crdLabelVersion", "webhookServiceLabelVersion"}
            = {"crdLabelVersion"} \cup {"webhookServiceLabelVersion"}
      OBVIOUS
    <3> QED
      BY <2>3, <3>1, FS_AddElement
  <2>5. IsFiniteSet({"crdLabelVersion", "webhookServiceLabelVersion", "webhookPodLabelVersion"}
                        \cup {"webhookPodImageVersion"})
    <3>1. {"crdLabelVersion", "webhookServiceLabelVersion", "webhookPodLabelVersion"}
            = {"crdLabelVersion", "webhookServiceLabelVersion"} \cup {"webhookPodLabelVersion"}
      OBVIOUS
    <3> QED
      BY <2>4, <3>1, FS_AddElement
  <2>6. Places = {"crdLabelVersion", "webhookServiceLabelVersion", "webhookPodLabelVersion"}
                     \cup {"webhookPodImageVersion"}
    BY DEF Places
  <2> QED
    BY <2>5, <2>6
<1>2. IsFiniteSet(DOMAIN found)
  BY <1>1, FS_Subset
<1> QED
  BY <1>2, ItemsFinite DEF Found

\* What the running pods tell, if they are alike (fromservice.go:55-73).
LEMMA PodsRead ==
    ASSUME NEW S, NEW pods \in Seq(S),
           Cardinality(RunsOf(pods)) <= 1
    PROVE  \E label, image :
              /\ \A found : ReadPods(found, pods) =
                     With(With(found, "webhookPodLabelVersion", label),
                          "webhookPodImageVersion", image)
              /\ {label, image} \ {""} =
                     (UNION {{extractVersionFromLabels(pod.labels), pod.image} :
                                 pod \in RunsOf(pods)}) \ {""}
<1> DEFINE running == RunningPods(pods)
           imaged == {i \in running : pods[i].image # ""}
           read == {i \in running : \A j \in imaged : i <= j}
           labelled == {i \in read : extractVersionFromLabels(pods[i].labels) # ""}
           label == IF labelled = {} THEN ""
                    ELSE extractVersionFromLabels(
                             pods[CHOOSE i \in labelled : \A j \in labelled : j <= i].labels)
           image == IF imaged = {} THEN ""
                    ELSE pods[CHOOSE i \in imaged : \A j \in imaged : i <= j].image
           told == UNION {{extractVersionFromLabels(pod.labels), pod.image} : pod \in RunsOf(pods)}
<1>a. Len(pods) \in Nat /\ DOMAIN pods = 1..Len(pods)
  OBVIOUS
<1>b. 1..Len(pods) \subseteq 0..Len(pods) /\ 0..Len(pods) \subseteq Nat
  BY <1>a
<1>1. running \subseteq 0..Len(pods)
  BY <1>a, <1>b DEF RunningPods
<1>2. RunsOf(pods) = {pods[i] : i \in running}
  BY DEF RunsOf, RunningPods
<1>c. RunsOf(pods) = {pods[i] : i \in RunningPods(pods)}
  BY <1>2
<1>3. \A found : ReadPods(found, pods) =
          With(With(found, "webhookPodLabelVersion", label), "webhookPodImageVersion", image)
  BY DEF ReadPods
<1>4. IsFiniteSet(RunsOf(pods))
  <2>1. IsFiniteSet(0..Len(pods))
    <3>1. 0 \in Int /\ Len(pods) \in Int
      BY <1>a
    <3> QED
      BY <3>1, FS_Interval
  <2>2. IsFiniteSet(RunningPods(pods))
    BY <1>1, <2>1, FS_Subset
  <2> QED
    <3>1. IsFiniteSet({pods[i] : i \in RunningPods(pods)})
      BY <2>2, ItemsFinite
    <3> QED
      BY <1>c, <3>1
<1>5. {label, image} \ {""} = told \ {""}
  <2>1. CASE running = {}
    BY <1>2, <2>1
  <2>2. CASE running # {}
    <3>1. PICK k \in running : TRUE
      BY <2>2
    <3> DEFINE P == pods[k]
    <3>2. RunsOf(pods) = {P}
      <4>1. P \in RunsOf(pods)
        BY <1>2, <3>1
      <4> HIDE DEF P
      <4> QED
        BY <1>4, <4>1, OneAtMost
    <3>3. \A i \in running : pods[i] = P
      BY <1>2, <3>2
    <3>4. told = {extractVersionFromLabels(P.labels), P.image}
      BY <3>2
    <3> HIDE DEF P, told, running
    <3>5. image = P.image
      <4>1. CASE P.image = ""
        BY <3>3, <4>1
      <4>2. CASE P.image # ""
        <5>1. imaged \in SUBSET Nat /\ imaged # {} /\ imaged \subseteq running
          BY <1>1, <1>b, <3>1, <3>3, <4>2
        <5> HIDE DEF imaged
        <5>2. (CHOOSE i \in imaged : \A j \in imaged : i <= j) \in imaged
          BY <5>1, LeastPlace
        <5> QED
          BY <3>3, <5>1, <5>2
      <4> QED
        BY <4>1, <4>2
    <3>6. label = extractVersionFromLabels(P.labels)
      <4>1. CASE extractVersionFromLabels(P.labels) = ""
        BY <3>3, <4>1
      <4>2. CASE extractVersionFromLabels(P.labels) # ""
        <5>1. read \subseteq running /\ read # {}
          <6>1. PICK i \in running : \A j \in running : i <= j
            <7>1. running \in SUBSET Nat /\ running # {}
              BY <1>1, <1>b, <3>1
            <7> QED
              BY <7>1, LeastPlace
          <6> QED
            BY <6>1
        <5> HIDE DEF read
        <5>2. labelled = read
          BY <3>3, <4>2, <5>1
        <5> HIDE DEF labelled
        <5>3. labelled \in SUBSET (0..Len(pods)) /\ labelled # {}
          BY <1>1, <5>1, <5>2
        <5>4. (CHOOSE i \in labelled : \A j \in labelled : j <= i) \in labelled
          BY <1>a, <5>3, GreatestPlace
        <5> QED
          BY <3>3, <5>1, <5>2, <5>3, <5>4
      <4> QED
        BY <4>1, <4>2
    <3> QED
      BY <3>4, <3>5, <3>6
  <2> QED
    BY <2>1, <2>2
<1>6. {label, image} \ {""} =
          (UNION {{extractVersionFromLabels(pod.labels), pod.image} : pod \in RunsOf(pods)}) \ {""}
  BY <1>5
<1> HIDE DEF label, image
<1> WITNESS label, image
<1> QED
  BY <1>3, <1>6

\* The pods add what they tell, under places of their own.
LEMMA PodsFound ==
    ASSUME NEW found, NEW label, NEW image, NEW made,
           DOMAIN found \subseteq {"crdLabelVersion", "webhookServiceLabelVersion"},
           made = With(With(found, "webhookPodLabelVersion", label),
                       "webhookPodImageVersion", image)
    PROVE  /\ DOMAIN made \subseteq Places
           /\ Found(made) = Found(found) \cup ({label, image} \ {""})
<1>1. /\ "webhookPodLabelVersion" \notin DOMAIN found
      /\ "webhookPodImageVersion" \notin DOMAIN found
      /\ DOMAIN found \subseteq Places
  BY DEF Places
<1> DEFINE once == With(found, "webhookPodLabelVersion", label)
<1>2. /\ DOMAIN once \subseteq DOMAIN found \cup {"webhookPodLabelVersion"}
      /\ Found(once) = Found(found) \cup ({label} \ {""})
  BY <1>1, FoundWith
<1>3. made = With(once, "webhookPodImageVersion", image)
  OBVIOUS
<1> HIDE DEF once
<1>4. "webhookPodImageVersion" \notin DOMAIN once
  BY <1>1, <1>2
<1>5. /\ DOMAIN With(once, "webhookPodImageVersion", image)
            \subseteq DOMAIN once \cup {"webhookPodImageVersion"}
      /\ Found(With(once, "webhookPodImageVersion", image)) = Found(once) \cup ({image} \ {""})
  BY <1>4, FoundWith
<1>6. DOMAIN made \subseteq Places
  BY <1>1, <1>2, <1>3, <1>5 DEF Places
<1>7. Found(made) = Found(found) \cup ({label, image} \ {""})
  BY <1>2, <1>3, <1>5
<1> QED
  BY <1>6, <1>7

LEMMA SomethingRead ==
    ASSUME NEW pods, NEW found
    PROVE  \E label, image :
              ReadPods(found, pods) = With(With(found, "webhookPodLabelVersion", label),
                                           "webhookPodImageVersion", image)
<1> DEFINE imaged == {i \in RunningPods(pods) : pods[i].image # ""}
           read == {i \in RunningPods(pods) : \A j \in imaged : i <= j}
           labelled == {i \in read : extractVersionFromLabels(pods[i].labels) # ""}
           label == IF labelled = {} THEN ""
                    ELSE extractVersionFromLabels(
                             pods[CHOOSE i \in labelled : \A j \in labelled : j <= i].labels)
           image == IF imaged = {} THEN ""
                    ELSE pods[CHOOSE i \in imaged : \A j \in imaged : i <= j].image
<1>1. ReadPods(found, pods) =
          With(With(found, "webhookPodLabelVersion", label), "webhookPodImageVersion", image)
  BY DEF ReadPods
<1> HIDE DEF label, image
<1> QED
  BY <1>1

LEMMA ClusterParts ==
    ASSUME NEW inst \in Cluster
    PROVE  /\ inst.crd.name \in {"new", "old", ""}
           /\ inst.crd.api \in {"v1", "v1beta1"}
           /\ \E S : inst.pods \in Seq(S)
BY DEF Cluster

\* The lookups are every name with every API it can be read by (versionchecker.go:98-113).
LEMMA AllMissed ==
    ASSUME NEW name \in {"new", "old", ""}, NEW api \in {"v1", "v1beta1"},
           \A k \in {1, 2, 3, 4} : name # Lookups[k].name \/ api # Lookups[k].api
    PROVE  name = ""
<1>1. /\ name # "new" \/ api # "v1"
      /\ name # "new" \/ api # "v1beta1"
      /\ name # "old" \/ api # "v1"
      /\ name # "old" \/ api # "v1beta1"
  BY DEF Lookups
<1> QED
  BY <1>1

LEMMA NextLookup ==
    ASSUME LookupsInv, lookups # <<>>, lookups' = Tail(lookups), UNCHANGED cluster,
           cluster.crd.name # Head(lookups).name \/ cluster.crd.api # Head(lookups).api
    PROVE  LookupsInv'
<1> DEFINE S == {Lookups[k] : k \in 1..4}
           n == Len(lookups)
<1>1. lookups \in Seq(S)
  BY DEF LookupsInv
<1>2. n \in Nat /\ n <= 4
  BY <1>1 DEF LookupsInv
<1> HIDE DEF S
<1>3. /\ n >= 1 /\ Head(lookups) = lookups[1]
      /\ lookups' \in Seq(S)
      /\ Len(lookups') = n - 1
      /\ \A k \in 1..(n - 1) : lookups'[k] = lookups[k + 1]
  BY <1>1
<1> HIDE DEF n
<1>4. \A k \in 1..n : lookups[k] = Lookups[k + (4 - n)]
  BY DEF LookupsInv, n
<1>5. \A k \in 1..(4 - n) :
          cluster.crd.name # Lookups[k].name \/ cluster.crd.api # Lookups[k].api
  BY DEF LookupsInv, n
<1>6. \A k \in 1..(n - 1) : lookups'[k] = Lookups[k + (4 - (n - 1))]
  <2> TAKE k \in 1..(n - 1)
  <2>1. k + 1 \in 1..n /\ (k + 1) + (4 - n) = k + (4 - (n - 1))
    BY <1>2
  <2> QED
    BY <1>3, <1>4, <2>1
<1>7. \A k \in 1..(4 - (n - 1)) :
          cluster.crd.name # Lookups[k].name \/ cluster.crd.api # Lookups[k].api
  <2> TAKE k \in 1..(4 - (n - 1))
  <2>1. CASE k \in 1..(4 - n)
    BY <1>5, <2>1
  <2>2. CASE k = 1 + (4 - n)
    <3>1. 1 \in 1..n
      BY <1>2, <1>3
    <3>2. lookups[1] = Lookups[k]
      BY <1>4, <2>2, <3>1
    <3> QED
      BY <1>3, <3>2
  <2> QED
    BY <1>2, <2>1, <2>2
<1>8. n - 1 <= 4
  BY <1>2
<1> QED
  BY <1>3, <1>6, <1>7, <1>8 DEF LookupsInv, S

-----------------------------------------------------------------------------
\* Where versions are found, and the error that comes with them.
LEMMA SourcesStep ==
    ASSUME SourcesInv, [VersionNext \/ Upgrade]_versionVars
    PROVE  SourcesInv'
<1> USE DEF SourcesInv
<1>1. CASE extractVersionFromCrd
  <2>1. CASE /\ sources' = With(sources, "crdLabelVersion",
                                extractVersionFromLabels(cluster.crd.labels))
             /\ versionError' = "none"
    <3>1. versionStep = "crd" /\ "crdLabelVersion" \notin DOMAIN sources
      BY <1>1 DEF extractVersionFromCrd, Before
    <3> DEFINE version == extractVersionFromLabels(cluster.crd.labels)
               added == With(sources, "crdLabelVersion", version)
    <3>a. /\ DOMAIN added \subseteq DOMAIN sources \cup {"crdLabelVersion"}
          /\ Found(added) = Found(sources) \cup ({version} \ {""})
      <4> HIDE DEF version
      <4> QED
        BY <3>1, FoundWith
    <3>b. sources' = added
      BY <2>1
    <3> HIDE DEF version, added
    <3>2. /\ DOMAIN sources' \subseteq DOMAIN sources \cup {"crdLabelVersion"}
          /\ "" \notin Found(sources')
      BY <3>a, <3>b
    <3>3. DOMAIN sources' \subseteq {"crdLabelVersion"}
      BY <3>1, <3>2 DEF Before
    <3>4. \/ versionStep' \in {"service", "determine"}
          \/ versionStep' = "crd" /\ UNCHANGED sources
      BY <1>1, <3>1 DEF extractVersionFromCrd, Determined
    <3> QED
      <4>1. CASE versionStep' \in {"service", "determine"}
        BY <2>1, <3>2, <3>3, <4>1 DEF Before, Places
      <4>2. CASE versionStep' = "crd" /\ UNCHANGED sources
        BY <2>1, <3>1, <4>2
      <4> QED
        BY <3>4, <4>1, <4>2
  <2>2. CASE UNCHANGED sources
    <3>1. Found(sources) = {} /\ versionStep = "crd"
      BY <1>1 DEF extractVersionFromCrd, Before, Found
    <3>2. Found(sources') = {}
      BY <2>2, <3>1
    <3> QED
      BY <1>1, <2>2, <3>1, <3>2 DEF extractVersionFromCrd, Determined, Before
  <2> QED
    <3>1. versionError = "none"
      BY <1>1 DEF extractVersionFromCrd
    <3> QED
      BY <1>1, <2>1, <2>2, <3>1 DEF extractVersionFromCrd, Determined
<1>2. CASE extractVersionFromService
  <2>1. CASE sources' = With(sources, "webhookServiceLabelVersion",
                             extractVersionFromLabels(cluster.service.labels))
    <3>1. versionStep = "service" /\ "webhookServiceLabelVersion" \notin DOMAIN sources
      BY <1>2 DEF extractVersionFromService, Before
    <3> DEFINE version == extractVersionFromLabels(cluster.service.labels)
               added == With(sources, "webhookServiceLabelVersion", version)
    <3>a. /\ DOMAIN added \subseteq DOMAIN sources \cup {"webhookServiceLabelVersion"}
          /\ Found(added) = Found(sources) \cup ({version} \ {""})
      <4> HIDE DEF version
      <4> QED
        BY <3>1, FoundWith
    <3>b. sources' = added
      BY <2>1
    <3> HIDE DEF version, added
    <3>2. /\ DOMAIN sources' \subseteq DOMAIN sources \cup {"webhookServiceLabelVersion"}
          /\ "" \notin Found(sources')
      BY <3>a, <3>b
    <3>3. DOMAIN sources' \subseteq {"crdLabelVersion", "webhookServiceLabelVersion"}
      BY <3>1, <3>2 DEF Before
    <3> QED
      BY <1>2, <3>1, <3>2, <3>3 DEF extractVersionFromService, Determined, Before, Places
  <2>2. CASE UNCHANGED sources
    BY <1>2, <2>2 DEF extractVersionFromService, Determined, Before, Places
  <2> QED
    BY <1>2, <2>1, <2>2 DEF extractVersionFromService
<1>3. CASE ListPods
  <2>1. CASE sources' = ReadPods(sources, cluster.pods)
    <3>1. /\ versionStep = "pods"
          /\ DOMAIN sources \subseteq {"crdLabelVersion", "webhookServiceLabelVersion"}
      BY <1>3 DEF ListPods, Before
    <3>2. DOMAIN sources' \subseteq Places /\ "" \notin Found(sources')
      <4>1. PICK l, m :
                ReadPods(sources, cluster.pods) =
                    With(With(sources, "webhookPodLabelVersion", l),
                         "webhookPodImageVersion", m)
        BY SomethingRead
      <4>2. /\ DOMAIN ReadPods(sources, cluster.pods) \subseteq Places
            /\ Found(ReadPods(sources, cluster.pods)) = Found(sources) \cup ({l, m} \ {""})
        BY <3>1, <4>1, PodsFound
      <4> QED
        BY <2>1, <4>2
    <3> QED
      BY <1>3, <3>1, <3>2 DEF ListPods, Determined, Before
  <2>2. CASE UNCHANGED sources
    BY <1>3, <2>2 DEF ListPods, Determined, Before, Places
  <2> QED
    BY <1>3, <2>1, <2>2 DEF ListPods
<1>4. CASE determineVersion
  BY <1>4 DEF determineVersion, Before
<1>5. CASE Upgrade
  BY <1>5 DEF Upgrade
<1>6. CASE UNCHANGED versionVars
  BY <1>6 DEF versionVars
<1> QED
  BY <1>1, <1>2, <1>3, <1>4, <1>5, <1>6 DEF VersionNext

\* A conversion webhook is looked for at a CRD that is there.
LEMMA LookupNames ==
    ASSUME LookupsInv, lookups # <<>>
    PROVE  Head(lookups).name \in {"new", "old"}
<1> DEFINE S == {Lookups[k] : k \in 1..4}
<1>1. \A l \in S : l.name \in {"new", "old"}
  <2>1. \A k \in {1, 2, 3, 4} : Lookups[k].name \in {"new", "old"}
    BY DEF Lookups
  <2>2. \A k \in 1..4 : k \in {1, 2, 3, 4}
    OBVIOUS
  <2> QED
    BY <2>1, <2>2
<1>2. lookups \in Seq(S)
  BY DEF LookupsInv
<1> HIDE DEF S
<1>3. Head(lookups) \in S
  BY <1>2
<1> QED
  BY <1>1, <1>3

\* Without a CRD nothing is shown.
LEMMA NoneLeft ==
    LookupsInv /\ lookups = <<>> /\ cluster \in Cluster => cluster.crd.name = ""
<1> SUFFICES ASSUME LookupsInv, lookups = <<>>, cluster \in Cluster
             PROVE  cluster.crd.name = ""
  OBVIOUS
<1> DEFINE name == cluster.crd.name
           api == cluster.crd.api
<1>1. name \in {"new", "old", ""} /\ api \in {"v1", "v1beta1"}
  BY ClusterParts
<1>2. \A k \in 1..4 : name # Lookups[k].name \/ api # Lookups[k].api
  <2>1. Len(lookups) = 0 /\ 4 - 0 = 4
    OBVIOUS
  <2> QED
    BY <2>1 DEF LookupsInv
<1> HIDE DEF name, api
<1>3. \A k \in {1, 2, 3, 4} : k \in 1..4
  OBVIOUS
<1>4. \A k \in {1, 2, 3, 4} : name # Lookups[k].name \/ api # Lookups[k].api
  BY <1>2, <1>3
<1>5. name = ""
  BY <1>1, <1>4, AllMissed
<1> QED
  BY <1>5 DEF name

\* The sources are what an installation that stands still has shown (fromcrd.go:28-91).
LEMMA CrdStill ==
    ASSUME SourcesInv, StillInv, extractVersionFromCrd
    PROVE  StillInv'
<1> SUFFICES ASSUME ~changed
             PROVE  StillInv'
  BY DEF StillInv, extractVersionFromCrd
<1>1. /\ versionStep = "crd" /\ versionError = "none"
      /\ "crdLabelVersion" \notin DOMAIN sources
      /\ UNCHANGED <<cluster, changed>>
      /\ lookups # <<>>
  BY DEF extractVersionFromCrd, SourcesInv, Before
<1>2. cluster \in Cluster /\ LookupsInv /\ Found(sources) = {}
  BY <1>1 DEF StillInv, ShownBefore
<1>3. CASE /\ cluster.crd.name = Head(lookups).name
           /\ sources' = With(sources, "crdLabelVersion",
                              extractVersionFromLabels(cluster.crd.labels))
           /\ \/ cluster.crd.webhook /\ versionStep' = "service" /\ UNCHANGED versionError
              \/ ~cluster.crd.webhook /\ Determined("none")
  <2> DEFINE version == extractVersionFromLabels(cluster.crd.labels)
             added == With(sources, "crdLabelVersion", version)
  <2>1. Found(added) = Found(sources) \cup ({version} \ {""})
    <3> HIDE DEF version
    <3> QED
      BY <1>1, FoundWith
  <2>2. sources' = added
    BY <1>3
  <2> HIDE DEF added
  <2>3. Found(sources') = {version} \ {""}
    BY <1>2, <2>1, <2>2
  <2>4. cluster.crd.name # ""
    BY <1>1, <1>2, <1>3, LookupNames
  <2>5. CASE cluster.crd.webhook /\ versionStep' = "service"
    BY <1>1, <1>2, <2>3, <2>4, <2>5 DEF StillInv, ShownBefore
  <2>6. CASE ~cluster.crd.webhook /\ Determined("none")
    <3>1. Shown(cluster) = {version} \ {""}
      BY <2>4, <2>6 DEF Shown
    <3>2. Found(sources') = Shown(cluster)'
      BY <1>1, <2>3, <3>1
    <3> QED
      BY <1>1, <1>2, <2>6, <3>2 DEF StillInv, Determined
  <2> QED
    BY <1>3, <2>5, <2>6
<1>4. CASE /\ \/ cluster.crd.name # Head(lookups).name
              \/ cluster.crd.api # Head(lookups).api
           /\ lookups' = Tail(lookups)
           /\ \/ Tail(lookups) # <<>> /\ UNCHANGED <<versionStep, versionError>>
              \/ Tail(lookups) = <<>> /\ Determined("CRDs not found")
           /\ UNCHANGED sources
  <2>1. LookupsInv'
    BY <1>1, <1>2, <1>4, NextLookup
  <2>2. CASE Tail(lookups) # <<>> /\ UNCHANGED <<versionStep, versionError>>
    BY <1>1, <1>2, <1>4, <2>1, <2>2 DEF StillInv, ShownBefore
  <2>3. CASE Tail(lookups) = <<>> /\ Determined("CRDs not found")
    <3>1. (cluster.crd.name = "")'
      <4>1. (lookups = <<>> /\ cluster \in Cluster)'
        BY <1>1, <1>2, <1>4, <2>3
      <4> QED
        BY <2>1, <4>1, NoneLeft, PTL
    <3>2. (Shown(cluster) = {})'
      BY <3>1 DEF Shown
    <3> QED
      BY <1>1, <1>2, <1>4, <2>3, <3>2 DEF StillInv, Determined
  <2> QED
    BY <1>4, <2>2, <2>3
<1>5. CASE Determined("call failed") /\ UNCHANGED <<lookups, sources>>
  BY <1>1, <1>2, <1>5 DEF StillInv, Determined
<1> QED
  BY <1>3, <1>4, <1>5 DEF extractVersionFromCrd

\* The service adds its labels (fromservice.go:30-48).
LEMMA ServiceStill ==
    ASSUME SourcesInv, StillInv, extractVersionFromService
    PROVE  StillInv'
<1> SUFFICES ASSUME ~changed
             PROVE  StillInv'
  BY DEF StillInv, extractVersionFromService
<1>1. /\ versionStep = "service"
      /\ "webhookServiceLabelVersion" \notin DOMAIN sources
      /\ UNCHANGED <<cluster, changed>>
  BY DEF extractVersionFromService, SourcesInv, Before
<1>2. /\ cluster \in Cluster
      /\ Found(sources) = {extractVersionFromLabels(cluster.crd.labels)} \ {""}
      /\ cluster.crd.name # "" /\ cluster.crd.webhook
  BY <1>1 DEF StillInv, ShownBefore
<1>3. CASE /\ sources' = With(sources, "webhookServiceLabelVersion",
                              extractVersionFromLabels(cluster.service.labels))
           /\ versionStep' = "pods"
  <2> DEFINE version == extractVersionFromLabels(cluster.service.labels)
             added == With(sources, "webhookServiceLabelVersion", version)
  <2>1. Found(added) = Found(sources) \cup ({version} \ {""})
    <3> HIDE DEF version
    <3> QED
      BY <1>1, FoundWith
  <2>2. sources' = added
    BY <1>3
  <2> HIDE DEF added
  <2>3. Found(sources') = {extractVersionFromLabels(cluster.crd.labels), version} \ {""}
    BY <1>2, <2>1, <2>2
  <2> QED
    BY <1>1, <1>2, <1>3, <2>3 DEF StillInv, ShownBefore
<1>4. CASE Determined("call failed")
  BY <1>1, <1>2, <1>4 DEF StillInv, Determined
<1> QED
  BY <1>3, <1>4 DEF extractVersionFromService

\* And the pods what they tell (fromservice.go:46-74).
LEMMA PodsStill ==
    ASSUME SourcesInv, StillInv, ListPods
    PROVE  StillInv'
<1> SUFFICES ASSUME ~changed
             PROVE  StillInv'
  BY DEF StillInv, ListPods
<1>1. /\ versionStep = "pods"
      /\ DOMAIN sources \subseteq {"crdLabelVersion", "webhookServiceLabelVersion"}
      /\ UNCHANGED <<cluster, changed>>
  BY DEF ListPods, SourcesInv, Before
<1>2. /\ cluster \in Cluster
      /\ Found(sources) = {extractVersionFromLabels(cluster.crd.labels),
                           extractVersionFromLabels(cluster.service.labels)} \ {""}
      /\ cluster.crd.name # "" /\ cluster.crd.webhook
  BY <1>1 DEF StillInv, ShownBefore
<1>3. CASE sources' = ReadPods(sources, cluster.pods) /\ Determined("none")
  <2>1. ASSUME Cardinality(RunsOf(cluster.pods)) <= 1
        PROVE  Found(sources') = Shown(cluster)
    <3> DEFINE told == UNION {{extractVersionFromLabels(pod.labels), pod.image} :
                                  pod \in RunsOf(cluster.pods)}
    <3>1. PICK S : cluster.pods \in Seq(S)
      BY <1>2, ClusterParts
    <3>2. PICK l, m :
              /\ \A found : ReadPods(found, cluster.pods) =
                     With(With(found, "webhookPodLabelVersion", l), "webhookPodImageVersion", m)
              /\ {l, m} \ {""} = told \ {""}
      BY <2>1, <3>1, PodsRead
    <3>3. sources' = With(With(sources, "webhookPodLabelVersion", l), "webhookPodImageVersion", m)
      BY <1>3, <3>2
    <3>4. Found(sources') = Found(sources) \cup ({l, m} \ {""})
      BY <1>1, <3>3, PodsFound
    <3>5. Shown(cluster) = ({extractVersionFromLabels(cluster.crd.labels)} \cup
                            ({extractVersionFromLabels(cluster.service.labels)} \cup told)) \ {""}
      BY <1>2 DEF Shown
    <3> HIDE DEF told
    <3> QED
      BY <1>2, <3>2, <3>4, <3>5
  <2>2. (Cardinality(RunsOf(cluster.pods)) <= 1 => Found(sources) = Shown(cluster))'
    BY <1>1, <2>1
  <2> QED
    BY <1>1, <1>2, <1>3, <2>2 DEF StillInv, Determined
<1>4. CASE Determined("call failed")
  BY <1>1, <1>2, <1>4 DEF StillInv, Determined
<1> QED
  BY <1>3, <1>4 DEF ListPods

LEMMA VersionStep ==
    ASSUME VersionInv, [VersionNext \/ Upgrade]_versionVars
    PROVE  VersionInv'
<1>1. SourcesInv'
  BY SourcesStep DEF VersionInv
<1>2. StillInv'
  <2>1. CASE extractVersionFromCrd
    BY <2>1, CrdStill DEF VersionInv
  <2>2. CASE extractVersionFromService
    BY <2>2, ServiceStill DEF VersionInv
  <2>3. CASE ListPods
    BY <2>3, PodsStill DEF VersionInv
  <2>4. CASE determineVersion
    <3>1. /\ versionStep = "determine" /\ versionStep' = "reported"
          /\ UNCHANGED <<cluster, changed, lookups, sources, versionError>>
      BY <2>4 DEF determineVersion
    <3> QED
      BY <3>1 DEF VersionInv, StillInv
  <2>5. CASE Upgrade
    BY <2>5 DEF Upgrade, StillInv
  <2>6. CASE UNCHANGED versionVars
    BY <2>6 DEF versionVars, VersionInv, StillInv, LookupsInv
  <2> QED
    BY <2>1, <2>2, <2>3, <2>4, <2>5, <2>6 DEF VersionNext
<1>3. AnswerInv'
  <2>1. CASE determineVersion
    BY <2>1 DEF determineVersion, AnswerInv, Found
  <2>2. CASE UNCHANGED versionVars
    BY <2>2 DEF versionVars, VersionInv, AnswerInv
  <2>3. CASE extractVersionFromCrd \/ extractVersionFromService \/ ListPods \/ Upgrade
    BY <2>3 DEF extractVersionFromCrd, extractVersionFromService, ListPods, Upgrade, Determined,
                AnswerInv, VersionInv, SourcesInv
  <2> QED
    BY <2>1, <2>2, <2>3 DEF VersionNext
<1> QED
  BY <1>1, <1>2, <1>3 DEF VersionInv

\* The report is right about an installation that stands still and whose running pods are
\* alike, and a version without an error is one all calls agreed on (versionchecker.go:105-158).
THEOREM ReportsVersion == VersionSpec => []VersionReported
<1>1. VersionInit => VersionInv
  <2> SUFFICES ASSUME VersionInit
               PROVE  VersionInv
    OBVIOUS
  <2> USE DEF VersionInit, VersionIdle
  <2>1. SourcesInv
    BY DEF SourcesInv, Before, Found
  <2>2. StillInv
    <3>1. cluster \in Cluster
      BY VersionAssumption
    <3>2. LookupsInv
      <4>1. /\ Len(Lookups) = 4
            /\ Lookups \in Seq({Lookups[k] : k \in 1..4})
        BY DEF Lookups
      <4>2. \A k \in 1..4 : Lookups[k] = Lookups[k + (4 - 4)]
        OBVIOUS
      <4> QED
        BY <4>1, <4>2 DEF LookupsInv
    <3> QED
      BY <3>1, <3>2 DEF StillInv, Found, ShownBefore
  <2>3. AnswerInv
    BY DEF AnswerInv
  <2> QED
    BY <2>1, <2>2, <2>3 DEF VersionInv
<1>2. VersionInv /\ [VersionNext \/ Upgrade]_versionVars => VersionInv'
  BY VersionStep
<1>3. VersionInv => VersionReported
  <2> SUFFICES ASSUME VersionInv, versionStep = "reported"
               PROVE  VersionReported
    BY DEF VersionReported
  <2> DEFINE found == Found(sources)
  <2>1. IsFiniteSet(found)
    BY FoundFinite DEF VersionInv, SourcesInv, Before
  <2>2. answer = CASE found = {} -> [detected |-> "", error |-> "not detected"]
                   [] Cardinality(found) > 1 -> [detected |-> "", error |-> "multiple"]
                   [] OTHER -> [detected |-> CHOOSE v \in found : TRUE, error |-> versionError]
    BY DEF VersionInv, AnswerInv
  <2>3. /\ "" \notin found
        /\ versionError \in {"none", "CRDs not found", "call failed"}
        /\ versionError = "CRDs not found" => found = {}
    BY DEF VersionInv, SourcesInv
  <2>4. /\ ~changed
        /\ Cardinality(RunsOf(cluster.pods)) <= 1
        /\ versionError # "call failed"
        => found = Shown(cluster)
    BY DEF VersionInv, StillInv
  <2>5. found = {sources[place] : place \in DOMAIN sources}
    BY DEF Found
  <2> HIDE DEF found
  <2> DEFINE v == CHOOSE w \in found : TRUE
  <2>6. CASE found = {}
    <3>1. ~(Cardinality(found) > 1)
      BY <2>6, FS_EmptySet
    <3>2. answer.error = "not detected"
      BY <2>2, <2>6, <3>1
    <3> QED
      BY <2>4, <2>6, <3>1, <3>2 DEF VersionReported
  <2>7. CASE found # {} /\ Cardinality(found) > 1
    <3>1. answer.error = "multiple"
      BY <2>2, <2>7
    <3> QED
      BY <2>4, <2>7, <3>1 DEF VersionReported
  <2>8. CASE found # {} /\ ~(Cardinality(found) > 1)
    <3>1. answer.detected = v /\ answer.error = versionError
      BY <2>2, <2>8
    <3>2. v \in found
      BY <2>8
    <3> HIDE DEF v
    <3>3. found = {v}
      <4>1. Cardinality(found) \in Nat
        BY <2>1, FS_CardinalityType
      <4>2. Cardinality(found) <= 1
        BY <2>8, <4>1
      <4> QED
        BY <2>1, <3>2, <4>2, OneAtMost
    <3>4. answer.error = "none" =>
              /\ answer.detected # "" /\ versionError = "none"
              /\ {sources[place] : place \in DOMAIN sources} = {answer.detected}
      BY <2>3, <2>5, <3>1, <3>2, <3>3
    <3>5. ~changed /\ Cardinality(RunsOf(cluster.pods)) <= 1 /\ versionError # "call failed" =>
              /\ Shown(cluster) # {} /\ ~(Cardinality(Shown(cluster)) > 1)
              /\ answer.detected \in Shown(cluster) /\ answer.error = "none"
      BY <2>3, <2>4, <2>8, <3>1, <3>2
    <3> QED
      BY <3>4, <3>5 DEF VersionReported
  <2> QED
    BY <2>6, <2>7, <2>8
<1> QED
  BY <1>1, <1>2, <1>3, PTL DEF VersionSpec

-----------------------------------------------------------------------------
\* The places of the certificates, and who is taken for the issuer (secret.go:365-375).
LEMMA IssuerOfLeaf ==
    ASSUME certData \in Seq(Blocks), Issuers # {}, Cardinality(Intermediates) <= 1
    PROVE  issuerCert = LeafIssuer
<1>1. Len(certData) \in Nat /\ splitPEMs(certData) \subseteq 1..Len(certData)
  BY DEF splitPEMs
<1>2. Intermediates \subseteq 1..Len(certData)
  BY <1>1 DEF Intermediates
<1>3. CASE Intermediates = {}
  <2>1. Issuers = {0}
    BY <1>3 DEF Issuers
  <2>2. Last({0}) = 0
    BY DEF Last
  <2> QED
    BY <1>3, <2>1, <2>2 DEF issuerCert, LeafIssuer
<1>4. CASE Intermediates # {}
  <2>1. PICK x \in Intermediates : TRUE
    BY <1>4
  <2>2. IsFiniteSet(Intermediates)
    <3>1. IsFiniteSet(1..Len(certData))
      <4>1. 1 \in Int /\ Len(certData) \in Int
        BY <1>1
      <4> QED
        BY <4>1, FS_Interval
    <3> QED
      BY <1>2, <3>1, FS_Subset
  <2>3. Intermediates = {x}
    BY <2>1, <2>2, OneAtMost
  <2>4. x \in Nat /\ x >= 1
    BY <1>1, <1>2, <2>1
  <2>5. First({x}) = x
    BY <2>4 DEF First
  <2>6. Issuers = {x} \/ Issuers = {0, x}
    BY <2>3 DEF Issuers
  <2>7. Last({x}) = x /\ Last({0, x}) = x
    <3>1. Last({x}) = x
      BY <2>4 DEF Last
    <3>2. \A i \in {0, x} : (\A j \in {0, x} : j <= i) <=> i = x
      BY <2>4
    <3>3. Last({0, x}) = x
      BY <3>2 DEF Last
    <3> QED
      BY <3>1, <3>3
  <2> QED
    BY <1>4, <2>3, <2>5, <2>6, <2>7 DEF issuerCert, LeafIssuer
<1> QED
  BY <1>3, <1>4

-----------------------------------------------------------------------------
CRLAnswers == {"not asked", "error", "listed", "clean"}
OCSPAnswers == {"error", "revoked", "good", "unknown"}

\* What the answers of the CRL servers so far are, while the loop over them goes on.
CRLGoesOn ==
    /\ crlStatus = "-"
    /\ \A i \in 1..Len(asked.crl) :
          \/ crlURLs[i] = "https" /\ asked.crl[i] = "clean"
          \/ crlURLs[i] \notin {"ldap", "https", "invalid"} /\ asked.crl[i] = "not asked"

\* And what is said of the CRLs when it has ended.
CRLTold ==
    /\ (\E i \in 1..Len(asked.crl) : asked.crl[i] = "listed") <=> crlStatus = "Revoked"
    /\ crlStatus = "Valid" =>
         /\ Len(asked.crl) = Len(crlURLs)
         /\ \A i \in 1..Len(crlURLs) :
                /\ crlURLs[i] # "ldap"
                /\ asked.crl[i] = IF crlURLs[i] = "https" THEN "clean" ELSE "not asked"
         /\ \E i \in 1..Len(crlURLs) : asked.crl[i] = "clean"

OCSPGoesOn ==
    /\ ocspStatus = "-"
    /\ \A i \in 1..Len(asked.ocsp) : asked.ocsp[i] \in {"good", "unknown"}

OCSPTold ==
    /\ (\E i \in 1..Len(asked.ocsp) : asked.ocsp[i] = "revoked")
         <=> ocspStatus = "Marked as revoked"
    /\ ocspStatus = "valid" =>
         /\ ocspURLs # <<>>
         /\ Len(asked.ocsp) = Len(ocspURLs)
         /\ \A i \in 1..Len(ocspURLs) : asked.ocsp[i] \in {"good", "unknown"}
         /\ Issuers # {}

InspectInv ==
    /\ certData \in Seq(Blocks)
    /\ crlURLs \in Seq(STRING)
    /\ ocspURLs \in Seq(STRING)
    /\ asked \in [crl : Seq(CRLAnswers), ocsp : Seq(OCSPAnswers)]
    /\ Len(asked.crl) <= Len(crlURLs)
    /\ Len(asked.ocsp) <= Len(ocspURLs)
    /\ inspectStep \in {"get", "failed", "crl", "ocsp", "printed"}
    /\ inspectStep \in {"get", "crl"} => CRLGoesOn
    /\ inspectStep \in {"ocsp", "printed"} => CRLTold
    /\ inspectStep \in {"get", "crl", "ocsp"} => OCSPGoesOn
    /\ inspectStep = "printed" => OCSPTold

\* An answer more (secret.go:333-387).
LEMMA OneMore ==
    ASSUME NEW S, NEW s \in Seq(S), NEW x \in S
    PROVE  /\ Append(s, x) \in Seq(S)
           /\ Len(s) \in Nat
           /\ Len(Append(s, x)) = Len(s) + 1
           /\ Append(s, x)[Len(s) + 1] = x
           /\ \A i \in 1..Len(s) : Append(s, x)[i] = s[i]
           /\ 1..(Len(s) + 1) = 1..Len(s) \cup {Len(s) + 1}
OBVIOUS

LEMMA Untouched ==
    ASSUME InspectInv, UNCHANGED <<certData, caData, crlURLs, ocspURLs, asked>>
    PROVE  /\ (certData \in Seq(Blocks))' /\ (crlURLs \in Seq(STRING))'
           /\ (ocspURLs \in Seq(STRING))'
           /\ (asked \in [crl : Seq(CRLAnswers), ocsp : Seq(OCSPAnswers)])'
           /\ (Len(asked.crl) <= Len(crlURLs))' /\ (Len(asked.ocsp) <= Len(ocspURLs))'
BY DEF InspectInv

\* What one more answer of a CRL server changes.
LEMMA CRLAnswered ==
    ASSUME InspectInv, NEW said \in CRLAnswers,
           asked' = [asked EXCEPT !.crl = Append(@, said)],
           Len(asked.crl) + 1 <= Len(crlURLs),
           UNCHANGED <<certData, caData, crlURLs, ocspURLs>>
    PROVE  /\ (asked \in [crl : Seq(CRLAnswers), ocsp : Seq(OCSPAnswers)])'
           /\ (Len(asked.crl) <= Len(crlURLs))'
           /\ asked'.ocsp = asked.ocsp
           /\ asked'.crl[Len(asked.crl) + 1] = said
           /\ \A i \in 1..Len(asked.crl) : asked'.crl[i] = asked.crl[i]
           /\ (1..Len(asked.crl))' = 1..Len(asked.crl) \cup {Len(asked.crl) + 1}
<1> DEFINE s == asked.crl
           t == asked.ocsp
<1>1. s \in Seq(CRLAnswers) /\ t \in Seq(OCSPAnswers)
  BY DEF InspectInv
<1>2. asked'.crl = Append(s, said) /\ asked'.ocsp = t
      /\ asked' = [crl |-> Append(s, said), ocsp |-> t]
  BY DEF InspectInv
<1> HIDE DEF s, t
<1>3. /\ Append(s, said) \in Seq(CRLAnswers)
      /\ Len(s) \in Nat
      /\ Len(Append(s, said)) = Len(s) + 1
      /\ Append(s, said)[Len(s) + 1] = said
      /\ \A i \in 1..Len(s) : Append(s, said)[i] = s[i]
      /\ 1..(Len(s) + 1) = 1..Len(s) \cup {Len(s) + 1}
  BY <1>1, OneMore
<1>4. (asked \in [crl : Seq(CRLAnswers), ocsp : Seq(OCSPAnswers)])'
  BY <1>1, <1>2, <1>3
<1>5. (Len(asked.crl) <= Len(crlURLs))'
  <2>1. Len(s) + 1 <= Len(crlURLs)
    BY DEF s
  <2> QED
    BY <1>2, <1>3, <2>1
<1>6. asked'.ocsp = asked.ocsp
  BY <1>2 DEF t
<1>7. asked'.crl[Len(asked.crl) + 1] = said
  BY <1>2, <1>3 DEF s
<1>8. \A i \in 1..Len(asked.crl) : asked'.crl[i] = asked.crl[i]
  BY <1>2, <1>3 DEF s
<1>9. (1..Len(asked.crl))' = 1..Len(asked.crl) \cup {Len(asked.crl) + 1}
  BY <1>2, <1>3 DEF s
<1> QED
  BY <1>4, <1>5, <1>6, <1>7, <1>8, <1>9

LEMMA OCSPAnswered ==
    ASSUME InspectInv, NEW said \in OCSPAnswers,
           asked' = [asked EXCEPT !.ocsp = Append(@, said)],
           Len(asked.ocsp) + 1 <= Len(ocspURLs),
           UNCHANGED <<certData, caData, crlURLs, ocspURLs>>
    PROVE  /\ (asked \in [crl : Seq(CRLAnswers), ocsp : Seq(OCSPAnswers)])'
           /\ (Len(asked.ocsp) <= Len(ocspURLs))'
           /\ asked'.crl = asked.crl
           /\ asked'.ocsp[Len(asked.ocsp) + 1] = said
           /\ \A i \in 1..Len(asked.ocsp) : asked'.ocsp[i] = asked.ocsp[i]
           /\ (1..Len(asked.ocsp))' = 1..Len(asked.ocsp) \cup {Len(asked.ocsp) + 1}
<1> DEFINE s == asked.ocsp
           t == asked.crl
<1>1. s \in Seq(OCSPAnswers) /\ t \in Seq(CRLAnswers)
  BY DEF InspectInv
<1>2. asked'.ocsp = Append(s, said) /\ asked'.crl = t
      /\ asked' = [crl |-> t, ocsp |-> Append(s, said)]
  BY DEF InspectInv
<1> HIDE DEF s, t
<1>3. /\ Append(s, said) \in Seq(OCSPAnswers)
      /\ Len(s) \in Nat
      /\ Len(Append(s, said)) = Len(s) + 1
      /\ Append(s, said)[Len(s) + 1] = said
      /\ \A i \in 1..Len(s) : Append(s, said)[i] = s[i]
      /\ 1..(Len(s) + 1) = 1..Len(s) \cup {Len(s) + 1}
  BY <1>1, OneMore
<1>4. (asked \in [crl : Seq(CRLAnswers), ocsp : Seq(OCSPAnswers)])'
  BY <1>1, <1>2, <1>3
<1>5. (Len(asked.ocsp) <= Len(ocspURLs))'
  <2>1. Len(s) + 1 <= Len(ocspURLs)
    BY DEF s
  <2> QED
    BY <1>2, <1>3, <2>1
<1>6. asked'.crl = asked.crl
  BY <1>2 DEF t
<1>7. asked'.ocsp[Len(asked.ocsp) + 1] = said
  BY <1>2, <1>3 DEF s
<1>8. \A i \in 1..Len(asked.ocsp) : asked'.ocsp[i] = asked.ocsp[i]
  BY <1>2, <1>3 DEF s
<1>9. (1..Len(asked.ocsp))' = 1..Len(asked.ocsp) \cup {Len(asked.ocsp) + 1}
  BY <1>2, <1>3 DEF s
<1> QED
  BY <1>4, <1>5, <1>6, <1>7, <1>8, <1>9

\* The loop over the distribution points (secret.go:333-363).
LEMMA CRLStep ==
    ASSUME InspectInv, describeCRL
    PROVE  InspectInv'
<1>1. /\ inspectStep = "crl" /\ CRLGoesOn /\ OCSPGoesOn
      /\ UNCHANGED <<certData, caData, crlURLs, ocspURLs, ocspStatus>>
  BY DEF describeCRL, InspectInv
<1> DEFINE at == Len(asked.crl) + 1
<1>2. \A said \in CRLAnswers :
          at <= Len(crlURLs) /\ asked' = [asked EXCEPT !.crl = Append(@, said)] =>
              /\ (certData \in Seq(Blocks))' /\ (crlURLs \in Seq(STRING))'
              /\ (ocspURLs \in Seq(STRING))'
              /\ (asked \in [crl : Seq(CRLAnswers), ocsp : Seq(OCSPAnswers)])'
              /\ (Len(asked.crl) <= Len(crlURLs))' /\ (Len(asked.ocsp) <= Len(ocspURLs))'
              /\ OCSPGoesOn'
              /\ asked'.crl[at] = said
              /\ \A i \in 1..Len(asked.crl) : asked'.crl[i] = asked.crl[i]
              /\ (1..Len(asked.crl))' = 1..Len(asked.crl) \cup {at}
  <2> TAKE said \in CRLAnswers
  <2> HAVE at <= Len(crlURLs) /\ asked' = [asked EXCEPT !.crl = Append(@, said)]
  <2>1. /\ (asked \in [crl : Seq(CRLAnswers), ocsp : Seq(OCSPAnswers)])'
        /\ (Len(asked.crl) <= Len(crlURLs))'
        /\ asked'.ocsp = asked.ocsp
        /\ asked'.crl[at] = said
        /\ \A i \in 1..Len(asked.crl) : asked'.crl[i] = asked.crl[i]
        /\ (1..Len(asked.crl))' = 1..Len(asked.crl) \cup {at}
    BY <1>1, CRLAnswered
  <2>2. OCSPGoesOn'
    BY <1>1, <2>1 DEF OCSPGoesOn
  <2>3. /\ (certData \in Seq(Blocks))' /\ (crlURLs \in Seq(STRING))'
        /\ (ocspURLs \in Seq(STRING))'
        /\ (Len(asked.ocsp) <= Len(ocspURLs))'
    BY <1>1, <2>1 DEF InspectInv
  <2> QED
    BY <2>1, <2>2, <2>3
<1>3. CASE /\ UNCHANGED asked
           /\ crlStatus' \in {"No CRL endpoints set", "Invalid CRL URL",
                              "No CRL endpoints we support found"}
           /\ inspectStep' = "ocsp"
  <2>1. CRLTold'
    BY <1>1, <1>3 DEF CRLTold, CRLGoesOn
  <2>2. OCSPGoesOn'
    BY <1>1, <1>3 DEF OCSPGoesOn
  <2> QED
    BY <1>1, <1>3, <2>1, <2>2, Untouched DEF InspectInv
<1>4. CASE /\ at <= Len(crlURLs)
           /\ crlURLs[at] \notin {"ldap", "https", "invalid"}
           /\ asked' = [asked EXCEPT !.crl = Append(@, "not asked")]
           /\ UNCHANGED <<crlStatus, inspectStep>>
  <2>1. "not asked" \in CRLAnswers
    BY DEF CRLAnswers
  <2>2. CRLGoesOn'
    BY <1>1, <1>2, <1>4, <2>1 DEF CRLGoesOn
  <2> QED
    BY <1>1, <1>2, <1>4, <2>1, <2>2 DEF InspectInv
<1>5. CASE /\ at <= Len(crlURLs)
           /\ asked' = [asked EXCEPT !.crl = Append(@, "error")]
           /\ SaysOfCRL("Cannot check CRL")
  <2>1. "error" \in CRLAnswers
    BY DEF CRLAnswers
  <2>2. CRLTold'
    BY <1>1, <1>2, <1>5, <2>1 DEF CRLGoesOn, CRLTold, SaysOfCRL
  <2> QED
    BY <1>1, <1>2, <1>5, <2>1, <2>2 DEF InspectInv, SaysOfCRL
<1>6. CASE /\ at <= Len(crlURLs)
           /\ asked' = [asked EXCEPT !.crl = Append(@, "listed")]
           /\ SaysOfCRL("Revoked")
  <2>1. "listed" \in CRLAnswers
    BY DEF CRLAnswers
  <2>2. CRLTold'
    BY <1>1, <1>2, <1>6, <2>1 DEF CRLGoesOn, CRLTold, SaysOfCRL
  <2> QED
    BY <1>1, <1>2, <1>6, <2>1, <2>2 DEF InspectInv, SaysOfCRL
<1>7. CASE /\ at <= Len(crlURLs)
           /\ crlURLs[at] = "https"
           /\ asked' = [asked EXCEPT !.crl = Append(@, "clean")]
           /\ UNCHANGED <<crlStatus, inspectStep>>
  <2>1. "clean" \in CRLAnswers
    BY DEF CRLAnswers
  <2>2. CRLGoesOn'
    BY <1>1, <1>2, <1>7, <2>1 DEF CRLGoesOn
  <2> QED
    BY <1>1, <1>2, <1>7, <2>1, <2>2 DEF InspectInv
<1>8. CASE /\ at > Len(crlURLs)
           /\ UNCHANGED asked
           /\ \E i \in DOMAIN crlURLs : asked.crl[i] # "not asked"
           /\ SaysOfCRL("Valid")
  <2>a. Len(asked.crl) = Len(crlURLs)
    <3>1. /\ Len(asked.crl) \in Nat /\ Len(crlURLs) \in Nat
          /\ Len(asked.crl) <= Len(crlURLs)
      BY DEF InspectInv
    <3>2. at > Len(crlURLs)
      BY <1>8
    <3> QED
      BY <3>1, <3>2
  <2>b. DOMAIN crlURLs = 1..Len(crlURLs)
    BY DEF InspectInv
  <2>1. Len(asked.crl) = Len(crlURLs) /\ DOMAIN crlURLs = 1..Len(crlURLs)
    BY <2>a, <2>b
  <2>2. CRLTold'
    BY <1>1, <1>8, <2>1 DEF CRLGoesOn, CRLTold, SaysOfCRL
  <2>3. OCSPGoesOn'
    BY <1>1, <1>8 DEF OCSPGoesOn
  <2> QED
    BY <1>1, <1>8, <2>2, <2>3, Untouched DEF InspectInv, SaysOfCRL
<1> QED
  BY <1>3, <1>4, <1>5, <1>6, <1>7, <1>8 DEF describeCRL, SaysOfCRL

\* And the loop over the OCSP servers (util.go:72-120).
LEMMA OCSPStep ==
    ASSUME InspectInv, describeOCSP
    PROVE  InspectInv'
<1>1. /\ inspectStep = "ocsp" /\ CRLTold /\ OCSPGoesOn
      /\ UNCHANGED <<certData, caData, crlURLs, ocspURLs, crlStatus>>
  BY DEF describeOCSP, InspectInv
<1> DEFINE at == Len(asked.ocsp) + 1
<1>2. \A said \in OCSPAnswers :
          at <= Len(ocspURLs) /\ asked' = [asked EXCEPT !.ocsp = Append(@, said)] =>
              /\ (certData \in Seq(Blocks))' /\ (crlURLs \in Seq(STRING))'
              /\ (ocspURLs \in Seq(STRING))'
              /\ (asked \in [crl : Seq(CRLAnswers), ocsp : Seq(OCSPAnswers)])'
              /\ (Len(asked.crl) <= Len(crlURLs))' /\ (Len(asked.ocsp) <= Len(ocspURLs))'
              /\ CRLTold'
              /\ asked'.ocsp[at] = said
              /\ \A i \in 1..Len(asked.ocsp) : asked'.ocsp[i] = asked.ocsp[i]
              /\ (1..Len(asked.ocsp))' = 1..Len(asked.ocsp) \cup {at}
  <2> TAKE said \in OCSPAnswers
  <2> HAVE at <= Len(ocspURLs) /\ asked' = [asked EXCEPT !.ocsp = Append(@, said)]
  <2>1. /\ (asked \in [crl : Seq(CRLAnswers), ocsp : Seq(OCSPAnswers)])'
        /\ (Len(asked.ocsp) <= Len(ocspURLs))'
        /\ asked'.crl = asked.crl
        /\ asked'.ocsp[at] = said
        /\ \A i \in 1..Len(asked.ocsp) : asked'.ocsp[i] = asked.ocsp[i]
        /\ (1..Len(asked.ocsp))' = 1..Len(asked.ocsp) \cup {at}
    BY <1>1, OCSPAnswered
  <2>2. CRLTold'
    BY <1>1, <2>1 DEF CRLTold
  <2>3. /\ (certData \in Seq(Blocks))' /\ (crlURLs \in Seq(STRING))'
        /\ (ocspURLs \in Seq(STRING))'
        /\ (Len(asked.crl) <= Len(crlURLs))'
    BY <1>1, <2>1 DEF InspectInv
  <2> QED
    BY <2>1, <2>2, <2>3
<1>3. CASE /\ UNCHANGED asked
           /\ ocspStatus' \in {"Cannot check OCSP, no issuer", "Cannot check OCSP"}
           /\ inspectStep' = "printed"
  <2>1. OCSPTold'
    BY <1>1, <1>3 DEF OCSPTold, OCSPGoesOn
  <2>2. CRLTold'
    BY <1>1, <1>3 DEF CRLTold
  <2> QED
    BY <1>1, <1>3, <2>1, <2>2, Untouched DEF InspectInv
<1>4. CASE /\ at <= Len(ocspURLs)
           /\ asked' = [asked EXCEPT !.ocsp = Append(@, "error")]
           /\ SaysOfOCSP("Cannot check OCSP")
  <2>1. "error" \in OCSPAnswers
    BY DEF OCSPAnswers
  <2>2. OCSPTold'
    BY <1>1, <1>2, <1>4, <2>1 DEF OCSPGoesOn, OCSPTold, SaysOfOCSP
  <2> QED
    BY <1>1, <1>2, <1>4, <2>1, <2>2 DEF InspectInv, SaysOfOCSP
<1>5. CASE /\ at <= Len(ocspURLs)
           /\ asked' = [asked EXCEPT !.ocsp = Append(@, "revoked")]
           /\ SaysOfOCSP("Marked as revoked")
  <2>1. "revoked" \in OCSPAnswers
    BY DEF OCSPAnswers
  <2>2. OCSPTold'
    BY <1>1, <1>2, <1>5, <2>1 DEF OCSPGoesOn, OCSPTold, SaysOfOCSP
  <2> QED
    BY <1>1, <1>2, <1>5, <2>1, <2>2 DEF InspectInv, SaysOfOCSP
<1>6. ASSUME NEW said \in {"good", "unknown"},
             at <= Len(ocspURLs),
             asked' = [asked EXCEPT !.ocsp = Append(@, said)],
             UNCHANGED <<ocspStatus, inspectStep>>
      PROVE  InspectInv'
  <2>1. said \in OCSPAnswers
    BY DEF OCSPAnswers
  <2>2. OCSPGoesOn'
    BY <1>1, <1>2, <1>6, <2>1 DEF OCSPGoesOn
  <2> QED
    BY <1>1, <1>2, <1>6, <2>1, <2>2 DEF InspectInv
<1>7. CASE /\ Issuers # {}
           /\ at > Len(ocspURLs)
           /\ ocspURLs # <<>>
           /\ SaysOfOCSP("valid")
           /\ UNCHANGED asked
  <2>1. Len(asked.ocsp) = Len(ocspURLs)
    <3>1. /\ Len(asked.ocsp) \in Nat /\ Len(ocspURLs) \in Nat
          /\ Len(asked.ocsp) <= Len(ocspURLs)
      BY DEF InspectInv
    <3> QED
      BY <1>7, <3>1
  <2>2. (Issuers # {})'
    BY <1>1, <1>7 DEF Issuers, Intermediates, splitPEMs, First
  <2>3. OCSPTold'
    BY <1>1, <1>7, <2>1, <2>2 DEF OCSPGoesOn, OCSPTold, SaysOfOCSP
  <2>4. CRLTold'
    BY <1>1, <1>7 DEF CRLTold
  <2> QED
    BY <1>1, <1>7, <2>3, <2>4, Untouched DEF InspectInv, SaysOfOCSP
<1> QED
  BY <1>3, <1>4, <1>5, <1>6, <1>7 DEF describeOCSP, SaysOfOCSP

LEMMA InspectStepInv == InspectInv /\ [InspectNext]_inspectVars => InspectInv'
<1> SUFFICES ASSUME InspectInv, [InspectNext]_inspectVars
             PROVE  InspectInv'
  OBVIOUS
<1>1. CASE GetTLSSecret
  BY <1>1 DEF GetTLSSecret, InspectInv, CRLGoesOn, OCSPGoesOn
<1>2. CASE describeCRL
  BY <1>2, CRLStep
<1>3. CASE describeOCSP
  BY <1>3, OCSPStep
<1>4. CASE UNCHANGED inspectVars
  <2>1. Issuers' = Issuers
    BY <1>4 DEF inspectVars, Issuers, Intermediates, splitPEMs, First
  <2> QED
    BY <1>4, <2>1 DEF inspectVars, InspectInv, CRLGoesOn, OCSPGoesOn, CRLTold, OCSPTold
<1> QED
  BY <1>1, <1>2, <1>3, <1>4 DEF InspectNext

\* What is said of the revocation is what the servers said (secret.go:333-387).
THEOREM ReportsRevocation == InspectSpec => []RevocationReported
<1>1. InspectInit => InspectInv
  BY DEF InspectInit, InspectIdle, NotAsked, InspectInv, CRLGoesOn, OCSPGoesOn
<1>2. InspectInv => RevocationReported
  <2> SUFFICES ASSUME InspectInv, inspectStep = "printed"
               PROVE  RevocationReported
    BY DEF RevocationReported
  <2>1. /\ DOMAIN asked.crl = 1..Len(asked.crl) /\ DOMAIN asked.ocsp = 1..Len(asked.ocsp)
        /\ DOMAIN crlURLs = 1..Len(crlURLs) /\ DOMAIN ocspURLs = 1..Len(ocspURLs)
    BY DEF InspectInv
  <2>2. CRLTold /\ OCSPTold /\ certData \in Seq(Blocks)
    BY DEF InspectInv
  <2>3. ocspStatus = "valid" /\ Cardinality(Intermediates) <= 1 => issuerCert = LeafIssuer
    BY <2>2, IssuerOfLeaf DEF OCSPTold
  <2>4. /\ (\E i \in DOMAIN asked.crl : asked.crl[i] = "listed") <=> crlStatus = "Revoked"
        /\ (\E i \in DOMAIN asked.ocsp : asked.ocsp[i] = "revoked")
             <=> ocspStatus = "Marked as revoked"
    BY <2>1, <2>2 DEF CRLTold, OCSPTold
  <2>5. crlStatus = "Valid" =>
          /\ Len(asked.crl) = Len(crlURLs)
          /\ \A i \in DOMAIN crlURLs :
                 /\ crlURLs[i] # "ldap"
                 /\ asked.crl[i] = IF crlURLs[i] = "https" THEN "clean" ELSE "not asked"
          /\ \E i \in DOMAIN crlURLs : asked.crl[i] = "clean"
    BY <2>1, <2>2 DEF CRLTold
  <2>6. ocspStatus = "valid" =>
          /\ ocspURLs # <<>>
          /\ Len(asked.ocsp) = Len(ocspURLs)
          /\ \A i \in DOMAIN ocspURLs : asked.ocsp[i] \in {"good", "unknown"}
    BY <2>1, <2>2 DEF OCSPTold
  <2> QED
    BY <2>3, <2>4, <2>5, <2>6 DEF RevocationReported
<1> QED
  BY <1>1, <1>2, InspectStepInv, PTL DEF InspectSpec
=============================================================================

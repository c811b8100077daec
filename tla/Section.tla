------------------------------ MODULE Section ------------------------------
(***************************************************************************)
(* rt0/os/Windows/Section.cpp and rt0/os/Macos/Section.cpp: a constructor  *)
(* of the library finds the sections of its own image that hold Cangjie    *)
(* metadata and the range of the runtime's code, and computes how far the  *)
(* metadata reaches.  Windows walks the section table and compares         *)
(* prefixes, macOS asks the loader for each section by its exact name.     *)
(***************************************************************************)
EXTENDS Integers, Sequences, FiniteSetsExt, Functions

CONSTANTS
  ImageLists,  \* what may be loaded: sequences of [name, base, sections]
  Own,         \* the name of the image the constructor is part of
  Word         \* 2^32: unsigned long on Windows, twice the limit of int

\* The comparisons of the else-if chain, in its order, and what each one fills.
SectionNames == <<
  <<".header", "Metadata">>,         <<".cjsdkv", "SDKVersion">>,
  <<".cjmthd", "MethodInfo">>,       <<".cjinitF", "GlobalInitFunc">>,
  <<".cjspdct", "StringPoolDict">>,  <<".cjsp", "StringPool">>,
  <<".cjsm", "StackMap">>,           <<".cjgctib", "GCTib">>,
  <<".cjgcrts", "GCRoots">>,         <<".cjtt", "TypeTemplate">>,
  <<".cjti", "TypeInfo">>,           <<".cjfield", "TypeFields">>,
  <<".cjmtlb", "MTable">>,           <<".cjinty", "InnerTypeExtensions">>,
  <<".cjouty", "OuterTypeExtensions">>, <<".cjsgt", "StaticGITable">>,
  <<".cjgcflg", "GCFlags">>,         <<".cjrflp", "ReflectPkgInfo">>,
  <<".cjrflv", "ReflectGV">>,        <<".cjrflg", "ReflectGI">>,
  <<".cjtpe", "TypeExt">>,           <<".text_rt", "RuntimeText">>,
  <<".text_th", "ThreadText">> >>

\* The names macOS asks for; it has no section of its own for ThreadText.
SectionDataNames == <<
  <<"__cjmetaheader", "Metadata">>,  <<"__cjsdkversion", "SDKVersion">>,
  <<"__cjmethodinfo", "MethodInfo">>, <<"__cjglobalFunc", "GlobalInitFunc">>,
  <<"__cjstrpooldict", "StringPoolDict">>, <<"__cjstrpool", "StringPool">>,
  <<"__cjstackmap", "StackMap">>,    <<"__cjgctib", "GCTib">>,
  <<"__cjgcroots", "GCRoots">>,      <<"__cjtemplate", "TypeTemplate">>,
  <<"__cjtypeinfo", "TypeInfo">>,    <<"__cj_fields", "TypeFields">>,
  <<"__cjmtable", "MTable">>,        <<"__cjinnerty_eds", "InnerTypeExtensions">>,
  <<"__cjouterty_eds", "OuterTypeExtensions">>, <<"__cjstatic_gi", "StaticGITable">>,
  <<"__cjgcflags", "GCFlags">>,      <<"__cjref_pkginfo", "ReflectPkgInfo">>,
  <<"__cjref_gv", "ReflectGV">>,     <<"__cjref_gi", "ReflectGI">>,
  <<"__cjtype_ext", "TypeExt">>,     <<"__cjrt_text", "RuntimeText">> >>

Kinds == {SectionNames[p][2] : p \in DOMAIN SectionNames}
MetadataKinds == Kinds \ {"Metadata", "RuntimeText", "ThreadText"}
Nowhere == [start |-> 0, size |-> 0]

VARIABLES
  platform,  \* which of the two files is built
  images,    \* the images of the process, in the loader's order
  pc,        \* how far InitData is
  i,         \* the section header the Windows loop is at
  located,   \* the globals: start and size of each kind
  total      \* __CJMetadataSize at the end, _CJMetaDataSize on macOS
vars == <<platform, images, pc, i, located, total>>

\* The globals are zero before any constructor runs.
Init ==
  /\ platform \in {"windows", "macos"}
  /\ images \in ImageLists
  /\ pc = "start"
  /\ i = 1
  /\ located = [k \in Kinds |-> Nowhere]
  /\ total = 0

\* strncmp(name, pattern, sizeof(pattern) - 1) == 0
StartsWith(name, pattern) ==
  Len(name) >= Len(pattern) /\ SubSeq(name, 1, Len(pattern)) = pattern

\* A section of the library has a name that is asked for in full, or none of
\* these; the library is less than half as long as the address space.
IsWhole(name) ==
  \A p \in DOMAIN SectionNames : StartsWith(name, SectionNames[p][1]) =>
    \E q \in DOMAIN SectionNames : SectionNames[q][1] = name
ListOK(list) ==
  /\ list \in Seq(Range(list))
  /\ \E n \in DOMAIN list : list[n].name = Own
  /\ \A n \in DOMAIN list : list[n].name = Own =>
       /\ \A m \in DOMAIN list : list[m].name = Own => m = n
       /\ list[n].base \in Nat /\ list[n].sections \in Seq(Range(list[n].sections))
       /\ \A s \in DOMAIN list[n].sections :
            LET section == list[n].sections[s] IN
              /\ section.va \in Nat /\ section.size \in Nat
              /\ 2 * (section.va + section.size) < Word
              /\ IsWhole(section.name)

OwnImage == CHOOSE m \in {images[n] : n \in DOMAIN images} : m.name = Own
Placed(image, section) == [start |-> image.base + section.va, size |-> section.size]

-----------------------------------------------------------------------------
(* Windows *)

\* GetModuleHandleEx by address; without a handle, or on an image that is not a
\* PE file, the constructor gives up.
FindOwnModule ==
  /\ platform = "windows" /\ pc = "start"
  /\ pc' \in {"scan", "failed"}
  /\ UNCHANGED <<platform, images, i, located, total>>

\* No comparison of the chain takes the section of a later one, and no kind is
\* filled twice.
NamesDiffer ==
  /\ \A p, q \in DOMAIN SectionNames :
       /\ StartsWith(SectionNames[p][1], SectionNames[q][1]) => p <= q
       /\ StartsWith(SectionNames[p][1], SectionNames[p][1])
       /\ SectionNames[p][2] = SectionNames[q][2] => p = q
  /\ \A p, q \in DOMAIN SectionDataNames :
       SectionDataNames[p][2] = SectionDataNames[q][2] => p = q

Matches(name) == {p \in DOMAIN SectionNames : StartsWith(name, SectionNames[p][1])}

\* Mutant: the longer of two names is tried after its prefix.
LastMatch(name) == Max(Matches(name))

FirstMatch(name) == Min(Matches(name))

\* One turn of the loop over the section headers.
ScanSection ==
  /\ platform = "windows" /\ pc = "scan" /\ i <= Len(OwnImage.sections)
  /\ LET section == OwnImage.sections[i] IN
       located' = IF Matches(section.name) = {} THEN located
                  ELSE [located EXCEPT ![SectionNames[FirstMatch(section.name)][2]] =
                          Placed(OwnImage, section)]
  /\ i' = i + 1
  /\ UNCHANGED <<platform, images, pc, total>>

Ends(loc) == {loc[k].start : k \in MetadataKinds}
             \union {loc[k].start + loc[k].size : k \in MetadataKinds}

\* std::max minus std::min over starts and ends; an absent kind counts as 0.
Reach(loc) == Max(Ends(loc)) - Min(Ends(loc))

\* The size of the header section gives way to the size of all the metadata,
\* cut to the 32 bits of an unsigned long.
ComputeSizeWindows ==
  /\ platform = "windows" /\ pc = "scan" /\ i > Len(OwnImage.sections)
  /\ total' = Reach(located) % Word
  /\ located' = [located EXCEPT !["Metadata"].size = Reach(located) % Word]
  /\ pc' = "done"
  /\ UNCHANGED <<platform, images, i>>

-----------------------------------------------------------------------------
(* macOS *)

\* The image list is searched for the name dladdr gives for this library; the
\* library is loaded while its constructor runs, so the search succeeds.
FindOwnImage ==
  /\ platform = "macos" /\ pc = "start"
  /\ i' = Min({n \in DOMAIN images : images[n].name = Own})
  /\ pc' = "sections"
  /\ UNCHANGED <<platform, images, located, total>>

\* getsectiondata: the section with exactly this name, or null.
SectionData(image, name) ==
  LET same == {n \in DOMAIN image.sections : image.sections[n].name = name} IN
    IF same = {} THEN Nowhere ELSE Placed(image, image.sections[Min(same)])

InitSectionInformation ==
  /\ platform = "macos" /\ pc = "sections"
  /\ located' = [k \in Kinds |->
       LET asked == {p \in DOMAIN SectionDataNames : SectionDataNames[p][2] = k} IN
         IF asked = {} THEN Nowhere
         ELSE SectionData(images[i], SectionDataNames[Min(asked)][1])]
  /\ pc' = "size"
  /\ UNCHANGED <<platform, images, i, total>>

\* The result is an int.
AsInt(x) == ((x + Word \div 2) % Word) - Word \div 2

ComputeSizeMacos ==
  /\ platform = "macos" /\ pc = "size"
  /\ total' = AsInt(Reach(located))
  /\ pc' = "done"
  /\ UNCHANGED <<platform, images, i, located>>

Next == \/ FindOwnModule \/ ScanSection \/ ComputeSizeWindows
        \/ FindOwnImage \/ InitSectionInformation \/ ComputeSizeMacos

Spec == Init /\ [][Next]_vars

-----------------------------------------------------------------------------

\* The full names and their kinds on the platform, and the section of a name.
Asked == Range(IF platform = "windows" THEN SectionNames ELSE SectionDataNames)
Having(name) == {n \in DOMAIN OwnImage.sections : OwnImage.sections[n].name = name}

\* The scan by prefixes and the lookup by name find the same thing: each kind
\* is where the section of its full name is, and zero without one
\* (Windows/Section.cpp:123-217, Macos/Section.cpp:104-139).
EverySectionFound ==
  pc = "done" => \A asked \in Asked :
    LET name == asked[1]  kind == asked[2] IN
      IF Having(name) = {} THEN located[kind].start = 0
      ELSE \E n \in Having(name) :
             LET there == Placed(OwnImage, OwnImage.sections[n]) IN
               /\ located[kind].start = there.start
               /\ (kind = "Metadata" /\ platform = "windows") \/ located[kind] = there

\* With every kind present the size reaches over all of them and no further.
\* Without one, an absent kind counts from address 0
\* (Windows/Section.cpp:221-250, Macos/Section.cpp:172-196).
SizeSpansMetadata ==
  pc = "done" /\ (\A asked \in Asked : asked[2] \in MetadataKinds => Having(asked[1]) # {}) =>
    \E first, last \in MetadataKinds :
      /\ \A k \in MetadataKinds :
           /\ located[first].start <= located[k].start
           /\ located[k].start + located[k].size <= located[last].start + located[last].size
      /\ located[first].start + total = located[last].start + located[last].size

\* The unwinder and the metadata readers are given the right ranges and the
\* right total.
SectionsFound == EverySectionFound /\ SizeSpansMetadata

=============================================================================

------------------------------- MODULE Loader -------------------------------
(***************************************************************************)
(* rt0/os/Windows/Loader.cpp and rt0/os/Linux/Loader.cpp: loading a binary *)
(* file, letting it go, and asking which file and symbol an address        *)
(* belongs to.  On Linux the question is one call of dladdr, on Windows    *)
(* several calls and reads that another thread's unloading can come        *)
(* between.  The system's loader (images, reference counts, where an image *)
(* is mapped) is external.  Failed loads and null arguments change nothing.*)
(***************************************************************************)
EXTENDS Integers, Sequences, FiniteSetsExt, SequencesExt

CONSTANTS
  Files,
  Image,      \* what is in a file: see ImagesOK
  Bases,      \* where an image can be mapped
  Fixed,      \* the files loaded from the start to the end, in load order
  FixedBase,  \* and where each of them is
  Addresses,  \* the addresses asked about
  MaxCalls    \* bound: loads, unloads and questions

None == "none"

\* exports are offsets by ordinal, names say [name, ordinal].
TablesOK(image) ==
  /\ image.size \in Nat /\ image.exports \in Seq(0..(image.size - 1))
  /\ DOMAIN image.names \subseteq Nat
  /\ \A n \in DOMAIN image.names :
       /\ image.names[n].ordinal \in DOMAIN image.exports /\ image.names[n].name # None
       /\ \A m \in DOMAIN image.names : image.names[m].name = image.names[n].name => m = n

\* Wherever two images are mapped, they do not overlap.
ASSUME ImagesOK ==
  /\ None \notin Files /\ Addresses \subseteq Int /\ Bases \subseteq Int
  /\ Fixed \in Seq(Files) /\ IsInjective(Fixed)
  /\ \A n \in DOMAIN Fixed : FixedBase[Fixed[n]] \in Bases
  /\ \A n, m \in DOMAIN Fixed : FixedBase[Fixed[n]] = FixedBase[Fixed[m]] => n = m
  /\ \A f \in Files :
       TablesOK(Image[f]) /\ \A a, b \in Bases : a < b => a + Image[f].size <= b

VARIABLES
  platform,   \* windows, linux or macos; the last two share a file
  images,     \* external: [file, base] in load order
  refs,       \* external: how often each file was loaded and not yet freed
  query,      \* a thread in GetBinaryInfoFromAddress
  crashed,    \* ghost: memory of no image was read
  gone,       \* ghost: files unmapped so far
  calls
loaderVars == <<platform, images, refs, query, crashed, gone, calls>>

NoAnswer == [path |-> None, symbol |-> None]
Idle == [step |-> "idle", address |-> 0, handler |-> 0, answer |-> NoAnswer,
         ret |-> 0, file |-> None]

\* bound: a behaviour either asks questions or, in UnwindWin, walks stacks.
LoaderInit ==
  /\ platform \in {"windows", "linux", "macos"}
  /\ images = [n \in DOMAIN Fixed |-> [file |-> Fixed[n], base |-> FixedBase[Fixed[n]]]]
  /\ refs = [f \in Files |-> IF f \in ToSet(Fixed) THEN 1 ELSE 0]
  /\ query \in {Idle, [Idle EXCEPT !.step = "never"]}
  /\ crashed = FALSE /\ gone = {} /\ calls = 0

Loaded == {images[n] : n \in DOMAIN images}
Covers(image, address) ==
  image.base <= address /\ address < image.base + Image[image.file].size
\* The image an address is in; None has no file.
At(address) ==
  LET found == {image \in Loaded : Covers(image, address)} IN
    IF found = {} THEN [file |-> None, base |-> 0] ELSE CHOOSE image \in found : TRUE

Call == calls < MaxCalls /\ calls' = calls + 1

-----------------------------------------------------------------------------
(* Loading and letting go *)

\* A file that is loaded already only counts one more reference.
LoadImage(f) ==
  /\ refs' = [refs EXCEPT ![f] = @ + 1]
  /\ IF refs[f] > 0 THEN UNCHANGED images
     ELSE \E b \in Bases \ {image.base : image \in Loaded} :
            images' = Append(images, [file |-> f, base |-> b])

\* The last reference unmaps the image.
FreeImage(f) ==
  /\ refs' = [refs EXCEPT ![f] = @ - 1]
  /\ IF refs[f] > 1 THEN UNCHANGED <<images, gone, query>>
     ELSE /\ \E n \in DOMAIN images : images[n].file = f /\ images' = RemoveAt(images, n)
          /\ gone' = gone \union {f}
          /\ query' = IF query.file = f THEN [query EXCEPT !.file = None] ELSE query

\* LoadLibraryA
LoadBinaryFile(f) ==
  /\ platform = "windows" /\ f \notin ToSet(Fixed) /\ Call
  /\ LoadImage(f)
  /\ UNCHANGED <<platform, query, crashed, gone>>

\* dlopen
LoadBinaryFileLinux(f) ==
  /\ platform # "windows" /\ f \notin ToSet(Fixed) /\ Call
  /\ LoadImage(f)
  /\ UNCHANGED <<platform, query, crashed, gone>>

\* FreeLibrary; caller: no function of the image is on a stack.
UnloadBinaryFile(f) ==
  /\ platform = "windows" /\ f \notin ToSet(Fixed) /\ refs[f] > 0 /\ Call
  /\ FreeImage(f)
  /\ UNCHANGED <<platform, crashed>>

\* dlclose
UnloadBinaryFileLinux(f) ==
  /\ platform # "windows" /\ f \notin ToSet(Fixed) /\ refs[f] > 0 /\ Call
  /\ FreeImage(f)
  /\ UNCHANGED <<platform, crashed>>

\* GetProcAddress on an image: the address of a name, or 0.
FindSymbol(image, name) ==
  LET named == {n \in DOMAIN Image[image.file].names : Image[image.file].names[n].name = name} IN
    IF named = {} THEN 0
    ELSE image.base + Image[image.file].exports[Image[image.file].names[Min(named)].ordinal]

-----------------------------------------------------------------------------
(* GetBinaryInfoFromAddress on Windows *)

Ask(address) ==
  /\ query.step = "idle" /\ Call
  /\ query' = [Idle EXCEPT !.step = "valid", !.address = address, !.file = At(address).file]
  /\ UNCHANGED <<platform, images, refs, crashed, gone>>

Step(from) == platform = "windows" /\ query.step = from /\ ~crashed
OnlyQuery == UNCHANGED <<platform, images, refs, gone, calls>>

\* VirtualQuery: memory outside the images may be valid too.
IsValidAddress ==
  /\ Step("valid")
  /\ \E valid \in IF At(query.address).file = None THEN BOOLEAN ELSE {TRUE} :
       query' = [query EXCEPT !.step = IF valid THEN "path" ELSE "done"]
  /\ OnlyQuery /\ UNCHANGED crashed

\* GetModuleHandleExA without a reference: nothing keeps the image.
GetModuleHandler(from, to, otherwise) ==
  /\ Step(from)
  /\ LET image == At(query.address) IN
       query' = IF image.file = None THEN [query EXCEPT !.step = otherwise]
                ELSE [query EXCEPT !.step = to, !.handler = image.base]
  /\ OnlyQuery /\ UNCHANGED crashed

\* The name of whatever is mapped at the handle now.
GetBinaryFilePath ==
  \/ GetModuleHandler("path", "filename", "symbol")
  \/ /\ Step("filename")
     /\ query' = [query EXCEPT !.step = "symbol", !.answer.path = At(query.handler).file]
     /\ OnlyQuery /\ UNCHANGED crashed

\* Mutant: the last export below the address, in a table without order.
LastExport(exports, offset) ==
  LET best[o \in 0..Len(exports)] ==
        IF o = 0 THEN 0 ELSE IF exports[o] > offset THEN best[o - 1] ELSE o
  IN best[Len(exports)]

\* The loop over the addresses table: the ordinal of the highest export that
\* is not above the offset, the first one of equals; 0 without one.
CandidateIndex(exports, offset) ==
  LET best[o \in 0..Len(exports)] ==
        IF o = 0 THEN 0
        ELSE IF exports[o] > offset \/ (best[o - 1] # 0 /\ exports[best[o - 1]] >= exports[o])
          THEN best[o - 1] ELSE o
  IN best[Len(exports)]

\* The loop over the ordinals table: the first name of the ordinal.
NameOfOrdinal(names, ordinal) ==
  LET named == {n \in DOMAIN names : names[n].ordinal = ordinal} IN
    IF named = {} THEN None ELSE names[Min(named)].name

\* The headers and tables are read where the handle points to.
GetSymbolName ==
  \/ GetModuleHandler("symbol", "exports", "done")
  \/ /\ Step("exports")
     /\ LET f == At(query.handler).file IN
          IF f = None THEN crashed' = TRUE /\ UNCHANGED query
          ELSE /\ query' = [query EXCEPT !.step = "done",
                    !.answer.symbol = NameOfOrdinal(Image[f].names,
                       CandidateIndex(Image[f].exports, query.address - query.handler))]
               /\ UNCHANGED crashed
     /\ OnlyQuery

\* The answer counts when a path was found.
GetBinaryInfoFromAddress ==
  /\ Step("done")
  /\ query' = [query EXCEPT !.step = "answered",
                            !.ret = IF query.answer.path = None THEN 0 ELSE 1]
  /\ OnlyQuery /\ UNCHANGED crashed

\* dladdr looks everything up under the loader's own lock.
GetBinaryInfoFromAddressLinux ==
  /\ platform # "windows" /\ query.step = "valid"
  /\ LET image == At(query.address) IN
       query' = IF image.file = None THEN [query EXCEPT !.step = "answered"]
                ELSE [query EXCEPT !.step = "answered", !.ret = 1,
                        !.answer = [path |-> image.file,
                                    symbol |-> NameOfOrdinal(Image[image.file].names,
                          CandidateIndex(Image[image.file].exports, query.address - image.base))]]
  /\ OnlyQuery /\ UNCHANGED crashed

AnswerTaken ==
  /\ query.step = "answered"
  /\ query' = Idle
  /\ OnlyQuery /\ UNCHANGED crashed

Binaries ==
  \/ \E f \in Files : LoadBinaryFile(f) \/ LoadBinaryFileLinux(f) \/ UnloadBinaryFileLinux(f)
  \/ \E address \in Addresses : Ask(address)
  \/ IsValidAddress \/ GetBinaryFilePath \/ GetSymbolName
  \/ GetBinaryInfoFromAddress \/ GetBinaryInfoFromAddressLinux \/ AnswerTaken

-----------------------------------------------------------------------------

\* If somebody keeps the image loaded during the question, the answer names
\* that file and the nearest export below the address, unless its ordinal has
\* no name; and no memory of an unloaded image is read
\* (Windows/Loader.cpp:58-152, Linux/Loader.cpp:43-56).
AnswerIsOneImage ==
  query.file # None =>
    /\ ~crashed
    /\ query.step = "answered" =>
         LET image == At(query.address)
             exports == Image[image.file].exports
             below == {o \in DOMAIN exports : image.base + exports[o] <= query.address}
             nearest == {o \in below : \A p \in below : exports[p] <= exports[o]}
             names == {n \in ToSet(Image[image.file].names) : n.ordinal \in nearest}
             symbol == query.answer.symbol IN
           /\ query.ret = 1 /\ query.answer.path = query.file
           /\ IF symbol = None THEN {n.ordinal : n \in names} # nearest \/ nearest = {}
              ELSE \E o \in nearest : FindSymbol(image, symbol) = image.base + exports[o]
=============================================================================

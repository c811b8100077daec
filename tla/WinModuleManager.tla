-------------------------- MODULE WinModuleManager --------------------------
(***************************************************************************)
(* rt0/os/Windows/WinModuleManager: the records of loaded images the       *)
(* unwinder finds the function of a pc with.  They are read once from the  *)
(* process environment block and again whenever a pc is in none of them.   *)
(* A record is kept under its name for ever, whatever happens to the image.*)
(* The set of records has no lock; a lookup and an insertion are one step  *)
(* each, which is kinder than the code.                                    *)
(***************************************************************************)
EXTENDS Loader

CONSTANTS
  Walkers,    \* threads that unwind a stack
  Capacity,   \* moduleHandlerCapacity, 50 in the source
  Word        \* 2^32: the width of the indices of the search

\* Function tables are sorted, and small enough for the indices of the search.
TableOK(image) ==
  LET table == image.functions IN
    /\ Len(table) \in Nat /\ 2 * Len(table) < Word
    /\ \A n \in 1..Len(table) :
         /\ table[n].start \in Nat /\ table[n].end \in Nat
         /\ table[n].start + 1 < table[n].end /\ table[n].end <= image.size
         /\ \A m \in 1..(n - 1) : table[m].end <= table[n].start
ASSUME FunctionsOK == Word \in Nat /\ \A f \in Files : TableOK(Image[f])

VARIABLES
  winModules, \* the records: [name, file, base]; file stands for the table
  refresh,    \* where a thread is in ReadWinModuleAtRunning
  garbage     \* ghost: a handle nobody filled in, or of no image, was used
managerVars == <<winModules, refresh, garbage>>

NoRefresh == [step |-> "no", handles |-> <<>>, num |-> 0]

\* At the start a record is named by the file's base name, later by its path.
Record(image, naming) ==
  [name |-> <<naming, image.file>>, file |-> image.file, base |-> image.base]
Excluded(f) == Image[f].native

\* unordered_set::emplace: a record of the same name stays.
Emplaces(records, record) == \A r \in records : r.name # record.name

\* No two images have the same file, so none of the new records is in another's way.
ReadModules(records, present, naming) ==
  records \union {record \in {Record(image, naming) : image \in present} :
                    ~Excluded(record.file) /\ Emplaces(records, record)}

\* ReadWinModuleAtInit: a walk through the loader's list.
ManagerInit ==
  /\ winModules = ReadModules({}, Loaded, "base name")
  /\ refresh = [t \in Walkers |-> NoRefresh]
  /\ garbage = FALSE

\* Both ends belong to the image.
IsInModule(record, pc) ==
  record.base <= pc /\ pc <= record.base + Image[record.file].size

\* The set has no order: any record with the pc may come first.
GetWinModuleByPc(pc) == {r \in winModules : IsInModule(r, pc)}

IsInRuntimeFunc(function, rva) == function.start <= rva /\ rva <= function.end

\* Mutant: the search stops with one function left.
GetRuntimeFunctionOpen(record, pc) ==
  LET table == Image[record.file].functions
      search[bounds \in (0..Word) \X (0..Word)] ==
        LET start == bounds[1]  end == bounds[2]
            mid == (start + end) \div 2
            function == table[mid + 1] IN
          IF start >= end THEN 0
          ELSE IF mid >= Len(table) THEN -1
          ELSE IF IsInRuntimeFunc(function, pc - record.base) THEN mid + 1
          ELSE IF pc - record.base > function.end THEN search[<<mid + 1, end>>]
          ELSE search[<<start, (mid - 1) % Word>>]
  IN search[<<0, (Len(table) - 1) % Word>>]

\* Binary search with unsigned bounds.  0: not found; -1: an entry behind the
\* table is read, below the first function or in an empty table.
GetRuntimeFunction(record, pc) ==
  LET table == Image[record.file].functions
      search[bounds \in (0..Word) \X (0..Word)] ==
        LET start == bounds[1]  end == bounds[2]
            mid == (start + end) \div 2
            function == table[mid + 1] IN
          IF start > end THEN 0
          ELSE IF mid >= Len(table) THEN -1
          ELSE IF IsInRuntimeFunc(function, pc - record.base) THEN mid + 1
          ELSE IF pc - record.base > function.end THEN search[<<mid + 1, end>>]
          ELSE search[<<start, (mid - 1) % Word>>]
  IN search[<<0, (Len(table) - 1) % Word>>]

-----------------------------------------------------------------------------
(* ReadWinModuleAtRunning *)

SetRefresh(t, r) == refresh' = [refresh EXCEPT ![t] = r]

\* EnumProcessModules fills at most Capacity handles and tells how many there are.
EnumProcessModules(t) ==
  /\ refresh[t].step = "begin"
  /\ SetRefresh(t, IF Len(images) <= Capacity
                     THEN [step |-> "read", handles |-> images, num |-> Len(images)]
                     ELSE [step |-> "again", handles |-> <<>>, num |-> Len(images)])
  /\ UNCHANGED <<winModules, garbage>>

\* The larger array has the size of the first answer, and so has the loop.
EnumExpanded(t) ==
  /\ refresh[t].step = "again"
  /\ LET num == refresh[t].num IN
       /\ SetRefresh(t, [step |-> "read", num |-> num, handles |->
                           IF Len(images) > num THEN SubSeq(images, 1, num) ELSE images])
       /\ garbage' = (garbage \/ Len(images) < num)
  /\ UNCHANGED winModules

\* Names and addresses are read through the handles; an image may be gone.
ReadModuleInfo(t) ==
  /\ refresh[t].step = "read"
  /\ LET handles == ToSet(refresh[t].handles) IN
       /\ winModules' = ReadModules(winModules, handles \intersect Loaded, "path")
       /\ garbage' = (garbage \/ ~(handles \subseteq Loaded))
  /\ SetRefresh(t, [NoRefresh EXCEPT !.step = "done"])
=============================================================================

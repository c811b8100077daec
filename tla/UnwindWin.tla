----------------------------- MODULE UnwindWin -----------------------------
(***************************************************************************)
(* rt0/os/Windows/UnwindWin.cpp: threads walk their stacks frame by frame. *)
(* The address of a frame (FA, where the caller's rbp is saved, below the  *)
(* return address) is computed from the frame it called, by a rule that    *)
(* depends on both functions.  The images the functions are in come and go *)
(* (Loader) and are found through the records of WinModuleManager; which   *)
(* functions are the runtime's own, Section has found out before.          *)
(* What compiled code leaves on a stack is external.                       *)
(***************************************************************************)
EXTENDS WinModuleManager

CONSTANTS
  ImageLists, Own, \* of Section
  Process,   \* the image list of this process, a member of ImageLists
  Stacks,    \* sequences of frames [file, fn], innermost first
  GrowSize,  \* Mutator::GetStackGrowFrameSize
  MaxWalks   \* bound: walks

\* No function of a system library is on a stack that is walked.
ASSUME StacksOK ==
  \A stack \in Stacks :
    /\ stack \in Seq([file : Files, fn : Nat]) /\ stack # <<>>
    /\ \A i \in DOMAIN stack :
         /\ ~Excluded(stack[i].file)
         /\ stack[i].fn \in 1..Len(Image[stack[i].file].functions)

VARIABLES
  sectionImages, step, header, located, total, \* of Section
  walk,         \* the walk of a thread
  walks,
  calleeThrows, \* the static isCalleeThrowStackOverFlowError of each function
  setBy,        \* ghost: the walks that set it last
  mixed         \* ghost: threads whose walk met the flag of another walk
flagVars == <<calleeThrows, setBy, mixed>>
walkVars == <<walk, walks, flagVars>>
sectionVars == <<sectionImages, step, header, located, total>>
vars == <<sectionVars, loaderVars, managerVars, walkVars>>

Sections == INSTANCE Section WITH images <- sectionImages, pc <- step, i <- header

-----------------------------------------------------------------------------
(* Unwind codes: 16-bit slots, the operation in the low half of the high byte *)

PUSH_NON_VOL == 0
ALLOC_LARGE == 1
ALLOC_SMALL == 2
SET_FP_REG == 3
SAVE_NON_VOL == 4
SAVE_NON_VOL_FAR == 5
SAVE_XMM128 == 8
SAVE_XMM128_FAR == 9
PUSH_MACH_FRAME == 10

UnwindCode == 0..65535
GetUnwindOp(code) == (code \div 256) % 16
GetOpInfo(code) == code \div 4096

\* Mutant: every operation is taken for one slot.
GetSlotsNumOne(code) == 1

\* Slots of an operation with its operands; the epilogue codes of version 2
\* end the process.
GetSlotsNum(code) ==
  LET op == GetUnwindOp(code) IN
    CASE op \in {PUSH_NON_VOL, ALLOC_SMALL, SET_FP_REG, PUSH_MACH_FRAME} -> 1
      [] op \in {SAVE_NON_VOL, SAVE_XMM128} -> 2
      [] op \in {SAVE_NON_VOL_FAR, SAVE_XMM128_FAR} -> 3
      [] op = ALLOC_LARGE -> IF GetOpInfo(code) = 0 THEN 2 ELSE 3

\* Size of one operation; an allocation replaces the one before it.
Allocated(codes, i, before) ==
  LET op == GetUnwindOp(codes[i])  info == GetOpInfo(codes[i]) IN
    CASE op = ALLOC_SMALL -> (info + 1) * 8
      [] op = ALLOC_LARGE /\ info = 0 -> codes[i + 1] * 8
      [] op = ALLOC_LARGE /\ info # 0 -> codes[i + 1] + codes[i + 2] * 65536
      [] OTHER -> before

\* Bytes between the stack pointer in the body and the return address; one turn
\* of the loop for each operation.
GetStackOffset(codes) ==
  LET after[k \in 0..Len(codes)] ==
        IF k = 0 THEN [i |-> 1, push |-> 0, alloc |-> 0]
        ELSE LET w == after[k - 1] IN
          IF w.i > Len(codes) THEN w
          ELSE [i |-> w.i + GetSlotsNum(codes[w.i]),
                push |-> IF GetUnwindOp(codes[w.i]) = PUSH_NON_VOL THEN w.push + 8 ELSE w.push,
                alloc |-> Allocated(codes, w.i, w.alloc)]
      last == after[Len(codes)]
  IN last.alloc + last.push

-----------------------------------------------------------------------------
(* The stack as compiled code leaves it.  A function is [start, end, kind,   *)
(* codes, size, off]: size from its stack pointer to its return address, off *)
(* from its rbp to its FA, which the stack map of a managed function tells.  *)

FunctionOf(frame) == Image[frame.file].functions[frame.fn]
Kind(stack, i) == IF i = 0 THEN "runtime" ELSE FunctionOf(stack[i]).kind
Stubs == {"C2N", "N2C", "Execute", "Apply"}

\* Callee address and parameter size stand above the return address.
TakesHead(kind) == kind \in {"N2C", "C2N", "TPE"}

\* A function that overflows or grows the stack calls from its prologue.
InPrologue(stack, i) == Kind(stack, i - 1) \in {"Throw", "Grow"}
Size(stack, i) ==
  CASE Kind(stack, i - 1) = "Throw" -> 8
    [] Kind(stack, i - 1) = "Grow" -> GrowSize - 8
    [] OTHER -> FunctionOf(stack[i]).size

Bottom == 1000000

\* Where the return address of each frame is.
ReturnSlot(stack) ==
  LET n == Len(stack)
      at[i \in 0..n] ==
        IF i = n THEN Bottom
        ELSE at[i + 1] - Size(stack, i + 1) - 8
             - (IF TakesHead(Kind(stack, i)) THEN 16 ELSE 0)
  IN at
FA(stack, i) == ReturnSlot(stack)[i] - 8
SP(stack, i) == ReturnSlot(stack)[i] - Size(stack, i)

\* The rbp a frame calls with; in the prologue it is still the caller's.  Code
\* in C++ uses the register as it likes.
Rbp(stack, i) ==
  LET j == IF i <= Len(stack) /\ InPrologue(stack, i) THEN i + 1 ELSE i IN
    IF j > Len(stack) THEN 0
    ELSE CASE Kind(stack, j) \in Stubs -> FA(stack, j)
           [] Kind(stack, j) = "managed" -> FA(stack, j) - FunctionOf(stack[j]).off
           [] OTHER -> 1
CallerFrameAddress(stack, i) == Rbp(stack, i + 1)

\* external: the format of prologues.  One has operations at starts, one behind
\* the other, and one of them at most allocates.
Operands(code) ==
  CASE GetUnwindOp(code) \in {SAVE_NON_VOL, SAVE_XMM128} -> 1
    [] GetUnwindOp(code) \in {SAVE_NON_VOL_FAR, SAVE_XMM128_FAR} -> 2
    [] GetUnwindOp(code) = ALLOC_LARGE -> IF GetOpInfo(code) = 0 THEN 1 ELSE 2
    [] GetUnwindOp(code) \in {PUSH_NON_VOL, ALLOC_SMALL, SET_FP_REG} -> 0
Prologue(codes, starts) ==
  /\ codes # <<>> => 1 \in starts
  /\ \A p \in starts :
       LET next == p + 1 + Operands(codes[p]) IN
         /\ GetUnwindOp(codes[p]) \in 0..5 \union {SAVE_XMM128, SAVE_XMM128_FAR}
         /\ next \in starts \union {Len(codes) + 1}
         /\ \A q \in starts : q <= p \/ next <= q
OneAlloc(codes, starts) ==
  \A p, q \in starts :
    {GetUnwindOp(codes[p]), GetUnwindOp(codes[q])} \subseteq {ALLOC_SMALL, ALLOC_LARGE} => p = q
Room(codes, p) ==
  IF GetUnwindOp(codes[p]) = ALLOC_SMALL THEN (GetOpInfo(codes[p]) + 1) * 8
  ELSE IF GetOpInfo(codes[p]) = 0 THEN codes[p + 1] * 8
  ELSE codes[p + 1] + codes[p + 2] * 65536
PrologueSize(codes, starts) ==
  LET pushes == {p \in starts : GetUnwindOp(codes[p]) = PUSH_NON_VOL}
      allocs == {p \in starts : GetUnwindOp(codes[p]) \in {ALLOC_SMALL, ALLOC_LARGE}} IN
    (IF allocs = {} THEN 0 ELSE Room(codes, CHOOSE p \in allocs : TRUE))
      + 8 * Cardinality(pushes)
Described(codes, size) ==
  /\ codes \in Seq(UnwindCode)
  /\ \E starts \in SUBSET (DOMAIN codes) :
       Prologue(codes, starts) /\ OneAlloc(codes, starts) /\ size = PrologueSize(codes, starts)

\* The stack of a thread runs in C from a stub for C to one for managed code.
InC(stack, i) ==
  \E j \in 1..i : /\ Kind(stack, j) = "N2C"
                  /\ \A k \in (j + 1)..i : Kind(stack, k) # "C2N"

\* What the compilers promise: codes of code in C or C++ describe its frame.
FunctionOK(f) ==
  /\ f.size \in Nat /\ f.off \in Int
  /\ f.kind \notin Stubs \union {"managed"} => Described(f.codes, f.size)

\* Walks start in managed or runtime code, there is no managed code where the
\* thread runs in C, code that throws or grows was called by managed code, and
\* stubs by none of those that take a head.
Layered(stack, runtime) ==
  /\ Kind(stack, 1) \in {"managed", "runtime"}
  /\ \A i \in DOMAIN stack :
       /\ Kind(stack, i) \in Stubs \union {"managed", "c", "runtime", "Throw", "Grow", "TPE"}
       /\ Kind(stack, i) \in {"managed", "c"} <=> stack[i].file # runtime
       /\ Kind(stack, i) = "managed" => ~InC(stack, i)
       /\ Kind(stack, i) = "c" => InC(stack, i)
       /\ InPrologue(stack, i) => Kind(stack, i) = "managed"
       /\ Kind(stack, i) \in Stubs => ~TakesHead(Kind(stack, i - 1))

\* The section of an image that all of its functions are in.
HoldsCode(section, f) ==
  /\ section.va + section.size <= Image[f].size
  /\ \A n \in 1..Len(Image[f].functions) :
       LET start == Image[f].functions[n].start IN
         section.va <= start + 1 /\ start + 1 < section.va + section.size

\* The runtime stays loaded, and its constructor finds the section of its code.
ASSUME FramesOK ==
  /\ GrowSize \in Int
  /\ \A f \in Files : \A n \in 1..Len(Image[f].functions) : FunctionOK(Image[f].functions[n])
  /\ \E n \in DOMAIN Fixed, m \in DOMAIN Process :
       LET own == Process[m] IN
         /\ own.name = Own /\ own.base = FixedBase[Fixed[n]]
         /\ \E k \in DOMAIN own.sections : own.sections[k].name = ".text_rt"
         /\ \A k \in DOMAIN own.sections :
              own.sections[k].name = ".text_rt" => HoldsCode(own.sections[k], Fixed[n])
         /\ \A stack \in Stacks : Layered(stack, Fixed[n])
ASSUME SectionsOK ==
  Process \in ImageLists /\ Sections!NamesDiffer /\ \A list \in ImageLists : Sections!ListOK(list)

-----------------------------------------------------------------------------

BaseOf(f) == (CHOOSE image \in Loaded : image.file = f).base
Pc(frame) == BaseOf(frame.file) + FunctionOf(frame).start + 1

\* The ip is between g_runtimeStaticStart and g_runtimeStaticEnd.
IsRuntimeFrame(frame) ==
  LET text == located["RuntimeText"] IN
    text.start <= Pc(frame) /\ Pc(frame) < text.start + text.size

NoWalk == [pc |-> "idle", stack |-> <<>>, i |-> 0, fa |-> 0, rsp |-> 0,
           status |-> "RELIABLE", bad |-> None]

SetWalk(t, w) == walk' = [walk EXCEPT ![t] = w]

\* GetCallerRsp and GetCallerFrameInfo have a flag each.
Flags == {"rsp", "fa"}

\* A constructor finds the sections; on Linux the linker has placed them.
SectionsInit ==
  \/ Sections!Init
  \/ /\ platform = "linux" /\ sectionImages = Process /\ step = "done" /\ header = 1
     /\ located = [k \in Sections!Kinds |-> Sections!Nowhere] /\ total = 0

Init ==
  /\ LoaderInit /\ SectionsInit /\ ManagerInit
  /\ walk = [t \in Walkers |-> NoWalk]
  /\ walks = 0
  /\ calleeThrows = [m \in Flags |-> FALSE]
  /\ setBy = [m \in Flags |-> {}]
  /\ mixed = {}

\* Everything else waits for the constructor, and needs it to succeed.
Started == step = "done" /\ sectionImages = Process

\* external: walks start in managed or runtime code, never in a stub or in C,
\* and ask for stack pointer and frame of each caller.
StartWalk(t, stack) ==
  /\ Started /\ platform = "windows" /\ query.step = "never" /\ walk[t].pc = "idle"
  /\ walks < MaxWalks /\ walks' = walks + 1
  /\ \A i \in DOMAIN stack : refs[stack[i].file] > 0
  /\ SetWalk(t, [NoWalk EXCEPT !.pc = "cur", !.stack = stack])
  /\ setBy' = [m \in Flags |-> setBy[m] \ {t}]
  /\ mixed' = mixed \ {t}
  /\ UNCHANGED <<loaderVars, managerVars, calleeThrows>>

\* The visitor has seen enough, or there is no caller.
StopWalk(t) ==
  /\ walk[t].pc = "rsp" /\ refresh[t].step = "no"
  /\ SetWalk(t, NoWalk)
  /\ UNCHANGED <<loaderVars, managerVars, walks, flagVars>>

\* The frame a step looks up: the first one, or the caller of frame i.
Sought(t) == walk[t].stack[IF walk[t].pc = "cur" THEN 1 ELSE walk[t].i + 1]
AtStep(t, pc) ==
  /\ walk[t].pc = pc
  /\ pc # "cur" => walk[t].i < Len(walk[t].stack)

Fits(record, frame) ==
  /\ record.file = frame.file /\ record.base = BaseOf(frame.file)
  /\ GetRuntimeFunction(record, Pc(frame)) = frame.fn

\* The lookup answers a record; this one is right.
Found(t) ==
  /\ refresh[t].step \in {"no", "done"}
  /\ \E record \in GetWinModuleByPc(Pc(Sought(t))) : Fits(record, Sought(t))
  /\ refresh' = [refresh EXCEPT ![t] = NoRefresh]
  /\ UNCHANGED <<loaderVars, winModules, garbage, walks>>

\* No record: the modules are read again, once; then CHECK ends the process.
NotFound(t) ==
  /\ walk[t].pc \in {"cur", "fa", "rsp"} /\ AtStep(t, walk[t].pc)
  /\ GetWinModuleByPc(Pc(Sought(t))) = {}
  /\ \/ /\ refresh[t].step = "no"
        /\ SetRefresh(t, [NoRefresh EXCEPT !.step = "begin"])
        /\ UNCHANGED walk
     \/ /\ refresh[t].step = "done"
        /\ SetWalk(t, [walk[t] EXCEPT !.pc = "lost", !.bad = Sought(t).file])
        /\ UNCHANGED refresh
  /\ UNCHANGED <<loaderVars, winModules, garbage, walks, flagVars>>

\* A record of another image, or of where this one was, has the pc as well.
WrongRecord(t) ==
  /\ walk[t].pc \in {"cur", "fa", "rsp"} /\ AtStep(t, walk[t].pc)
  /\ refresh[t].step \in {"no", "done"}
  /\ \E record \in GetWinModuleByPc(Pc(Sought(t))) :
       /\ ~Fits(record, Sought(t))
       /\ SetWalk(t, [walk[t] EXCEPT !.pc = "lost", !.bad = record.file])
  /\ UNCHANGED <<loaderVars, managerVars, walks, flagVars>>

Refresh(t) ==
  /\ EnumProcessModules(t) \/ EnumExpanded(t) \/ ReadModuleInfo(t)
  /\ UNCHANGED <<loaderVars, walkVars>>

\* The frame the walk starts in.
GetCurFrameInfo(t) ==
  /\ AtStep(t, "cur") /\ Found(t)
  /\ LET stack == walk[t].stack  first == FunctionOf(stack[1]) IN
       SetWalk(t, [walk[t] EXCEPT !.pc = "rsp", !.i = 1,
         !.fa = IF IsRuntimeFrame(stack[1])
                  THEN SP(stack, 1) + GetStackOffset(first.codes) - 8
                  ELSE Rbp(stack, 1) + first.off])
  /\ UNCHANGED flagVars

\* The flag is taken down; a walk that set it, or took another's, is mixed.
TakeFlag(t, flag) ==
  /\ calleeThrows' = [calleeThrows EXCEPT ![flag] = FALSE]
  /\ setBy' = [setBy EXCEPT ![flag] = {}]
  /\ mixed' = mixed \union (setBy[flag] \ {t}) \union ({t} \ setBy[flag])

\* The offset of the caller's stack pointer from the callee's FA.
SpOffset(kind) == IF TakesHead(kind) THEN 32 ELSE 16

\* The rule of ThrowStackOverflowError applies: in GetCallerFrameInfo after the
\* one of stubs only, in GetCallerRsp after the one of StackGrowStub too.
ByFlag(flag, caller, callee) ==
  /\ calleeThrows[flag]
  /\ caller \notin Stubs
  /\ flag = "rsp" => callee # "Grow"

\* The caller's stack pointer.
GetCallerRsp(t) ==
  /\ AtStep(t, "rsp") /\ Found(t)
  /\ LET w == walk[t]
         callee == Kind(w.stack, w.i)
         caller == Kind(w.stack, w.i + 1)
         flag == ByFlag("rsp", caller, callee)
         rsp == IF caller \in Stubs \/ callee = "Grow" \/ flag
                  THEN w.fa + 16 ELSE w.fa + SpOffset(callee)
     IN /\ SetWalk(t, [w EXCEPT !.rsp = rsp,
                      !.pc = IF rsp # SP(w.stack, w.i + 1) THEN "lost"
                             ELSE IF caller = "Throw" THEN "mark rsp" ELSE "fa"])
        /\ IF flag THEN TakeFlag(t, "rsp") ELSE UNCHANGED flagVars

\* The address of the caller's frame, up to the end of the branches.
GetCallerFrameInfo(t) ==
  /\ AtStep(t, "fa") /\ Found(t)
  /\ LET w == walk[t]
         callee == Kind(w.stack, w.i)
         function == FunctionOf(w.stack[w.i + 1])
         caller == function.kind
         flag == ByFlag("fa", caller, callee)
         status == CASE caller = "C2N" -> "RELIABLE" [] caller = "N2C" -> "RISKY"
                     [] OTHER -> w.status
         fa == CASE caller \in Stubs -> CallerFrameAddress(w.stack, w.i)
                 [] flag -> w.fa + 16
                 [] caller \notin Stubs /\ ~flag /\ callee = "Grow" -> w.fa + GrowSize
                 [] caller \notin Stubs /\ ~flag /\ callee # "Grow" ->
                      IF status # "RISKY" /\ ~IsRuntimeFrame(w.stack[w.i + 1])
                        THEN CallerFrameAddress(w.stack, w.i) + function.off
                        ELSE w.fa + SpOffset(callee) + GetStackOffset(function.codes) - 8
     IN /\ SetWalk(t, [w EXCEPT !.i = w.i + 1, !.fa = fa, !.status = status,
                      !.pc = IF fa # FA(w.stack, w.i + 1) THEN "lost"
                             ELSE IF caller = "Throw" THEN "mark fa" ELSE "rsp"])
        /\ IF flag THEN TakeFlag(t, "fa") ELSE UNCHANGED flagVars

\* The end of both functions: the caller just found throws StackOverflowError.
MarkThrow(t) ==
  \E flag \in Flags :
    /\ walk[t].pc = IF flag = "fa" THEN "mark fa" ELSE "mark rsp"
    /\ calleeThrows' = [calleeThrows EXCEPT ![flag] = TRUE]
    /\ setBy' = [setBy EXCEPT ![flag] = @ \union {t}]
    /\ SetWalk(t, [walk[t] EXCEPT !.pc = IF flag = "fa" THEN "rsp" ELSE "fa"])
    /\ UNCHANGED <<loaderVars, managerVars, walks, mixed>>

OnStack(f) ==
  \E t \in Walkers : \E i \in DOMAIN walk[t].stack : walk[t].stack[i].file = f

Images ==
  /\ Started
  /\ Binaries \/ \E f \in Files : ~OnStack(f) /\ UnloadBinaryFile(f)
  /\ UNCHANGED <<managerVars, walkVars>>

Walking(t) ==
  \/ \E stack \in Stacks : StartWalk(t, stack)
  \/ StopWalk(t) \/ NotFound(t) \/ WrongRecord(t) \/ Refresh(t)
  \/ GetCurFrameInfo(t) \/ GetCallerFrameInfo(t) \/ GetCallerRsp(t) \/ MarkThrow(t)

FindSections ==
  /\ platform # "linux" /\ Sections!Next
  /\ UNCHANGED <<images, refs, query, crashed, gone, calls, managerVars, walkVars>>

Next ==
  \/ FindSections
  \/ Images /\ UNCHANGED sectionVars
  \/ \E t \in Walkers : Walking(t) /\ UNCHANGED sectionVars

Spec == Init /\ [][Next]_vars

-----------------------------------------------------------------------------

\* The property of Section, about the constructor of this process.
SectionsFound == platform # "linux" => Sections!SectionsFound

\* A lookup goes wrong only over an image that was unloaded: its record stays
\* and hides the image mapped there next, and keeps its name from being
\* recorded at another base.  Without that the record and the function of the
\* pc are found (WinModuleManager.cpp:38-64, 153-170, UnwindWin.cpp:120-127).
LookupFindsImage ==
  /\ \A t \in Walkers : walk[t].bad # None => walk[t].bad \in gone
  /\ garbage => gone # {}

Exact(t) ==
  walk[t].bad = None /\ walk[t].pc \notin {"idle", "cur"} =>
    /\ walk[t].fa = FA(walk[t].stack, walk[t].i)
    /\ walk[t].pc # "lost"

\* Every frame address and stack pointer of a walk is the one compiled code
\* left, through stubs, stack overflow and growth, as long as the walk's own
\* flag is the one it meets (UnwindWin.cpp:76-240).
WalkIsExact == \A t \in Walkers : t \notin mixed => Exact(t)

\* The same without that condition: the comments claim the rule of the flag
\* for a callee that is ThrowStackOverflowError only (UnwindWin.cpp:134).
WalkIsAlwaysExact == \A t \in Walkers : Exact(t)
=============================================================================

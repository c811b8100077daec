---------------------------- MODULE SignalStack ----------------------------
(***************************************************************************)
(* rt0/signal/SignalStack.cpp: the runtime's handlers stand in front of    *)
(* the program's.  A marked signal has SignalStack::Handler as its action  *)
(* in the kernel; what the program sets with sigaction or signal is kept   *)
(* in sigAction.  Handler runs the chain on the interrupted thread or,     *)
(* for asynchronous signals, in a task on a worker thread.                 *)
(*                                                                         *)
(* The kernel (masks, pending signals, sigreturn, default actions), the    *)
(* task queue behind RunCJTaskSignal and the code of the handlers are      *)
(* external.  g_linkedSignalAction and g_linkedSignalProcmask are the      *)
(* kernel's calls; InitializeSignalStack has found them before Init.       *)
(***************************************************************************)
EXTENDS Naturals, Sequences, SequencesExt

CONSTANTS
  Signals,
  SyncSignals,      \* SIGSEGV, SIGBUS, SIGFPE
  AbortSignals,     \* SIGABRT, SIGILL
  IgnoredByDefault, \* the kernel's default action is to ignore
  Natives, Workers, \* threads of the program, threads that run tasks
  Main,             \* the native thread that sets the runtime up
  Handlers,         \* saSignalAction and scMask of a SignalAction
  UserFns,          \* functions of the program
  UserActions,      \* what the program passes to sigaction
  UserSets,         \* sigset_t objects the program passes to sigprocmask
  Filled,           \* what it has filled each of them with
  Entries,          \* what the runtime puts on a handler stack
  MaxRaises,        \* bound: signals the environment sends
  MaxCalls,         \* bound: calls of the program and of the set-up
  MaxHandlers,      \* bound: length of a handler stack
  MaxFrames         \* bound: nesting of signal frames on a thread

Threads == Natives \union Workers

\* struct sigaction: info is SA_SIGINFO, nodefer is SA_NODEFER.
Action == [fn : {"dfl", "ign", "runtime"} \union UserFns, info : BOOLEAN,
           nodefer : BOOLEAN, mask : SUBSET Signals]
Plain(fn) == [fn |-> fn, info |-> FALSE, nodefer |-> FALSE, mask |-> {}]
Runtime == [fn |-> "runtime", info |-> TRUE, nodefer |-> FALSE, mask |-> Signals]
NullAction == "null"
Handler == [fn : Handlers \union {NullAction}, scMask : SUBSET Signals]

ASSUME SignalClasses == SyncSignals \intersect AbortSignals = {} /\ Main \in Natives
\* caller: SA_SIGINFO comes with a function; the code would call SIG_DFL or SIG_IGN.
ASSUME ProgramActions ==
  UserActions \subseteq {a \in Action : a.fn # "runtime" /\ (a.info => a.fn \in UserFns)}
ASSUME ProgramSets == Filled \in [UserSets -> SUBSET Signals] /\ Entries \subseteq Handler

VARIABLES
  kernel,       \* the action the kernel has for a signal
  isMark, isUserSigHandler, sigAction, handlerStack, \* SignalStack::stacks
  mask, pending,\* the kernel's signal mask and pending set of a thread
  handling,     \* the thread-specific value under g_sigchainKey
  frames,       \* the handler invocations on a thread, the top one last
  tasks,        \* signals queued with RunCJTaskSignal, at most one of each
  userSet,      \* what is in the program's sigset_t objects now
  call,         \* the call of this library a thread is in
  death,        \* why the kernel ended the process
  raises, calls,
  userView,     \* ghost: the action the program set last
  raced,        \* ghost: signals set past a registration in progress
  defaulted,    \* ghost: signals put back to the kernel's default action
  torn, wild,   \* ghost: actions replaced while read; called as a function
  early,        \* ghost: signals a thread blocked before they were marked
  leaked        \* ghost: workers a task left with another mask
stackVars == <<isMark, isUserSigHandler, sigAction, handlerStack>>
threadVars == <<mask, pending, handling>>
ghosts == <<userView, raced, defaulted, torn, wild, early, leaked>>
vars == <<kernel, stackVars, threadVars, frames, tasks, userSet, call, death,
          raises, calls, ghosts>>

NoCall == [op |-> "none"]

Init ==
  /\ kernel = [s \in Signals |-> Plain("dfl")]
  /\ isMark = [s \in Signals |-> FALSE]
  /\ isUserSigHandler = [s \in Signals |-> FALSE]
  /\ sigAction = [s \in Signals |-> Plain("dfl")]
  /\ handlerStack = [s \in Signals |-> <<>>]
  /\ mask = [t \in Threads |-> {}]
  /\ pending = [t \in Threads |-> {}]
  /\ handling = [t \in Threads |-> FALSE]
  /\ frames = [t \in Threads |-> <<>>]
  /\ tasks = {}
  /\ userSet = Filled
  /\ call = [t \in Threads |-> NoCall]
  /\ death = "none"
  /\ raises = 0 /\ calls = 0
  /\ userView = kernel
  /\ raced = {} /\ defaulted = {} /\ torn = {} /\ wild = {}
  /\ early = [t \in Threads |-> {}] /\ leaked = {}

-----------------------------------------------------------------------------
(* Frames: SignalArgs and the local variables of Handler and HandlerImpl.   *)
(* uc is uc_sigmask, which sigreturn puts back when a kernel frame ends.    *)

NewFrame(s, async, pc, uc) ==
  [signal |-> s, isAsync |-> async, pc |-> pc, uc |-> uc, it |-> 0,
   previous_mask |-> {}, previous_value |-> FALSE, flags |-> Plain("dfl")]

Top(t) == Last(frames[t])
At(t, pc) == death = "none" /\ frames[t] # <<>> /\ Top(t).pc = pc
SetTop(t, f) == frames' = [frames EXCEPT ![t] = Append(Front(@), f)]
Goto(t, pc) == SetTop(t, [Top(t) EXCEPT !.pc = pc])
Push(t, f) == frames' = [frames EXCEPT ![t] = Append(@, f)]

\* The innermost invocation ends.  The kernel restores the mask of a signal
\* frame; a task simply returns to its worker.
Pop(t) ==
  /\ frames' = [frames EXCEPT ![t] = Front(@)]
  /\ mask' = IF Top(t).isAsync THEN mask ELSE [mask EXCEPT ![t] = Top(t).uc]

GetHandlingSignal(t) == handling[t]
SetHandlingSignal(t, value) == handling' = [handling EXCEPT ![t] = value]
SigOrSet(left, right) == left \union right

InChain(s) ==
  \E t \in Threads : \E i \in DOMAIN frames[t] :
     frames[t][i].signal = s /\ frames[t][i].pc \in {"walk", "flag", "run"}

Reading(s) ==
  \E t \in Threads : \E i \in DOMAIN frames[t] :
     frames[t][i].signal = s /\ frames[t][i].pc = "call"

-----------------------------------------------------------------------------
(* The kernel and the program's threads (external) *)

\* Somebody sends a signal to a thread: kill, raise, abort.
Raise(t, s) ==
  /\ death = "none" /\ raises < MaxRaises
  /\ raises' = raises + 1
  /\ pending' = [pending EXCEPT ![t] = @ \union {s}]
  /\ UNCHANGED <<kernel, stackVars, mask, handling, frames, tasks, call, death,
                 userSet, calls, ghosts>>

\* The kernel takes a pending signal the thread does not block.
Deliver(t, s) ==
  /\ death = "none" /\ s \in pending[t] \ mask[t]
  /\ Len(frames[t]) < MaxFrames
  /\ pending' = [pending EXCEPT ![t] = @ \ {s}]
  /\ IF kernel[s].fn = "runtime"
       THEN /\ Push(t, NewFrame(s, FALSE, "Handler", mask[t]))
            /\ mask' = [mask EXCEPT ![t] = Signals]
            /\ UNCHANGED death
       ELSE /\ death' = IF kernel[s].fn = "dfl" /\ s \notin IgnoredByDefault
                          THEN "default" ELSE "none"
            /\ UNCHANGED <<frames, mask>>
  /\ UNCHANGED <<kernel, stackVars, handling, tasks, call, userSet, raises, calls,
                 ghosts>>

\* An instruction faults.  The kernel ends the process if the thread blocks the
\* signal; ignoring it does not help either.
Fault(t, s) ==
  /\ death = "none" /\ raises < MaxRaises /\ s \in SyncSignals
  /\ Len(frames[t]) < MaxFrames
  /\ frames[t] # <<>> => Top(t).pc \in {"run", "user"}
  /\ raises' = raises + 1
  /\ IF s \notin mask[t] /\ kernel[s].fn = "runtime"
       THEN /\ Push(t, NewFrame(s, FALSE, "Handler", mask[t]))
            /\ mask' = [mask EXCEPT ![t] = Signals]
            /\ UNCHANGED death
       ELSE /\ death' = IF s \in mask[t] \/ kernel[s].fn \in {"dfl", "ign"}
                          THEN "fault" ELSE "none"
            /\ UNCHANGED <<frames, mask>>
  /\ UNCHANGED <<kernel, stackVars, pending, handling, tasks, call, userSet, calls,
                 ghosts>>

\* A worker takes a task: HandlerImpl runs with no kernel frame below it, and
\* the context it points at belongs to a signal frame that has returned.  What
\* is read there is one of two extremes (a bound): no signal, or all of them.
TakeTask(w, s) ==
  /\ death = "none" /\ s \in tasks /\ frames[w] = <<>>
  /\ tasks' = tasks \ {s}
  /\ \E uc \in {{}, Signals} : Push(w, NewFrame(s, TRUE, "HandlerImpl", uc))
  /\ UNCHANGED <<kernel, stackVars, threadVars, call, death, userSet, raises, calls,
                 ghosts>>

-----------------------------------------------------------------------------
(* Handler and HandlerImpl *)

RunsHere(s) == s \in SyncSignals \/ (s \in AbortSignals /\ ~isUserSigHandler[s])

\* On the interrupted thread, with every signal blocked.  RunCJTaskSignal may
\* answer null: then the signal is dropped.
SignalHandler(t) ==
  /\ At(t, "Handler")
  /\ LET s == Top(t).signal IN
       IF RunsHere(s)
         THEN Goto(t, "HandlerImpl") /\ UNCHANGED <<mask, tasks>>
         ELSE Pop(t) /\ tasks' \in {tasks, tasks \union {s}}
  /\ UNCHANGED <<kernel, stackVars, pending, handling, call, death, userSet, raises,
                 calls, ghosts>>

HandlerImpl(t) ==
  /\ At(t, "HandlerImpl")
  /\ IF GetHandlingSignal(t)
       THEN Goto(t, "action")
       ELSE SetTop(t, [Top(t) EXCEPT !.pc = "walk",
                                     !.it = Len(handlerStack[Top(t).signal])])
  /\ UNCHANGED <<kernel, stackVars, threadVars, tasks, call, death, userSet, raises,
                 calls, ghosts>>

\* The next handler of the stack, from the top; a null one ends the walk.
WalkStack(t) ==
  /\ At(t, "walk")
  /\ LET f == Top(t)  stack == handlerStack[f.signal] IN
       IF f.it = 0 \/ stack[f.it].fn = NullAction
         THEN Goto(t, "action") /\ UNCHANGED mask
         ELSE /\ SetTop(t, [f EXCEPT !.pc = "flag", !.previous_mask = mask[t]])
              /\ mask' = [mask EXCEPT ![t] = stack[f.it].scMask]
  /\ UNCHANGED <<kernel, stackVars, pending, handling, tasks, call, death, userSet,
                 raises, calls, ghosts>>

\* Mutant: the mark is set for asynchronous signals and not for the others.
MarkHandlingInverted(t) ==
  /\ At(t, "flag")
  /\ SetTop(t, [Top(t) EXCEPT !.pc = "run", !.previous_value = GetHandlingSignal(t)])
  /\ IF Top(t).isAsync THEN SetHandlingSignal(t, TRUE) ELSE UNCHANGED handling
  /\ UNCHANGED <<kernel, stackVars, mask, pending, tasks, call, death, userSet,
                 raises, calls, ghosts>>

\* A signal that comes between the new mask and the mark still finds the chain.
MarkHandling(t) ==
  /\ At(t, "flag")
  /\ SetTop(t, [Top(t) EXCEPT !.pc = "run", !.previous_value = GetHandlingSignal(t)])
  /\ IF Top(t).isAsync THEN UNCHANGED handling ELSE SetHandlingSignal(t, TRUE)
  /\ UNCHANGED <<kernel, stackVars, mask, pending, tasks, call, death, userSet,
                 raises, calls, ghosts>>

\* No sigreturn ends a task: the mask set in it stays on the worker.
Leaks(t) == leaked' = IF Top(t).isAsync THEN leaked \union {t} ELSE leaked

\* Mutant: the mark is dropped by the handlers that decline only.
HandlerAcceptsMarked(t) ==
  /\ At(t, "run")
  /\ Goto(t, "return")
  /\ Leaks(t)
  /\ UNCHANGED <<kernel, stackVars, threadVars, tasks, call, death, userSet, raises,
                 calls,
                 userView, raced, defaulted, torn, wild, early>>

\* The handler takes the signal: its mask stays, sigreturn is what undoes it.
HandlerAccepts(t) ==
  /\ At(t, "run")
  /\ Goto(t, "return")
  /\ SetHandlingSignal(t, Top(t).previous_value)
  /\ Leaks(t)
  /\ UNCHANGED <<kernel, stackVars, mask, pending, tasks, call, death, userSet,
                 raises, calls,
                 userView, raced, defaulted, torn, wild, early>>

HandlerDeclines(t) ==
  /\ At(t, "run")
  /\ SetTop(t, [Top(t) EXCEPT !.pc = "walk", !.it = @ - 1])
  /\ mask' = [mask EXCEPT ![t] = Top(t).previous_mask]
  /\ SetHandlingSignal(t, Top(t).previous_value)
  /\ UNCHANGED <<kernel, stackVars, pending, tasks, call, death, userSet, raises,
                 calls, ghosts>>

\* Mutant: flags and mask are those of the action in the kernel.
ReadSavedActionOfKernel(t) ==
  /\ At(t, "action")
  /\ SetTop(t, [Top(t) EXCEPT !.pc = "call", !.flags = kernel[Top(t).signal]])
  /\ UNCHANGED <<kernel, stackVars, threadVars, tasks, call, death, userSet, raises,
                 calls, ghosts>>

\* No handler took it: flags and mask of the saved action are read first.
ReadSavedAction(t) ==
  /\ At(t, "action")
  /\ SetTop(t, [Top(t) EXCEPT !.pc = "call", !.flags = sigAction[Top(t).signal]])
  /\ UNCHANGED <<kernel, stackVars, threadVars, tasks, call, death, userSet, raises,
                 calls, ghosts>>

UserMask(f) ==
  SigOrSet(f.uc, f.flags.mask) \union (IF f.flags.nodefer THEN {} ELSE {f.signal})

\* The function is read again when it is called; the program may have set
\* another action since.
CallSavedAction(t) ==
  /\ At(t, "call")
  /\ LET f == Top(t)  now == sigAction[f.signal] IN
       \/ /\ f.flags.info \/ now.fn \notin {"dfl", "ign"}
          /\ IF f.flags.info # now.info
               THEN /\ wild' = wild \union {f.signal}
                    /\ death' = "wild"
                    /\ UNCHANGED <<frames, mask, leaked>>
               ELSE /\ mask' = [mask EXCEPT ![t] = UserMask(f)]
                    /\ Goto(t, "user")
                    /\ Leaks(t)
                    /\ UNCHANGED <<wild, death>>
          /\ UNCHANGED <<kernel, pending, defaulted>>
       \/ /\ ~f.flags.info /\ now.fn = "ign"
          /\ Goto(t, "return")
          /\ UNCHANGED <<kernel, mask, pending, wild, death, defaulted, leaked>>
       \/ /\ ~f.flags.info /\ now.fn = "dfl"
          /\ kernel' = [kernel EXCEPT ![f.signal] = Plain("dfl")]
          /\ pending' = [pending EXCEPT ![t] = @ \union {f.signal}]
          /\ defaulted' = defaulted \union {f.signal}
          /\ Goto(t, "return")
          /\ UNCHANGED <<mask, wild, death, leaked>>
  /\ UNCHANGED <<stackVars, handling, tasks, call, userSet, raises, calls,
                 userView, raced, torn, early>>

UserFunctionReturns(t) ==
  /\ At(t, "user")
  /\ Goto(t, "return")
  /\ UNCHANGED <<kernel, stackVars, threadVars, tasks, call, death, userSet, raises,
                 calls, ghosts>>

HandlerReturn(t) ==
  /\ At(t, "return")
  /\ Pop(t)
  /\ UNCHANGED <<kernel, stackVars, pending, handling, tasks, call, death, userSet,
                 raises, calls, ghosts>>

-----------------------------------------------------------------------------
(* Set-up by the runtime, on one thread *)

\* A thread is outside signal handlers and calls the library, or is in a call.
Free(t) == death = "none" /\ frames[t] = <<>>
Calling(t, op) == Free(t) /\ call[t].op = op
Enter(t, c) == calls < MaxCalls /\ calls' = calls + 1 /\ call' = [call EXCEPT ![t] = c]
Leave(t) == call' = [call EXCEPT ![t] = NoCall]

\* Mutant: the action that was there is not kept.
RegisterForgets(s) ==
  /\ kernel' = [kernel EXCEPT ![s] = Runtime]
  /\ UNCHANGED sigAction

\* SignalStack::Register: one call of the kernel replaces the action and
\* stores the old one.
Register(s) ==
  /\ kernel' = [kernel EXCEPT ![s] = Runtime]
  /\ sigAction' = [sigAction EXCEPT ![s] = kernel[s]]

MarkSigRegisters(s) ==
  /\ Calling(Main, "none") /\ ~isMark[s]
  /\ Register(s)
  /\ Enter(Main, [op |-> "mark", signal |-> s])
  /\ UNCHANGED <<isMark, isUserSigHandler, handlerStack, threadVars, frames,
                 tasks, death, userSet, raises, ghosts>>

MarkSigMarks ==
  /\ Calling(Main, "mark")
  /\ isMark' = [isMark EXCEPT ![call[Main].signal] = TRUE]
  /\ Leave(Main)
  /\ UNCHANGED <<kernel, isUserSigHandler, sigAction, handlerStack, threadVars,
                 frames, tasks, death, userSet, raises, calls, ghosts>>

\* caller: the chain of a signal does not change while a thread walks it.
AddHandler(s, sa) ==
  /\ Calling(Main, "none") /\ ~InChain(s) /\ Len(handlerStack[s]) < MaxHandlers
  /\ handlerStack' = [handlerStack EXCEPT ![s] = Append(@, sa)]
  /\ Enter(Main, NoCall)
  /\ UNCHANGED <<kernel, isMark, isUserSigHandler, sigAction, threadVars, frames,
                 tasks, death, userSet, raises, ghosts>>

\* The oldest entry with this function goes.
RemoveHandler(s, fn) ==
  /\ Calling(Main, "none") /\ ~InChain(s)
  /\ \E i \in DOMAIN handlerStack[s] :
       /\ handlerStack[s][i].fn = fn
       /\ \A j \in 1..(i - 1) : handlerStack[s][j].fn # fn
       /\ handlerStack' = [handlerStack EXCEPT ![s] = RemoveAt(@, i)]
  /\ Enter(Main, NoCall)
  /\ UNCHANGED <<kernel, isMark, isUserSigHandler, sigAction, threadVars, frames,
                 tasks, death, userSet, raises, ghosts>>

SetUserSigHandler(s, flag) ==
  /\ Calling(Main, "none") /\ isUserSigHandler[s] # flag
  /\ isUserSigHandler' = [isUserSigHandler EXCEPT ![s] = flag]
  /\ Enter(Main, NoCall)
  /\ UNCHANGED <<kernel, isMark, sigAction, handlerStack, threadVars, frames,
                 tasks, death, userSet, raises, ghosts>>

-----------------------------------------------------------------------------
(* sigaction, signal and sigprocmask as the program sees them *)

\* The program sets an action of a marked signal: only the saved one changes.
SetAction(s, a) ==
  /\ sigAction' = [sigAction EXCEPT ![s] = a]
  /\ userView' = [userView EXCEPT ![s] = a]
  /\ torn' = IF Reading(s) THEN torn \union {s} ELSE torn

SigactionMarked(t, s, a) ==
  /\ Calling(t, "none") /\ isMark[s]
  /\ SetAction(s, a)
  /\ Enter(t, NoCall)
  /\ UNCHANGED <<kernel, isMark, isUserSigHandler, handlerStack, threadVars, frames,
                 tasks, death, userSet, raises, raced, defaulted, wild, early, leaked>>

\* IsMarked was false; the call of the kernel is still to come.
SigactionUnmarked(t, s, a) ==
  /\ Calling(t, "none") /\ ~isMark[s]
  /\ Enter(t, [op |-> "linked", signal |-> s, action |-> a])
  /\ UNCHANGED <<kernel, stackVars, threadVars, frames, tasks, death, userSet,
                 raises, ghosts>>

Registered(s) == isMark[s] \/ (call[Main].op = "mark" /\ call[Main].signal = s)

\* The runtime may have registered the signal since: its handler is replaced.
SigactionLinked(t) ==
  /\ Calling(t, "linked")
  /\ LET s == call[t].signal IN
       /\ raced' = IF Registered(s) THEN raced \union {s} ELSE raced
       /\ kernel' = [kernel EXCEPT ![s] = call[t].action]
       /\ userView' = [userView EXCEPT ![s] = call[t].action]
  /\ Leave(t)
  /\ UNCHANGED <<stackVars, threadVars, frames, tasks, death, userSet, raises, calls,
                 defaulted, torn, wild, early, leaked>>

\* signal() builds an action without SA_SIGINFO and an empty mask.
SignalAction(a) == Plain(a.fn) = a

Signal(t, s, a) ==
  /\ SignalAction(a)
  /\ SigactionMarked(t, s, a) \/ SigactionUnmarked(t, s, a)

Sigaction(t, s, a) == SigactionMarked(t, s, a) \/ SigactionUnmarked(t, s, a)

\* Mutant: only SIG_BLOCK is filtered.
AdjustSignalMaskOfBlock(how, set) ==
  IF how = "block" THEN {s \in set : ~isMark[s]} ELSE set

\* Marked signals leave the set a thread wants to block.
AdjustSignalMask(how, set) ==
  IF how = "unblock" THEN set ELSE {s \in set : ~isMark[s]}

\* The set goes to the kernel as it is inside a handler, and filtered outside.
\* The filtered set is written back into the object of the program, although
\* the parameter is const.  The mark of a thread is garbage before the key
\* exists, when nothing is marked either.
Filter(t, how, o) ==
  userSet' = IF GetHandlingSignal(t) THEN userSet
             ELSE [userSet EXCEPT ![o] = AdjustSignalMask(how, @)]

SigprocmaskFilter(t, how, o) ==
  /\ Calling(t, "none")
  /\ Filter(t, how, o)
  /\ Enter(t, [op |-> "setmask", how |-> how, set |-> o, marked |-> {s \in Signals : isMark[s]}])
  /\ UNCHANGED <<kernel, stackVars, threadVars, frames, tasks, death, raises, ghosts>>

NewMask(how, old, set) ==
  CASE how = "block" -> old \union set
    [] how = "unblock" -> old \ set
    [] how = "setmask" -> set

\* The kernel reads the object; another thread may have filtered it since.
SigprocmaskLinked(t) ==
  /\ Calling(t, "setmask")
  /\ LET new == NewMask(call[t].how, mask[t], userSet[call[t].set]) IN
       /\ mask' = [mask EXCEPT ![t] = new]
       /\ early' = [early EXCEPT ![t] = (@ \union (new \ call[t].marked)) \intersect new]
  /\ Leave(t)
  /\ UNCHANGED <<kernel, stackVars, pending, handling, frames, tasks, userSet, death,
                 raises, calls, userView, raced, defaulted, torn, wild, leaked>>

\* A handler or a function of the program changes the mask it runs under.
SigprocmaskInHandler(t, how, o) ==
  /\ At(t, "run") \/ At(t, "user")
  /\ calls < MaxCalls /\ calls' = calls + 1
  /\ Filter(t, how, o)
  /\ mask' = [mask EXCEPT ![t] = NewMask(how, @, userSet'[o])]
  /\ UNCHANGED <<kernel, stackVars, pending, handling, frames, tasks, call, death,
                 raises, ghosts>>

-----------------------------------------------------------------------------

SetUp ==
  \/ MarkSigMarks
  \/ \E s \in Signals :
       \/ MarkSigRegisters(s)
       \/ \E sa \in Entries : AddHandler(s, sa)
       \/ \E fn \in Handlers : RemoveHandler(s, fn)
       \/ \E flag \in BOOLEAN : SetUserSigHandler(s, flag)

Program(t) ==
  \/ SigactionLinked(t) \/ SigprocmaskLinked(t)
  \/ \E s \in Signals, a \in UserActions : Sigaction(t, s, a) \/ Signal(t, s, a)
  \/ \E how \in {"block", "unblock", "setmask"}, o \in UserSets :
       SigprocmaskFilter(t, how, o) \/ SigprocmaskInHandler(t, how, o)

Kernel ==
  \/ \E t \in Threads, s \in Signals : Raise(t, s) \/ Deliver(t, s) \/ Fault(t, s)
  \/ \E w \in Workers, s \in Signals : TakeTask(w, s)

Chain(t) ==
  \/ SignalHandler(t) \/ HandlerImpl(t) \/ WalkStack(t) \/ MarkHandling(t)
  \/ HandlerAccepts(t) \/ HandlerDeclines(t) \/ ReadSavedAction(t)
  \/ CallSavedAction(t) \/ UserFunctionReturns(t) \/ HandlerReturn(t)

Next == SetUp \/ Kernel \/ \E t \in Threads : Program(t) \/ Chain(t)

Spec == Init /\ [][Next]_vars

-----------------------------------------------------------------------------

Frame == [signal : Signals, isAsync : BOOLEAN,
          pc : {"Handler", "HandlerImpl", "walk", "flag", "run", "action", "call",
                "user", "return"},
          uc : SUBSET Signals, it : Nat, previous_mask : SUBSET Signals,
          previous_value : BOOLEAN, flags : Action]

Call ==
  [op : {"none"}] \union [op : {"mark"}, signal : Signals]
  \union [op : {"linked"}, signal : Signals, action : UserActions]
  \union [op : {"setmask"}, how : {"block", "unblock", "setmask"}, set : UserSets,
          marked : SUBSET Signals]

\* Every variable holds what the code can put there (SignalStack.h:25-70).
TypeOK ==
  /\ kernel \in [Signals -> Action] /\ sigAction \in [Signals -> Action]
  /\ isMark \in [Signals -> BOOLEAN] /\ isUserSigHandler \in [Signals -> BOOLEAN]
  /\ handlerStack \in [Signals -> Seq(Handler)]
  /\ mask \in [Threads -> SUBSET Signals] /\ pending \in [Threads -> SUBSET Signals]
  /\ handling \in [Threads -> BOOLEAN]
  /\ frames \in [Threads -> Seq(Frame)]
  /\ tasks \subseteq Signals
  /\ call \in [Threads -> Call]
  /\ death \in {"none", "default", "fault", "wild"}
  /\ userView \in [Signals -> Action]
  /\ wild \subseteq Signals /\ early \in [Threads -> SUBSET Signals]
  /\ userSet \in [UserSets -> SUBSET Signals]

\* However handlers nest, a thread is outside all of them with the handling
\* mark cleared, and deeper frames saw it as it was (SignalStack.cpp:158-173).
MarkClearedOutside ==
  \A t \in Threads : frames[t] = <<>> => ~handling[t]

\* At most one synchronous handler is active on a thread: a nested fault goes
\* to the saved action instead (SignalStack.cpp:148, 162-165).
OneSynchronousHandler ==
  \A t \in Threads : \A i, j \in DOMAIN frames[t] :
     /\ ~frames[t][i].isAsync /\ frames[t][i].pc = "run"
     /\ ~frames[t][j].isAsync /\ frames[t][j].pc = "run"
     => i = j

\* Whatever the order of registering and of the program's calls, the program
\* gets back the action it set last and the runtime keeps a registered signal,
\* except a signal set past a registration and one put back to its default
\* (SignalStack.cpp:266, 282-302, 313-339).
ProgramSeesItsActions ==
  \A s \in Signals \ raced :
     IF Registered(s)
       THEN sigAction[s] = userView[s] /\ (kernel[s] = Runtime \/ s \in defaulted)
       ELSE kernel[s] = userView[s]

\* A thread outside handlers blocks a marked signal only if it asked so before
\* the mark: the runtime's signals get through.  Excepted is a worker after a
\* task that a handler accepted or that ran a function of the program: its
\* mask is the one set there (SignalStack.cpp:153-173, 218, 341-371).
MarkedStaysOpen ==
  \A t \in Threads \ leaked : frames[t] = <<>> =>
     \A s \in mask[t] : isMark[s] => s \in early[t]

\* The saved action is called in the form it was set, unless the program
\* replaced it between the two reads (SignalStack.cpp:176-217).
NoWildCall == wild \subseteq torn
=============================================================================
